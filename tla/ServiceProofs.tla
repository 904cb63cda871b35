---------------------------- MODULE ServiceProofs ----------------------------
(***************************************************************************)
(* Proofs about the services beside the palace: Embeddings, Breaker,       *)
(* ModelPolicy and CuratorPass.  A request is charged at one step only, and*)
(* every way from there to the insert leads through the receipt.  A        *)
(* notification names a cost the project really reached, and cost never    *)
(* falls.  What a thread was answered is what is retained for it, and who  *)
(* has the lock is the only one to retain.  A pass that is not at rest has *)
(* the lock, so no other pass queues cards, or moves the cursors, between  *)
(* what it reads and what it writes.  The selections of ModelPolicy are    *)
(* best on any table: whatever intelligence is worth, the hull has a row   *)
(* as good as any.                                                         *)
(***************************************************************************)
EXTENDS Embeddings, Breaker, ModelPolicy, CuratorPass, ProofBasics, TLAPS

(* Before its call a request is not charged, after the receipt it is paid. *)
Unbilled(r) == step[r] \in {"start", "embed"} \/ (r \in Nominator /\ step[r] = "lock")
PaidFor(r) == step[r] \in {"session", "insert"} \/ (r \in Creator /\ step[r] = "lock")

RequestOK(r) ==
    /\ Unbilled(r) => r \notin billed
    /\ PaidFor(r) => (r \in billed => r \in receipted)
    /\ r \in stored => step[r] = "done" /\ (r \in billed => r \in receipted)

PoolInv ==
    /\ DOMAIN step = Request /\ stored \subseteq Request
    /\ \A r \in Request : RequestOK(r)

LEMMA Moved ==
    ASSUME PoolInv, NEW r \in Request, NEW pc, NEW n, Goto(r, pc, n)
    PROVE  /\ DOMAIN step' = Request /\ step'[r] = pc
           /\ \A q \in Request \ {r} : step'[q] = step[q]
BY DEF PoolInv, Goto

(* The others are not touched.                                             *)
LEMMA OneMoves ==
    ASSUME PoolInv, NEW r \in Request, NEW pc, NEW n, Goto(r, pc, n),
           billed' \subseteq billed \cup {r}, receipted \subseteq receipted',
           stored' \subseteq stored \cup {r}, RequestOK(r)'
    PROVE  PoolInv'
<1>1. /\ DOMAIN step' = Request
      /\ \A q \in Request \ {r} : step'[q] = step[q]
  BY Moved
<1>2. ASSUME NEW q \in Request \ {r} PROVE RequestOK(q)'
  <2>1. RequestOK(q) /\ step'[q] = step[q]
    BY <1>1 DEF PoolInv
  <2> QED
    BY <2>1 DEF RequestOK, Unbilled, PaidFor
<1> QED
  BY <1>1, <1>2 DEF PoolInv

LEMMA RequestStepKeeps ==
    ASSUME PoolInv, NEW r \in Request, RequestStep(r)
    PROVE  PoolInv'
<1> USE EmbeddingsAssumption
<1>0. RequestOK(r) /\ r \in Creator \cup Nominator
  BY DEF PoolInv, Request
<1>1. CASE StartCreate(r)
  <2>1. Goto(r, "embed", 0) /\ step[r] = "start" /\ UNCHANGED <<billed, receipted, stored>>
    BY <1>1 DEF StartCreate
  <2>2. RequestOK(r)'
    BY <1>0, <2>1, Moved DEF RequestOK, Unbilled, PaidFor
  <2> QED
    BY <2>1, <2>2, OneMoves
<1>2. CASE OpenSession(r)
  <2>1. /\ Goto(r, "lock", held[r] + 1) /\ UNCHANGED <<billed, receipted, stored>>
        /\ \/ r \in Nominator /\ step[r] = "start"
           \/ r \in Creator /\ step[r] = "session"
    BY <1>2 DEF OpenSession
  <2>2. RequestOK(r)'
    BY <1>0, <2>1, Moved DEF RequestOK, Unbilled, PaidFor
  <2> QED
    BY <2>1, <2>2, OneMoves
<1>3. CASE LockPrincipal(r)
  <2>1. /\ Goto(r, IF r \in Nominator THEN "embed" ELSE "insert", held[r])
        /\ step[r] = "lock" /\ UNCHANGED <<billed, receipted, stored>>
    BY <1>3 DEF LockPrincipal
  <2>2. RequestOK(r)'
    BY <1>0, <2>1, Moved DEF RequestOK, Unbilled, PaidFor
  <2> QED
    BY <2>1, <2>2, OneMoves
<1>4. CASE Embed(r)
  <2>1. /\ Goto(r, "receipt", held[r]) /\ step[r] = "embed" /\ billed' = billed \cup {r}
        /\ UNCHANGED <<receipted, stored>>
    BY <1>4 DEF Embed, AfterEmbed
  <2>2. RequestOK(r)'
    BY <1>0, <2>1, Moved DEF RequestOK, Unbilled, PaidFor
  <2> QED
    BY <2>1, <2>2, OneMoves
<1>5. CASE EmbedFree(r)
  <2>1. /\ Goto(r, IF r \in Creator THEN "session" ELSE "insert", held[r]) /\ step[r] = "embed"
        /\ UNCHANGED <<billed, receipted, stored>>
    BY <1>5 DEF EmbedFree, AfterReceipt
  <2>2. RequestOK(r)'
    BY <1>0, <2>1, Moved DEF RequestOK, Unbilled, PaidFor
  <2> QED
    BY <2>1, <2>2, OneMoves
<1>6. CASE EmbedFails(r)
  <2>1. /\ Goto(r, "failed", 0) /\ step[r] = "embed" /\ billed' \subseteq billed \cup {r}
        /\ UNCHANGED <<receipted, stored>>
    BY <1>6 DEF EmbedFails, End
  <2>2. RequestOK(r)'
    BY <1>0, <2>1, Moved DEF RequestOK, Unbilled, PaidFor
  <2> QED
    BY <2>1, <2>2, OneMoves
<1>7. CASE CheckoutReceipt(r)
  <2>1. /\ Goto(r, "append", held[r] + 1) /\ step[r] = "receipt"
        /\ UNCHANGED <<billed, receipted, stored>>
    BY <1>7 DEF CheckoutReceipt
  <2>2. RequestOK(r)'
    BY <1>0, <2>1, Moved DEF RequestOK, Unbilled, PaidFor
  <2> QED
    BY <2>1, <2>2, OneMoves
<1>8. CASE AppendReceipt(r)
  <2>1. /\ Goto(r, IF r \in Creator THEN "session" ELSE "insert", held[r] - 1)
        /\ step[r] = "append" /\ receipted' = receipted \cup {r} /\ UNCHANGED <<billed, stored>>
    BY <1>8 DEF AppendReceipt, AfterReceipt
  <2>2. RequestOK(r)'
    BY <1>0, <2>1, Moved DEF RequestOK, Unbilled, PaidFor
  <2> QED
    BY <2>1, <2>2, OneMoves
<1>9. CASE PoolTimeout(r)
  <2>1. /\ Goto(r, "failed", 0) /\ step[r] \in {"receipt", "start", "session"}
        /\ UNCHANGED <<billed, receipted, stored>>
    BY <1>9 DEF PoolTimeout, End
  <2>2. RequestOK(r)'
    BY <1>0, <2>1, Moved DEF RequestOK, Unbilled, PaidFor
  <2> QED
    BY <2>1, <2>2, OneMoves
<1>10. CASE Insert(r)
  <2>1. /\ Goto(r, "done", 0) /\ step[r] = "insert" /\ UNCHANGED <<billed, receipted>>
        /\ stored' \subseteq stored \cup {r}
    BY <1>10 DEF Insert, End
  <2>2. RequestOK(r)'
    BY <1>0, <2>1, Moved DEF RequestOK, Unbilled, PaidFor
  <2> QED
    BY <2>1, <2>2, OneMoves
<1>11. CASE RejectedBody(r)
  <2>1. /\ Goto(r, "done", 0) /\ step[r] = "embed" /\ UNCHANGED <<billed, receipted, stored>>
    BY <1>11 DEF RejectedBody, End
  <2>2. RequestOK(r)'
    BY <1>0, <2>1, Moved DEF RequestOK, Unbilled, PaidFor
  <2> QED
    BY <2>1, <2>2, OneMoves
<1> QED
  BY <1>1, <1>2, <1>3, <1>4, <1>5, <1>6, <1>7, <1>8, <1>9, <1>10, <1>11 DEF RequestStep

(* For any number of requests, principals and connections: a vector that   *)
(* was charged is stored only with its receipt (embed_with_receipt).       *)
THEOREM StoredIsReceiptedHolds == PoolSpec => []StoredIsReceipted
<1>1. PoolInit => PoolInv
  BY DEF PoolInit, PoolInv, RequestOK, Unbilled, PaidFor
<1>2. PoolInv /\ [PoolNext]_poolVars => PoolInv'
  <2> SUFFICES ASSUME PoolInv, [PoolNext]_poolVars PROVE PoolInv'
    OBVIOUS
  <2>1. CASE UNCHANGED poolVars
    BY <2>1 DEF poolVars, PoolInv, RequestOK, Unbilled, PaidFor
  <2> QED
    BY <2>1, RequestStepKeeps DEF PoolNext
<1>3. PoolInv => StoredIsReceipted
  BY DEF PoolInv, RequestOK, StoredIsReceipted
<1> QED
  BY <1>1, <1>2, <1>3, PTL DEF PoolSpec

-----------------------------------------------------------------------------
(* The breaker.  Notifications of the budget carry costs that were reached.*)

BreakerInv ==
    /\ cost \in Nat
    /\ \A m \in topic : Parses(m) => m.cost \in Nat /\ m.cost <= cost
    /\ NoFalseTrip

LEMMA BreakerKeeps ==
    ASSUME BreakerInv, [BreakerNext]_breakerVars
    PROVE  BreakerInv'
<1> USE BreakerAssumption
<1>1. CASE UNCHANGED breakerVars
  BY <1>1 DEF breakerVars, BreakerInv, NoFalseTrip, Parses
<1>2. CASE Spend
  BY <1>2 DEF Spend, BreakerInv, NoFalseTrip, Parses
<1>3. CASE PublishCost
  BY <1>3 DEF PublishCost, BreakerInv, NoFalseTrip, Parses
<1>4. ASSUME NEW n \in 0 .. MaxCost, LateCopy(n) \/ PublishOther(n) PROVE BreakerInv'
  BY <1>4 DEF LateCopy, PublishOther, BreakerInv, NoFalseTrip, Parses
<1>5. ASSUME NEW m \in topic, Acknowledge(m) PROVE BreakerInv'
  BY <1>5 DEF Acknowledge, BreakerInv, NoFalseTrip, Parses
<1>6. ASSUME NEW m \in topic, Detach(m) \/ DetachFails(m) PROVE BreakerInv'
  <2>1. cost >= Budget
    <3>1. Parses(m) /\ m.cost >= Budget
      BY <1>6 DEF Detach, DetachFails, AtOrOver
    <3>2. m.cost \in Nat /\ m.cost <= cost /\ cost \in Nat
      BY <3>1 DEF BreakerInv
    <3> QED
      BY <3>1, <3>2
  <2>2. cost' = cost /\ topic' \subseteq topic
    BY <1>6 DEF Detach, DetachFails
  <2> QED
    BY <2>1, <2>2 DEF BreakerInv, NoFalseTrip, Parses
<1> QED
  BY <1>1, <1>2, <1>3, <1>4, <1>5, <1>6 DEF BreakerNext

(* Any budget, and any order and number of deliveries: billing is detached *)
(* only of a project whose cost reached the budget                         *)
(* (handle_budget_notification, parse_budget_notification).                *)
THEOREM NoFalseTripHolds == BreakerSpec => []NoFalseTrip
<1>1. BreakerInit => BreakerInv
  BY DEF BreakerInit, BreakerInv, NoFalseTrip
<1>2. BreakerInv /\ [BreakerNext]_breakerVars => BreakerInv'
  BY BreakerKeeps
<1>3. BreakerInv => NoFalseTrip
  BY DEF BreakerInv
<1> QED
  BY <1>1, <1>2, <1>3, PTL DEF BreakerSpec

-----------------------------------------------------------------------------
(* Curator passes.                                                         *)

(* A pass that has read the gauges holds values between the cursor and now.*)
Between(low, mid, high) == \A g \in Gauge : low[g] <= mid[g] /\ mid[g] <= high[g]

PassOK(w) ==
    /\ pass[w].pc # "rest" => passLock = w
    /\ pass[w].pc \in {"judge", "enqueue", "advance"}
       => Between(cursor, pass[w].snapshot, gauge)

PassInv ==
    /\ PassTypes
    /\ \A w \in Curator : PassOK(w)
    /\ \A g \in Gauge : cursor[g] <= gauge[g]

-----------------------------------------------------------------------------
(* Rows of a pass, phase by phase.                                         *)

SnapshotRow == [pc : {"snapshot"}, report : SUBSET Finding]
JudgeRow ==
    [pc : {"judge"}, todo : SUBSET Finding, snapshot : Counters, pairs : Nat,
     judged : Seq(Judgement), failed : BOOLEAN]
EnqueueRow ==
    [pc : {"enqueue"}, judged : Seq(Judgement), next : Nat \ {0}, snapshot : Counters,
     failed : BOOLEAN, queued : SUBSET Nat]
AdvanceRow == [pc : {"advance"}, snapshot : Counters]

LEMMA Phases ==
    ASSUME NEW p \in PassRow
    PROVE  /\ p.pc = "snapshot" => p \in SnapshotRow
           /\ p.pc = "judge" => p \in JudgeRow
           /\ p.pc = "enqueue" => p \in EnqueueRow
           /\ p.pc = "advance" => p \in AdvanceRow
BY DEF PassRow, SnapshotRow, JudgeRow, EnqueueRow, AdvanceRow

LEMMA IsPassRow ==
    /\ \A pc \in {"rest", "report", "unlock"} : [pc |-> pc] \in PassRow
    /\ SnapshotRow \cup JudgeRow \cup EnqueueRow \cup AdvanceRow \subseteq PassRow
BY DEF PassRow, SnapshotRow, JudgeRow, EnqueueRow, AdvanceRow

(* Among the findings that may be reviewed there is a strongest.           *)
LEMMA StrongestIsReviewable ==
    ASSUME NEW p \in JudgeRow, Reviewable(p) # {}
    PROVE  Strongest(p) \in p.todo /\ Strongest(p) \in Finding
<1>1. Reviewable(p) \subseteq p.todo /\ p.todo \subseteq Finding
  BY DEF Reviewable, JudgeRow
<1>2. \A f \in Reviewable(p) : Rank[f.site] \in Nat
  BY <1>1, CuratorPassAssumption DEF Finding
<1>3. PICK x \in {Rank[f.site] : f \in Reviewable(p)} :
          \A y \in {Rank[f.site] : f \in Reviewable(p)} : x <= y
  BY <1>2, SmallestExists
<1>4. \E f \in Reviewable(p) : \A g \in Reviewable(p) : Rank[f.site] <= Rank[g.site]
  BY <1>3
<1>5. Strongest(p) \in Reviewable(p)
  BY <1>4 DEF Strongest
<1> QED
  BY <1>1, <1>5

-----------------------------------------------------------------------------
(* Steps of the owner move no pass, and the gauges only up.                *)

LEMMA OwnerStepKeeps ==
    ASSUME PassInv, PassTypes', UNCHANGED <<cursor, pass, passLock>>,
           \A g \in Gauge : gauge[g] <= gauge'[g]
    PROVE  PassInv'
<1>1. gauge \in [Gauge -> Nat] /\ cursor \in [Gauge -> Nat] /\ gauge' \in [Gauge -> Nat]
  BY DEF PassInv, PassTypes, Counters
<1>2. ASSUME NEW w \in Curator PROVE PassOK(w)'
  <2>1. PassOK(w) /\ pass[w] \in PassRow
    BY DEF PassInv, PassTypes
  <2>2. pass[w].pc \in {"judge", "enqueue", "advance"} => pass[w].snapshot \in [Gauge -> Nat]
    BY <2>1, Phases DEF JudgeRow, EnqueueRow, AdvanceRow, Counters
  <2>3. pass[w].pc \in {"judge", "enqueue", "advance"}
        => Between(cursor, pass[w].snapshot, gauge')
    BY <1>1, <2>1, <2>2 DEF PassOK, Between
  <2> QED
    BY <2>1, <2>3 DEF PassOK
<1>3. \A g \in Gauge : cursor'[g] <= gauge'[g]
  BY <1>1 DEF PassInv
<1> QED
  BY <1>2, <1>3 DEF PassInv

LEMMA TickGrows ==
    ASSUME PassTypes, NEW g \in Gauge, gauge' = Ticked(g)
    PROVE  gauge' \in Counters /\ \A h \in Gauge : gauge[h] <= gauge'[h]
BY DEF PassTypes, Counters, Ticked

LEMMA CardsRecarded ==
    ASSUME PassTypes, NEW k \in DOMAIN cards,
           NEW state \in {"pending", "approved", "rejected"},
           cards' = [cards EXCEPT ![k].state = state]
    PROVE  cards' \in Seq(CuratorCard)
<1>1. cards[k] \in CuratorCard /\ cards \in Seq(CuratorCard)
  BY DEF PassTypes
<1>2. [cards[k] EXCEPT !.state = state] \in CuratorCard
  BY <1>1 DEF CuratorCard
<1> QED
  BY <1>1, <1>2

LEMMA OwnerSteps ==
    ASSUME PassInv, OwnerStep
    PROVE  PassInv'
<1>1. PassTypes /\ gauge \in [Gauge -> Nat]
  BY DEF PassInv, PassTypes, Counters
<1>2. UNCHANGED <<cursor, pass, passLock>>
  BY DEF OwnerStep, Admit, Edit, ApproveCard, RejectCard, RemoveFromContext, OpenCompaction,
         CommitCompaction
<1>3. gauge' \in Counters /\ \A g \in Gauge : gauge[g] <= gauge'[g]
  <2>1. gauge' = gauge \/ \E g \in Gauge : gauge' = Ticked(g)
    BY DEF OwnerStep, Admit, Edit, ApproveCard, RejectCard, RemoveFromContext, OpenCompaction,
           CommitCompaction, Gauge
  <2> QED
    BY <1>1, <2>1, TickGrows DEF Counters
<1>4. cards' \in Seq(CuratorCard)
  <2>1. CASE \E k \in DOMAIN cards : ApproveCard(k) \/ RejectCard(k)
    BY <1>1, <2>1, CardsRecarded DEF ApproveCard, RejectCard
  <2>2. CASE ~ \E k \in DOMAIN cards : ApproveCard(k) \/ RejectCard(k)
    BY <1>1, <2>2 DEF PassTypes, OwnerStep, Admit, Edit, RemoveFromContext, OpenCompaction,
                      CommitCompaction
  <2> QED
    BY <2>1, <2>2
<1>5. version' \in [Site -> Nat] /\ sick' \subseteq Site
  <2>1. version' = version \/ \E s : version' = [version EXCEPT ![s] = @ + 1]
    BY DEF OwnerStep, Admit, Edit, ApproveCard, RejectCard, RemoveFromContext, OpenCompaction,
           CommitCompaction
  <2>2. sick' \subseteq sick \/ \E s \in Site : sick' = sick \cup {s}
    BY DEF OwnerStep, Admit, Edit, ApproveCard, RejectCard, RemoveFromContext, OpenCompaction,
           CommitCompaction
  <2> QED
    BY <1>1, <2>1, <2>2 DEF PassTypes
<1>6. kept' = kept
  BY DEF OwnerStep, Admit, Edit, ApproveCard, RejectCard, RemoveFromContext, OpenCompaction,
         CommitCompaction
<1>7. PassTypes'
  BY <1>1, <1>2, <1>3, <1>4, <1>5, <1>6 DEF PassTypes
<1> QED
  BY <1>2, <1>3, <1>7, OwnerStepKeeps

-----------------------------------------------------------------------------
(* A curator moves, and leaves gauges and cursors alone.                   *)

LEMMA CuratorMoves ==
    ASSUME PassInv, NEW w \in Curator, UNCHANGED <<version, sick, gauge, cursor>>,
           cards' \in Seq(CuratorCard), kept' \subseteq Finding,
           NEW row \in PassRow, pass' = [pass EXCEPT ![w] = row],
           passLock' \in Curator \cup {NoCurator},
           \A v \in Curator \ {w} : passLock = v => passLock' = v,
           row.pc # "rest" => passLock' = w,
           row.pc \in {"judge", "enqueue", "advance"} => Between(cursor, row.snapshot, gauge)
    PROVE  PassInv'
<1>1. PassTypes
  BY DEF PassInv
<1>2. pass' \in [Curator -> PassRow] /\ pass'[w] = row
  BY <1>1 DEF PassTypes
<1>3. PassTypes'
  BY <1>1, <1>2 DEF PassTypes
<1>4. ASSUME NEW v \in Curator PROVE PassOK(v)'
  <2>1. CASE v = w
    BY <1>2, <2>1 DEF PassOK, Between
  <2>2. CASE v # w
    <3>1. pass'[v] = pass[v] /\ PassOK(v)
      BY <1>1, <2>2 DEF PassTypes, PassInv
    <3> QED
      BY <2>2, <3>1 DEF PassOK, Between
  <2> QED
    BY <2>1, <2>2
<1> QED
  BY <1>3, <1>4 DEF PassInv

LEMMA StartPassStep ==
    ASSUME PassInv, NEW w \in Curator, StartPass(w)
    PROVE  PassInv'
<1>1. PICK row : row = [pc |-> "report"]
  OBVIOUS
<1>2. row \in PassRow /\ row.pc = "report"
  BY <1>1, IsPassRow
<1>3. \A v \in Curator : passLock # v
  BY CuratorPassAssumption DEF StartPass, PassLockFree, NoCurator
<1>4. cards' \in Seq(CuratorCard) /\ kept' \subseteq Finding
  BY DEF StartPass, PassInv, PassTypes
<1> QED
  BY <1>1, <1>2, <1>3, <1>4, CuratorMoves DEF StartPass

(* A step of a pass that keeps its lock.                                   *)
LEMMA HolderMoves ==
    ASSUME PassInv, NEW w \in Curator, pass[w].pc # "rest",
           UNCHANGED <<version, sick, gauge, cursor, passLock>>,
           cards' \in Seq(CuratorCard), kept' \subseteq Finding,
           NEW row \in PassRow, pass' = [pass EXCEPT ![w] = row],
           row.pc \in {"judge", "enqueue", "advance"} => Between(cursor, row.snapshot, gauge)
    PROVE  PassInv'
<1>1. passLock = w
  BY DEF PassInv, PassOK
<1> QED
  BY <1>1, CuratorMoves

LEMMA BuildReportStep ==
    ASSUME PassInv, NEW w \in Curator, BuildReport(w)
    PROVE  PassInv'
<1>1. PICK row : row = [pc |-> "snapshot",
                        report |-> {[site |-> s, version |-> version[s]] : s \in sick}]
  OBVIOUS
<1>2. PassTypes
  BY DEF PassInv
<1>3. row \in SnapshotRow /\ row.pc = "snapshot"
  BY <1>1, <1>2 DEF SnapshotRow, Finding, PassTypes
<1> QED
  BY <1>1, <1>2, <1>3, IsPassRow, HolderMoves DEF BuildReport, PassTypes

LEMMA ReadTriggersStep ==
    ASSUME PassInv, NEW w \in Curator, ReadTriggers(w)
    PROVE  PassInv'
<1>1. PICK row : row = [pc |-> "judge", todo |-> pass[w].report \ kept, snapshot |-> gauge,
                        pairs |-> 0, judged |-> <<>>, failed |-> FALSE]
  OBVIOUS
<1>2. PassTypes /\ pass[w] \in PassRow
  BY DEF PassInv, PassTypes
<1>3. pass[w].report \subseteq Finding
  BY <1>2, Phases DEF ReadTriggers, SnapshotRow
<1>4. row \in JudgeRow /\ row.pc = "judge" /\ row.snapshot = gauge
  BY <1>1, <1>2, <1>3 DEF JudgeRow, PassTypes
<1>5. Between(cursor, row.snapshot, gauge)
  BY <1>2, <1>4 DEF PassInv, PassTypes, Counters, Between
<1> QED
  BY <1>1, <1>2, <1>4, <1>5, IsPassRow, HolderMoves DEF ReadTriggers, PassTypes

LEMMA JudgeStep ==
    ASSUME PassInv, NEW w \in Curator, Judge(w)
    PROVE  PassInv'
<1>1. PassTypes /\ pass[w] \in PassRow
  BY DEF PassInv, PassTypes
<1>2. PICK p : p = pass[w]
  OBVIOUS
<1>3. p \in JudgeRow /\ p.pc = "judge" /\ Reviewable(p) # {}
  BY <1>1, <1>2, Phases DEF Judge
<1>4. PICK f : f = Strongest(p)
  OBVIOUS
<1>5. f \in Finding
  BY <1>3, <1>4, StrongestIsReviewable
<1>6. PICK action \in Answers(f) :
          pass' = [pass EXCEPT ![w] =
             [p EXCEPT !.todo = @ \ {f},
                       !.pairs = IF f.site \in Pair THEN @ + 1 ELSE @,
                       !.judged = Append(@, [site |-> f.site, version |-> f.version,
                                             action |-> action,
                                             suppressed |-> WasSeenUnchanged(f, action)])]]
  BY <1>2, <1>4 DEF Judge
<1>7. PICK judged : judged = Append(p.judged, [site |-> f.site, version |-> f.version,
                                               action |-> action,
                                               suppressed |-> WasSeenUnchanged(f, action)])
  OBVIOUS
<1>8. judged \in Seq(Judgement)
  <2>1. WasSeenUnchanged(f, action) \in BOOLEAN
    BY DEF WasSeenUnchanged
  <2>2. [site |-> f.site, version |-> f.version, action |-> action,
         suppressed |-> WasSeenUnchanged(f, action)] \in Judgement
    BY <1>5, <1>6, <2>1 DEF Judgement, Finding, Answers
  <2>3. p.judged \in Seq(Judgement)
    BY <1>3 DEF JudgeRow
  <2> QED
    BY <1>7, <2>2, <2>3
<1>9. PICK todo, pairs, row :
          /\ todo = p.todo \ {f} /\ pairs = IF f.site \in Pair THEN p.pairs + 1 ELSE p.pairs
          /\ row = [p EXCEPT !.todo = todo, !.pairs = pairs, !.judged = judged]
  OBVIOUS
<1>10. row \in JudgeRow /\ row.pc = "judge" /\ row.snapshot = p.snapshot
  <2>1. todo \in SUBSET Finding /\ pairs \in Nat
    BY <1>3, <1>9 DEF JudgeRow
  <2> QED
    BY <1>3, <1>8, <1>9, <2>1 DEF JudgeRow
<1>11. pass' = [pass EXCEPT ![w] = row]
  BY <1>6, <1>7, <1>9
<1>12. Between(cursor, row.snapshot, gauge)
  BY <1>2, <1>3, <1>10 DEF PassInv, PassOK
<1> QED
  BY <1>1, <1>2, <1>3, <1>10, <1>11, <1>12, IsPassRow, HolderMoves DEF Judge, PassTypes

LEMMA EnqueuePhaseStep ==
    ASSUME PassInv, NEW w \in Curator, NEW failed \in BOOLEAN, pass[w].pc = "judge",
           pass' = [pass EXCEPT ![w] = EnqueuePhase(pass[w], failed)],
           UNCHANGED <<version, sick, gauge, cursor, cards, kept, passLock>>
    PROVE  PassInv'
<1>1. PassTypes /\ pass[w] \in PassRow
  BY DEF PassInv, PassTypes
<1>2. pass[w] \in JudgeRow
  BY <1>1, Phases
<1>3. PICK row : row = EnqueuePhase(pass[w], failed)
  OBVIOUS
<1>4. row \in EnqueueRow /\ row.pc = "enqueue" /\ row.snapshot = pass[w].snapshot
  BY <1>2, <1>3 DEF EnqueuePhase, EnqueueRow, JudgeRow
<1>5. Between(cursor, row.snapshot, gauge)
  BY <1>4 DEF PassInv, PassOK
<1> QED
  BY <1>1, <1>3, <1>4, <1>5, IsPassRow, HolderMoves DEF PassTypes

LEMMA EnqueueCardStep ==
    ASSUME PassInv, NEW w \in Curator, EnqueueCard(w)
    PROVE  PassInv'
<1>1. PassTypes /\ pass[w] \in PassRow
  BY DEF PassInv, PassTypes
<1>2. PICK p : p = pass[w]
  OBVIOUS
<1>3. p \in EnqueueRow /\ p.pc = "enqueue" /\ p.next <= Len(p.judged)
  BY <1>1, <1>2, Phases DEF EnqueueCard
<1>4. PICK row :
          /\ pass' = [pass EXCEPT ![w] = row]
          /\ row \in {[p EXCEPT !.next = @ + 1],
                      [p EXCEPT !.next = @ + 1, !.queued = @ \cup {Len(cards) + 1}]}
  BY <1>1, <1>2 DEF EnqueueCard, PassTypes
<1>5. Len(cards) \in Nat
  BY <1>1 DEF PassTypes
<1>6. row \in EnqueueRow /\ row.pc = "enqueue" /\ row.snapshot = p.snapshot
  <2>1. p.next + 1 \in Nat \ {0} /\ p.queued \cup {Len(cards) + 1} \in SUBSET Nat
    BY <1>3, <1>5 DEF EnqueueRow
  <2> QED
    BY <1>3, <1>4, <2>1 DEF EnqueueRow
<1>7. cards' \in Seq(CuratorCard)
  <2>1. CASE UNCHANGED cards
    BY <1>1, <2>1 DEF PassTypes
  <2>2. CASE cards' = Append(cards, [site |-> p.judged[p.next].site,
                                     version |-> p.judged[p.next].version,
                                     action |-> p.judged[p.next].action,
                                     state |-> "pending", recorded |-> FALSE])
             /\ p.next \in DOMAIN p.judged
    <3>1. p.judged[p.next] \in Judgement
      BY <1>3, <2>2 DEF EnqueueRow
    <3>2. [site |-> p.judged[p.next].site, version |-> p.judged[p.next].version,
           action |-> p.judged[p.next].action, state |-> "pending", recorded |-> FALSE]
          \in CuratorCard
      BY <3>1 DEF Judgement, CuratorCard
    <3> QED
      BY <1>1, <2>2, <3>2 DEF PassTypes
  <2> QED
    BY <1>2, <1>3, <2>1, <2>2 DEF EnqueueCard, EnqueueRow
<1>8. Between(cursor, row.snapshot, gauge)
  BY <1>2, <1>3, <1>6 DEF PassInv, PassOK
<1>9. kept' \subseteq Finding
  BY <1>1 DEF EnqueueCard, PassTypes
<1> QED
  BY <1>2, <1>3, <1>4, <1>6, <1>7, <1>8, <1>9, IsPassRow, HolderMoves DEF EnqueueCard

LEMMA PersistRunStep ==
    ASSUME PassInv, NEW w \in Curator, PersistRun(w)
    PROVE  PassInv'
<1>1. PassTypes /\ pass[w] \in PassRow
  BY DEF PassInv, PassTypes
<1>2. PICK p : p = pass[w]
  OBVIOUS
<1>3. p \in EnqueueRow /\ p.pc = "enqueue"
  BY <1>1, <1>2, Phases DEF PersistRun
<1>4. cards' \in Seq(CuratorCard)
  <2>1. \A k \in DOMAIN cards : cards[k] \in CuratorCard
    BY <1>1 DEF PassTypes
  <2>2. \A k \in DOMAIN cards : [cards[k] EXCEPT !.recorded = TRUE] \in CuratorCard
    BY <2>1 DEF CuratorCard
  <2>3. cards' = [k \in DOMAIN cards |->
                     IF k \in p.queued THEN [cards[k] EXCEPT !.recorded = TRUE] ELSE cards[k]]
    BY <1>2 DEF PersistRun
  <2>4. \A k \in DOMAIN cards : cards'[k] \in CuratorCard
    BY <2>1, <2>2, <2>3
  <2>5. DOMAIN cards' = 1 .. Len(cards) /\ Len(cards) \in Nat
    BY <1>1, <2>3 DEF PassTypes
  <2> QED
    BY <2>3, <2>4, <2>5
<1>5. kept' \subseteq Finding
  <2>1. \A k \in DOMAIN p.judged :
            [site |-> p.judged[k].site, version |-> p.judged[k].version] \in Finding
    <3>1. \A k \in DOMAIN p.judged : p.judged[k] \in Judgement
      BY <1>3 DEF EnqueueRow
    <3> QED
      BY <3>1 DEF Judgement, Finding
  <2> QED
    BY <1>1, <1>2, <2>1 DEF PersistRun, PassTypes
<1>6. PICK row : row = IF p.failed THEN [pc |-> "unlock"]
                       ELSE [pc |-> "advance", snapshot |-> p.snapshot]
  OBVIOUS
<1>7. \/ row = [pc |-> "unlock"] /\ row.pc = "unlock"
      \/ row \in AdvanceRow /\ row.pc = "advance" /\ row.snapshot = p.snapshot
  BY <1>3, <1>6 DEF AdvanceRow, EnqueueRow
<1>8. row \in PassRow
  BY <1>7, IsPassRow
<1>9. row.pc \in {"judge", "enqueue", "advance"} => Between(cursor, row.snapshot, gauge)
  BY <1>2, <1>3, <1>7 DEF PassInv, PassOK
<1>10. pass' = [pass EXCEPT ![w] = row]
  BY <1>2, <1>6 DEF PersistRun
<1> QED
  BY <1>2, <1>3, <1>4, <1>5, <1>8, <1>9, <1>10, HolderMoves DEF PersistRun

(* The snapshot is no older than the cursor and no newer than the gauges.  *)
LEMMA AdvanceFacts ==
    ASSUME PassInv, NEW w \in Curator, AdvanceCursor(w)
    PROVE  /\ cursor' \in Counters /\ cursor \in [Gauge -> Nat] /\ cursor' \in [Gauge -> Nat]
           /\ Between(cursor, cursor', gauge) /\ passLock = w
<1>1. PassTypes /\ pass[w] \in PassRow /\ pass[w].pc = "advance" /\ PassOK(w)
  BY DEF PassInv, PassTypes, AdvanceCursor
<1>2. cursor' = pass[w].snapshot
  BY DEF AdvanceCursor, Advanced
<1>3. pass[w].snapshot \in Counters
  BY <1>1, Phases DEF AdvanceRow
<1> QED
  BY <1>1, <1>2, <1>3 DEF PassOK, PassTypes, Counters

LEMMA AdvanceCursorStep ==
    ASSUME PassInv, NEW w \in Curator, AdvanceCursor(w)
    PROVE  PassInv'
<1>1. PassTypes /\ \A v \in Curator : PassOK(v)
  BY DEF PassInv
<1>2. cursor' \in Counters /\ Between(cursor, cursor', gauge) /\ passLock = w
  BY AdvanceFacts
<1>3. /\ UNCHANGED <<version, sick, gauge, cards, kept, passLock>>
      /\ pass' \in [Curator -> PassRow] /\ pass'[w].pc = "unlock"
      /\ \A v \in Curator \ {w} : pass'[v] = pass[v]
  BY <1>1, IsPassRow DEF AdvanceCursor, PassTypes
<1>4. PassTypes'
  BY <1>1, <1>2, <1>3 DEF PassTypes
<1>5. \A v \in Curator : PassOK(v)'
  BY <1>1, <1>2, <1>3 DEF PassOK
<1>6. \A g \in Gauge : cursor'[g] <= gauge'[g]
  BY <1>2, <1>3 DEF Between
<1> QED
  BY <1>4, <1>5, <1>6 DEF PassInv

LEMMA LeaveStep ==
    ASSUME PassInv, NEW w \in Curator, pass' = [pass EXCEPT ![w] = Off], passLock' = Released(w),
           UNCHANGED <<version, sick, gauge, cursor, cards, kept>>
    PROVE  PassInv'
<1>1. PICK row : row = Off
  OBVIOUS
<1>2. row \in PassRow /\ row.pc = "rest"
  BY <1>1, IsPassRow DEF Off
<1>3. PassTypes
  BY DEF PassInv
<1>4. passLock' \in Curator \cup {NoCurator} /\ \A v \in Curator \ {w} : passLock = v => passLock' = v
  BY <1>3 DEF Released, PassTypes
<1>5. cards' \in Seq(CuratorCard) /\ kept' \subseteq Finding
  BY <1>3 DEF PassTypes
<1> QED
  BY <1>1, <1>2, <1>4, <1>5, CuratorMoves

-----------------------------------------------------------------------------
LEMMA PassStarts ==
    ASSUME PassInit
    PROVE  PassInv
<1>1. Off \in PassRow /\ Off.pc = "rest"
  BY IsPassRow DEF Off
<1>2. PassTypes
  BY <1>1 DEF PassInit, PassTypes, Counters
<1>3. \A w \in Curator : PassOK(w)
  BY <1>1 DEF PassInit, PassOK
<1> QED
  BY <1>2, <1>3 DEF PassInit, PassInv

LEMMA PassKeeps ==
    ASSUME PassInv, [PassNext]_passVars
    PROVE  PassInv'
<1>1. CASE UNCHANGED passVars
  BY <1>1 DEF passVars, PassInv, PassTypes, PassOK, Between
<1>2. CASE OwnerStep
  BY <1>2, OwnerSteps
<1>3. ASSUME NEW w \in Curator, RunDue(w) \/ RunManual(w) PROVE PassInv'
  BY <1>3, StartPassStep DEF RunDue, RunManual
<1>4. ASSUME NEW w \in Curator, JudgedAll(w) PROVE PassInv'
  BY <1>4, EnqueuePhaseStep DEF JudgedAll
<1>5. ASSUME NEW w \in Curator, ProviderFails(w) PROVE PassInv'
  BY <1>5, EnqueuePhaseStep DEF ProviderFails
<1>6. ASSUME NEW w \in Curator, EndPass(w) \/ LosePass(w) PROVE PassInv'
  BY <1>6, LeaveStep DEF EndPass, LosePass
<1>7. ASSUME NEW w \in Curator, PassStep(w) PROVE PassInv'
  BY <1>4, <1>5, <1>6, <1>7, BuildReportStep, ReadTriggersStep, JudgeStep, EnqueueCardStep,
     PersistRunStep, AdvanceCursorStep DEF PassStep
<1> QED
  BY <1>1, <1>2, <1>3, <1>6, <1>7 DEF PassNext

LEMMA PassInvHolds == PassSpec => []PassInv
<1>1. PassInit => PassInv
  BY PassStarts
<1>2. PassInv /\ [PassNext]_passVars => PassInv'
  BY PassKeeps
<1> QED
  BY <1>1, <1>2, PTL DEF PassSpec

(* The cursors move only when a pass writes its snapshot.                  *)
LEMMA CursorMoves ==
    ASSUME PassInv, [PassNext]_passVars
    PROVE  [\A g \in Gauge : cursor'[g] >= cursor[g]]_cursor
<1>1. CASE \E w \in Curator : AdvanceCursor(w)
  <2>1. cursor \in [Gauge -> Nat] /\ cursor' \in [Gauge -> Nat] /\ Between(cursor, cursor', gauge)
    BY <1>1, AdvanceFacts
  <2> QED
    BY <2>1 DEF Between
<1>2. CASE ~ \E w \in Curator : AdvanceCursor(w)
  BY <1>2 DEF passVars, PassNext, OwnerStep, Admit, Edit, ApproveCard, RejectCard,
     RemoveFromContext, OpenCompaction, CommitCompaction, RunDue, RunManual, StartPass, PassStep,
     BuildReport, ReadTriggers, Judge, JudgedAll, ProviderFails, EnqueueCard, PersistRun, EndPass,
     LosePass
<1> QED
  BY <1>1, <1>2

(* Any number of curators, writes, failures and lost passes: no cursor     *)
(* ever moves back (_advance_cursor under the try-lock of run).            *)
THEOREM CursorsOnlyAdvanceHolds == PassSpec => CursorsOnlyAdvance
<1>1. PassInv /\ [PassNext]_passVars => [\A g \in Gauge : cursor'[g] >= cursor[g]]_cursor
  BY CursorMoves
<1> QED
  BY <1>1, PassInvHolds, PTL DEF PassSpec, CursorsOnlyAdvance

(* A pass between its steps is a row of one of its phases, and what it     *)
(* queues and records is about the sites and verdicts it was given.        *)
THEOREM PassTypesHold == PassSpec => []PassTypes
<1>1. PassInv => PassTypes
  BY DEF PassInv
<1> QED
  BY <1>1, PassInvHolds, PTL

-----------------------------------------------------------------------------
(* The model of a thread.  Every answer is what is retained, and while one *)
(* asker is out for a catalogue nobody retains anything for its thread.    *)

AskerOK(c) ==
    /\ asker[c].pc # "rest" => asker[c].thread \in Thread
    /\ asker[c].pc \in {"load", "named"} =>
          resolverLock = c /\ retained[asker[c].thread] = NoModel

AnswerOK(a) ==
    /\ a = <<a[1], a[2]>> /\ a[1] \in Thread
    /\ retained[a[1]] # NoModel /\ retained[a[1]].model = a[2]

PolicyInv ==
    /\ DOMAIN retained = Thread /\ DOMAIN asker = Asker
    /\ \A c \in Asker : AskerOK(c)
    /\ \A a \in answers : AnswerOK(a)

LEMMA ResolutionIsNone ==
    ASSUME NEW model, NEW images
    PROVE  [model |-> model, images |-> images] # NoModel
<1>1. "model" \in DOMAIN [model |-> model, images |-> images]
  OBVIOUS
<1>2. DOMAIN NoModel = {}
  BY DEF NoModel
<1> QED
  BY <1>1, <1>2

(* One asker moves to a place where it needs no lock.                      *)
LEMMA AskerMoves ==
    ASSUME PolicyInv, NEW c \in Asker, UNCHANGED <<retained, resolverLock>>,
           DOMAIN asker' = Asker, \A d \in Asker \ {c} : asker'[d] = asker[d],
           asker'[c].pc # "rest" => asker'[c].thread \in Thread,
           asker'[c].pc \notin {"load", "named"},
           \A a \in answers' \ answers : AnswerOK(a)
    PROVE  PolicyInv'
<1>1. \A d \in Asker : AskerOK(d)'
  BY DEF PolicyInv, AskerOK
<1>2. \A a \in answers' : AnswerOK(a)'
  BY DEF PolicyInv, AnswerOK
<1> QED
  BY <1>1, <1>2 DEF PolicyInv

(* Nothing is retained for the thread, and no other asker has the lock.    *)
LEMMA RetainKeeps ==
    ASSUME PolicyInv, NEW c \in Asker, NEW t \in Thread, NEW model,
           retained[t] = NoModel, resolverLock \in {NoModel, c}, Retain(c, t, model)
    PROVE  PolicyInv'
<1> DEFINE first == [model |-> model, images |-> FALSE]
<1>1. first # NoModel /\ first.model = model
  BY ResolutionIsNone
<1>2. /\ DOMAIN retained' = Thread /\ retained'[t] = first
      /\ \A u \in Thread \ {t} : retained'[u] = retained[u]
  BY DEF Retain, PolicyInv
<1> HIDE DEF first
<1>3. /\ DOMAIN asker' = Asker /\ asker'[c].pc = "rest"
      /\ \A d \in Asker \ {c} : asker'[d] = asker[d]
  BY DEF Retain, PolicyInv, Asking
<1>4. \A d \in Asker \ {c} : asker[d].pc \notin {"load", "named"}
  BY ModelPolicyAssumption DEF PolicyInv, AskerOK, NoModel
<1>5. \A d \in Asker : AskerOK(d)'
  BY <1>3, <1>4 DEF PolicyInv, AskerOK
<1>6. ASSUME NEW a \in answers' PROVE AnswerOK(a)'
  <2>1. CASE a \in answers
    <3>1. AnswerOK(a)
      BY <2>1 DEF PolicyInv
    <3> QED
      BY <1>2, <3>1 DEF AnswerOK
  <2>2. CASE a = <<t, model>>
    BY <1>1, <1>2, <2>2 DEF AnswerOK
  <2> QED
    BY <2>1, <2>2 DEF Retain, Answered
<1> QED
  BY <1>2, <1>3, <1>5, <1>6 DEF PolicyInv

LEMMA EnterResolveStep ==
    ASSUME PolicyInv, NEW c \in Asker, EnterResolve(c)
    PROVE  PolicyInv'
<1> DEFINE t == asker[c].thread
<1>1. t \in Thread /\ asker[c].pc = "lock" /\ resolverLock = NoModel
  BY DEF EnterResolve, PolicyInv, AskerOK
<1>2. CASE /\ ResolvedMeanwhile(t) /\ answers' = Answered(t, retained[t].model)
           /\ asker' = [asker EXCEPT ![c] = Asking] /\ UNCHANGED <<retained, resolverLock>>
  <2>1. AnswerOK(<<t, retained[t].model>>)
    BY <1>1, <1>2 DEF AnswerOK, ResolvedMeanwhile
  <2>2. /\ DOMAIN asker' = Asker /\ asker'[c].pc = "rest"
        /\ \A d \in Asker \ {c} : asker'[d] = asker[d]
    BY <1>2 DEF PolicyInv, Asking
  <2>3. answers' = answers \cup {<<t, retained[t].model>>}
    BY <1>2 DEF Answered
  <2> QED
    BY <1>2, <2>1, <2>2, <2>3, AskerMoves
<1>3. CASE \E model : ~ResolvedMeanwhile(t) /\ Retain(c, t, model)
  BY <1>1, <1>3, RetainKeeps DEF ResolvedMeanwhile
<1>4. CASE /\ ~ResolvedMeanwhile(t)
           /\ asker' = [asker EXCEPT ![c] =
                 [pc |-> IF policy.kind = "pinned" THEN "named" ELSE "load", thread |-> t]]
           /\ resolverLock' = c /\ UNCHANGED <<retained, answers>>
  <2>1. /\ DOMAIN asker' = Asker /\ asker'[c].thread = t
        /\ \A d \in Asker \ {c} : asker'[d] = asker[d]
    BY <1>4 DEF PolicyInv
  <2>2. \A d \in Asker \ {c} : asker[d].pc \notin {"load", "named"}
    BY <1>1, ModelPolicyAssumption DEF PolicyInv, AskerOK, NoModel
  <2>3. retained'[t] = NoModel /\ resolverLock' = c
    BY <1>4 DEF ResolvedMeanwhile
  <2>4. \A d \in Asker : AskerOK(d)'
    BY <1>1, <1>4, <2>1, <2>2, <2>3 DEF PolicyInv, AskerOK
  <2>5. \A a \in answers' : AnswerOK(a)'
    BY <1>4 DEF PolicyInv, AnswerOK
  <2> QED
    BY <1>4, <2>1, <2>4, <2>5 DEF PolicyInv
<1> QED
  BY <1>2, <1>3, <1>4 DEF EnterResolve

LEMMA LoadStep ==
    ASSUME PolicyInv, NEW c \in Asker, LoadCatalog(c) \/ LoadNamed(c)
    PROVE  PolicyInv'
<1> DEFINE t == asker[c].thread
<1>1. t \in Thread /\ resolverLock = c /\ retained[t] = NoModel
  BY DEF LoadCatalog, LoadNamed, PolicyInv, AskerOK
<1>2. CASE \E model : Retain(c, t, model)
  BY <1>1, <1>2, RetainKeeps
<1>3. CASE Misled(c)
  <2>1. /\ DOMAIN asker' = Asker /\ asker'[c].pc = "rest"
        /\ \A d \in Asker \ {c} : asker'[d] = asker[d]
    BY <1>3 DEF PolicyInv, Misled, Asking
  <2>2. \A d \in Asker \ {c} : asker[d].pc \notin {"load", "named"}
    BY <1>1 DEF PolicyInv, AskerOK
  <2>3. \A d \in Asker : AskerOK(d)'
    BY <1>3, <2>1, <2>2 DEF PolicyInv, AskerOK, Misled
  <2>4. \A a \in answers' : AnswerOK(a)'
    BY <1>3 DEF PolicyInv, AnswerOK, Misled
  <2> QED
    BY <1>3, <2>1, <2>3, <2>4 DEF PolicyInv, Misled
<1> QED
  BY <1>2, <1>3 DEF LoadCatalog, LoadNamed

LEMMA EnrichStep ==
    ASSUME PolicyInv, NEW c \in Asker, Enrich(c)
    PROVE  PolicyInv'
<1> DEFINE t == asker[c].thread
           again == [model |-> asker[c].model, images |-> TRUE]
<1>1. /\ t \in Thread /\ resolverLock = NoModel /\ UNCHANGED <<resolverLock, answers>>
      /\ asker' = [asker EXCEPT ![c] = Asking]
      /\ retained' = IF SameChoice(t, asker[c].model)
                     THEN [retained EXCEPT ![t] = again] ELSE retained
  BY DEF Enrich, PolicyInv, AskerOK
<1>2. again # NoModel /\ again.model = asker[c].model
  BY ResolutionIsNone
<1> HIDE DEF again
<1>3. /\ DOMAIN retained' = Thread
      /\ \A u \in Thread : retained[u] # NoModel =>
            retained'[u] # NoModel /\ retained'[u].model = retained[u].model
      /\ \A u \in Thread : retained[u] = NoModel => retained'[u] = NoModel
  BY <1>1, <1>2 DEF PolicyInv, SameChoice
<1>4. /\ DOMAIN asker' = Asker /\ asker'[c].pc = "rest"
      /\ \A d \in Asker \ {c} : asker'[d] = asker[d]
  BY <1>1 DEF PolicyInv, Asking
<1>5. \A d \in Asker : AskerOK(d)'
  BY <1>1, <1>3, <1>4 DEF PolicyInv, AskerOK
<1>6. \A a \in answers' : AnswerOK(a)'
  BY <1>1, <1>3 DEF PolicyInv, AnswerOK
<1> QED
  BY <1>3, <1>4, <1>5, <1>6 DEF PolicyInv

LEMMA PolicyKeeps ==
    ASSUME PolicyInv, [PolicyNext]_policyVars
    PROVE  PolicyInv'
<1>1. ASSUME UNCHANGED <<retained, asker, resolverLock, answers>> PROVE PolicyInv'
  BY <1>1 DEF PolicyInv, AskerOK, AnswerOK
<1>2. CASE UNCHANGED policyVars \/ Expire \/ (\E catalog \in Catalog : Publish(catalog))
           \/ \E p \in Policy : SetPolicy(p)
  BY <1>1, <1>2 DEF policyVars, Expire, Publish, SetPolicy
<1>3. ASSUME NEW c \in Asker, NEW t \in Thread, Resolve(c, t) PROVE PolicyInv'
  <2>1. asker[c].pc = "rest" /\ UNCHANGED <<retained, resolverLock>>
    BY <1>3 DEF Resolve, Asking
  <2>2. CASE /\ retained[t] # NoModel /\ answers' = Answered(t, retained[t].model)
             /\ UNCHANGED asker
    <3>1. AnswerOK(<<t, retained[t].model>>)
      BY <2>2 DEF AnswerOK
    <3>2. answers' = answers \cup {<<t, retained[t].model>>} /\ DOMAIN asker' = Asker
      BY <2>2 DEF Answered, PolicyInv
    <3> QED
      BY <2>1, <2>2, <3>1, <3>2, AskerMoves
  <2>3. CASE asker' = [asker EXCEPT ![c] = [pc |-> "lock", thread |-> t]] /\ UNCHANGED answers
    <3>1. /\ DOMAIN asker' = Asker /\ asker'[c].pc = "lock" /\ asker'[c].thread = t
          /\ \A d \in Asker \ {c} : asker'[d] = asker[d]
      BY <2>3 DEF PolicyInv
    <3> QED
      BY <2>1, <2>3, <3>1, AskerMoves
  <2> QED
    BY <1>3, <2>2, <2>3 DEF Resolve
<1>4. ASSUME NEW c \in Asker, NEW t \in Thread, NEW model \in TurnModels(t),
             ImageTurn(c, t, model)
      PROVE  PolicyInv'
  <2>1. /\ DOMAIN asker' = Asker /\ asker'[c].pc = "image" /\ asker'[c].thread = t
        /\ \A d \in Asker \ {c} : asker'[d] = asker[d]
    BY <1>4 DEF PolicyInv, ImageTurn
  <2> QED
    BY <1>4, <2>1, AskerMoves DEF ImageTurn
<1>5. ASSUME NEW c \in Asker, ImageConfirmed(c) PROVE PolicyInv'
  <2>1. asker[c].pc = "image" /\ asker[c].thread \in Thread
    BY <1>5 DEF PolicyInv, AskerOK, ImageConfirmed
  <2>2. /\ DOMAIN asker' = Asker /\ asker'[c] = [asker[c] EXCEPT !.pc = "enrich"]
        /\ \A d \in Asker \ {c} : asker'[d] = asker[d]
    BY <1>5 DEF PolicyInv, ImageConfirmed
  <2>3. asker'[c].pc \in {"enrich", "image"}
    BY <2>1, <2>2
  <2>4. asker'[c].thread = asker[c].thread
    BY <2>2
  <2> QED
    BY <1>5, <2>1, <2>2, <2>3, <2>4, AskerMoves DEF ImageConfirmed
<1>6. ASSUME NEW c \in Asker, ImageUnknown(c) PROVE PolicyInv'
  <2>1. /\ DOMAIN asker' = Asker /\ asker'[c].pc = "rest"
        /\ \A d \in Asker \ {c} : asker'[d] = asker[d]
    BY <1>6 DEF PolicyInv, ImageUnknown, Asking
  <2> QED
    BY <1>6, <2>1, AskerMoves DEF ImageUnknown
<1> QED
  BY <1>2, <1>3, <1>4, <1>5, <1>6, EnterResolveStep, LoadStep, EnrichStep DEF PolicyNext

(* Any number of askers and threads, and any policies and tables, in any   *)
(* order: every resolve of a thread is answered with one model (resolve    *)
(* looks again under its lock, and resolve_image_capability replaces only  *)
(* the same choice).                                                       *)
THEOREM ThreadsKeepTheirModelHolds == PolicySpec => []ThreadsKeepTheirModel
<1>1. PolicyInit => PolicyInv
  BY DEF PolicyInit, PolicyInv, AskerOK, AnswerOK, Asking
<1>2. PolicyInv /\ [PolicyNext]_policyVars => PolicyInv'
  BY PolicyKeeps
<1>3. PolicyInv => ThreadsKeepTheirModel
  BY DEF PolicyInv, AnswerOK, ThreadsKeepTheirModel
<1> QED
  BY <1>1, <1>2, <1>3, PTL DEF PolicySpec

-----------------------------------------------------------------------------
(* What a pass is about to queue.  While it runs no other pass records     *)
(* anything, so what no recorded card had said when the provider judged it *)
(* is still new when it is queued; and the cards of a pass are about       *)
(* different findings, and the last in the queue.                          *)

SameFinding(x, y) == x.site = y.site /\ x.version = y.version

NewsOnly(p) ==
    /\ \A i \in DOMAIN p.judged :
        p.judged[i].suppressed \/ ~WasSeenUnchanged(p.judged[i], p.judged[i].action)
    /\ \A i, j \in DOMAIN p.judged : SameFinding(p.judged[i], p.judged[j]) => i = j

JudgingOK(p) ==
    NewsOnly(p) /\ \A i \in DOMAIN p.judged, f \in p.todo : ~SameFinding(p.judged[i], f)

QueueingOK(p) ==
    /\ NewsOnly(p) /\ p.queued \subseteq DOMAIN cards
    /\ \A j \in p.queued, k \in DOMAIN cards : j < k => k \in p.queued
    /\ \A j, k \in p.queued : SameFinding(cards[j], cards[k]) => j = k
    /\ \A k \in p.queued, i \in DOMAIN p.judged : SameFinding(cards[k], p.judged[i]) => i < p.next

NewsOK(w) ==
    /\ pass[w].pc = "judge" => JudgingOK(pass[w])
    /\ pass[w].pc = "enqueue" => QueueingOK(pass[w])

RecordInv == PassInv /\ (\A w \in Curator : NewsOK(w)) /\ RecordedNotRepeated

(* Owners settle cards: what is pending or rejected was so before, or      *)
(* pending.                                                                *)
LEMMA CardsSettle ==
    ASSUME RecordInv, UNCHANGED pass, DOMAIN cards' = DOMAIN cards,
           \A k \in DOMAIN cards :
              /\ cards'[k].site = cards[k].site /\ cards'[k].version = cards[k].version
              /\ cards'[k].action = cards[k].action /\ cards'[k].recorded = cards[k].recorded
              /\ cards'[k].state \in {"pending", "rejected"}
                 => cards[k].state \in {"pending", "rejected"}
    PROVE  (\A w \in Curator : NewsOK(w)') /\ RecordedNotRepeated'
<1>1. \A f, action : WasSeenUnchanged(f, action)' => WasSeenUnchanged(f, action)
  BY DEF WasSeenUnchanged
<1>2. \A p : NewsOnly(p) => NewsOnly(p)'
  BY <1>1 DEF NewsOnly
<1>3. \A p : JudgingOK(p) => JudgingOK(p)'
  BY <1>2 DEF JudgingOK
<1>4. \A p : QueueingOK(p) => QueueingOK(p)'
  BY <1>2 DEF QueueingOK, SameFinding
<1>5. \A w \in Curator : NewsOK(w)'
  BY <1>3, <1>4 DEF RecordInv, NewsOK
<1>6. RecordedNotRepeated'
  BY DEF RecordInv, RecordedNotRepeated
<1> QED
  BY <1>5, <1>6

LEMMA OwnerSettles ==
    ASSUME RecordInv, OwnerStep
    PROVE  (\A w \in Curator : NewsOK(w)') /\ RecordedNotRepeated'
<1>1. UNCHANGED pass
  BY DEF OwnerStep, Admit, Edit, ApproveCard, RejectCard, RemoveFromContext, OpenCompaction,
         CommitCompaction
<1>2. cards \in Seq(CuratorCard)
  BY DEF RecordInv, PassInv, PassTypes
<1>3. CASE \E k \in DOMAIN cards : ApproveCard(k) \/ RejectCard(k)
  <2>1. PICK k \in DOMAIN cards : ApproveCard(k) \/ RejectCard(k)
    BY <1>3
  <2>2. PICK state \in {"approved", "rejected"} :
            cards' = [cards EXCEPT ![k].state = state] /\ cards[k].state = "pending"
    BY <2>1 DEF ApproveCard, RejectCard
  <2>3. \A j \in DOMAIN cards : cards[j] \in CuratorCard
    BY <1>2
  <2>4. /\ DOMAIN cards' = DOMAIN cards /\ cards'[k] = [cards[k] EXCEPT !.state = state]
        /\ \A j \in DOMAIN cards \ {k} : cards'[j] = cards[j]
    BY <1>2, <2>2
  <2>5. /\ cards'[k].site = cards[k].site /\ cards'[k].version = cards[k].version
        /\ cards'[k].action = cards[k].action /\ cards'[k].recorded = cards[k].recorded
    BY <2>3, <2>4 DEF CuratorCard
  <2> QED
    BY <1>1, <2>2, <2>4, <2>5, CardsSettle
<1>4. CASE ~ \E k \in DOMAIN cards : ApproveCard(k) \/ RejectCard(k)
  <2>1. UNCHANGED cards
    BY <1>4 DEF OwnerStep, Admit, Edit, RemoveFromContext, OpenCompaction, CommitCompaction
  <2> QED
    BY <1>1, <2>1, CardsSettle
<1> QED
  BY <1>3, <1>4

(* A curator that moves, and queues and records no card.                   *)
LEMMA OneCuratorMoves ==
    ASSUME RecordInv, NEW w \in Curator, UNCHANGED cards,
           \A v \in Curator \ {w} : pass'[v] = pass[v], NewsOK(w)'
    PROVE  (\A v \in Curator : NewsOK(v)') /\ RecordedNotRepeated'
<1>1. \A p : NewsOnly(p)' <=> NewsOnly(p)
  BY DEF NewsOnly, WasSeenUnchanged
<1>2. \A p : (JudgingOK(p)' <=> JudgingOK(p)) /\ (QueueingOK(p)' <=> QueueingOK(p))
  BY <1>1 DEF JudgingOK, QueueingOK, SameFinding
<1>3. ASSUME NEW v \in Curator \ {w} PROVE NewsOK(v)'
  BY <1>2 DEF RecordInv, NewsOK
<1> QED
  BY <1>3 DEF RecordInv, RecordedNotRepeated

(* The steps of a pass that say nothing new.                               *)
LEMMA QuietSteps ==
    ASSUME RecordInv, NEW w \in Curator,
           \/ StartPass(w) \/ BuildReport(w) \/ ReadTriggers(w) \/ AdvanceCursor(w)
           \/ EndPass(w) \/ LosePass(w)
    PROVE  (\A v \in Curator : NewsOK(v)') /\ RecordedNotRepeated'
<1>1. pass \in [Curator -> PassRow]
  BY DEF RecordInv, PassInv, PassTypes
<1>2. /\ UNCHANGED cards /\ \A v \in Curator \ {w} : pass'[v] = pass[v]
      /\ pass'[w].pc \in {"report", "snapshot", "judge", "unlock", "rest"}
      /\ pass'[w].pc = "judge" => pass'[w].judged = <<>>
  BY <1>1 DEF StartPass, BuildReport, ReadTriggers, AdvanceCursor, EndPass, LosePass, Off
<1>3. pass'[w].pc = "judge" => JudgingOK(pass[w])'
  BY <1>2 DEF JudgingOK, NewsOnly
<1>4. NewsOK(w)'
  BY <1>2, <1>3 DEF NewsOK
<1> QED
  BY <1>2, <1>4, OneCuratorMoves

LEMMA JudgeIsNews ==
    ASSUME RecordInv, NEW w \in Curator, Judge(w)
    PROVE  (\A v \in Curator : NewsOK(v)') /\ RecordedNotRepeated'
<1>1. PassTypes /\ pass[w] \in PassRow /\ pass[w].pc = "judge" /\ NewsOK(w)
  BY DEF RecordInv, PassInv, PassTypes, Judge
<1>2. PICK p : p = pass[w]
  OBVIOUS
<1>3. p \in JudgeRow /\ Reviewable(p) # {} /\ JudgingOK(p)
  BY <1>1, <1>2, Phases DEF Judge, NewsOK
<1>4. PICK f : f = Strongest(p)
  OBVIOUS
<1>5. f \in p.todo
  BY <1>3, <1>4, StrongestIsReviewable
<1>6. PICK action, item, row :
          /\ action \in Answers(f)
          /\ item = [site |-> f.site, version |-> f.version, action |-> action,
                     suppressed |-> WasSeenUnchanged(f, action)]
          /\ row = [p EXCEPT !.todo = @ \ {f},
                             !.pairs = IF f.site \in Pair THEN @ + 1 ELSE @,
                             !.judged = Append(@, item)]
          /\ pass' = [pass EXCEPT ![w] = row]
  BY <1>2, <1>4 DEF Judge
<1>7. /\ row.pc = "judge" /\ row.todo = p.todo \ {f} /\ row.judged = Append(p.judged, item)
  BY <1>1, <1>2, <1>3, <1>6 DEF JudgeRow
<1>8. p.judged \in Seq(Judgement)
  BY <1>3 DEF JudgeRow
<1> DEFINE n == Len(p.judged) + 1
<1>9. /\ DOMAIN row.judged = DOMAIN p.judged \cup {n} /\ n \notin DOMAIN p.judged
      /\ \A i \in DOMAIN p.judged : row.judged[i] = p.judged[i]
      /\ row.judged[n] = item
  <2>1. p.judged \in Seq(Judgement \cup {item})
    BY <1>8, SeqWiden
  <2> QED
    BY <1>7, <2>1, AppendFacts
<1> HIDE DEF n
<1>10. item.site = f.site /\ item.version = f.version /\ item.action = action
       /\ item.suppressed = WasSeenUnchanged(f, action)
  BY <1>6
<1>11. WasSeenUnchanged(item, item.action) <=> WasSeenUnchanged(f, action)
  BY <1>10 DEF WasSeenUnchanged
<1>12. \A i \in DOMAIN p.judged : /\ ~SameFinding(p.judged[i], item)
                                  /\ ~SameFinding(item, p.judged[i])
  BY <1>3, <1>5, <1>10 DEF JudgingOK, SameFinding
<1>13. NewsOnly(row)
  <2>1. /\ \A i \in DOMAIN p.judged :
              p.judged[i].suppressed \/ ~WasSeenUnchanged(p.judged[i], p.judged[i].action)
        /\ \A i, j \in DOMAIN p.judged : SameFinding(p.judged[i], p.judged[j]) => i = j
    BY <1>3 DEF JudgingOK, NewsOnly
  <2>2. \A i \in DOMAIN row.judged :
           row.judged[i].suppressed \/ ~WasSeenUnchanged(row.judged[i], row.judged[i].action)
    BY <1>9, <1>10, <1>11, <2>1
  <2>3. \A i, j \in DOMAIN row.judged : SameFinding(row.judged[i], row.judged[j]) => i = j
    BY <1>9, <1>12, <2>1
  <2> QED
    BY <2>2, <2>3 DEF NewsOnly
<1>14. \A i \in DOMAIN row.judged, g \in row.todo : ~SameFinding(row.judged[i], g)
  <2>1. ASSUME NEW g \in p.todo \ {f} PROVE ~SameFinding(item, g)
    <3>1. p.todo \subseteq Finding
      BY <1>3 DEF JudgeRow
    <3>2. f \in Finding /\ g \in Finding /\ f # g
      BY <1>5, <3>1
    <3> QED
      BY <1>10, <3>2 DEF Finding, SameFinding
  <2> QED
    BY <1>3, <1>7, <1>9, <2>1 DEF JudgingOK
<1>15. UNCHANGED cards
  BY DEF Judge
<1>16. JudgingOK(row)'
  BY <1>13, <1>14, <1>15 DEF JudgingOK, NewsOnly, WasSeenUnchanged, SameFinding
<1>17. pass'[w] = row /\ \A v \in Curator \ {w} : pass'[v] = pass[v]
  BY <1>1, <1>6 DEF PassTypes
<1>18. NewsOK(w)'
  BY <1>7, <1>16, <1>17 DEF NewsOK
<1> QED
  BY <1>15, <1>17, <1>18, OneCuratorMoves

LEMMA QueueingStarts ==
    ASSUME RecordInv, NEW w \in Curator, JudgedAll(w) \/ ProviderFails(w)
    PROVE  (\A v \in Curator : NewsOK(v)') /\ RecordedNotRepeated'
<1>1. PassTypes /\ pass[w].pc = "judge" /\ JudgingOK(pass[w]) /\ UNCHANGED cards
  BY DEF RecordInv, PassInv, NewsOK, JudgedAll, ProviderFails
<1>2. PICK row : /\ row \in {EnqueuePhase(pass[w], FALSE), EnqueuePhase(pass[w], TRUE)}
                 /\ pass' = [pass EXCEPT ![w] = row]
  BY DEF JudgedAll, ProviderFails
<1>3. row.pc = "enqueue" /\ row.judged = pass[w].judged /\ row.queued = {}
  BY <1>2 DEF EnqueuePhase
<1>4. QueueingOK(row)'
  BY <1>1, <1>3 DEF JudgingOK, QueueingOK, NewsOnly, WasSeenUnchanged, SameFinding
<1>5. pass'[w] = row /\ \A v \in Curator \ {w} : pass'[v] = pass[v]
  BY <1>1, <1>2 DEF PassTypes
<1>6. NewsOK(w)'
  BY <1>3, <1>4, <1>5 DEF NewsOK
<1> QED
  BY <1>1, <1>5, <1>6, OneCuratorMoves

(* Who queues or records has the lock: every other curator is at rest.     *)
LEMMA HolderIsAlone ==
    ASSUME RecordInv, NEW w \in Curator, pass[w].pc # "rest",
           \A v \in Curator \ {w} : pass'[v] = pass[v]
    PROVE  \A v \in Curator \ {w} : NewsOK(v)'
<1>1. \A v \in Curator \ {w} : pass[v].pc = "rest"
  BY DEF RecordInv, PassInv, PassOK
<1> QED
  BY <1>1 DEF NewsOK

LEMMA QueuedIsNews ==
    ASSUME RecordInv, NEW w \in Curator, EnqueueCard(w)
    PROVE  (\A v \in Curator : NewsOK(v)') /\ RecordedNotRepeated'
<1>1. PassTypes /\ pass[w] \in PassRow /\ pass[w].pc = "enqueue" /\ QueueingOK(pass[w])
  BY DEF RecordInv, PassInv, PassTypes, NewsOK, EnqueueCard
<1>2. PICK p : p = pass[w]
  OBVIOUS
<1>3. p \in EnqueueRow /\ p.next <= Len(p.judged) /\ QueueingOK(p)
  BY <1>1, <1>2, Phases DEF EnqueueCard
<1>4. /\ p.judged \in Seq(Judgement) /\ p.next \in Nat \ {0} /\ p.queued \subseteq Nat
      /\ p.next \in DOMAIN p.judged
  BY <1>3 DEF EnqueueRow
<1>5. CASE ~Silent(p.judged[p.next]) /\ cards' # cards
  <2> DEFINE j == p.judged[p.next]
             n == Len(cards) + 1
  <2>1. PICK card, row :
            /\ card = [site |-> j.site, version |-> j.version, action |-> j.action,
                       state |-> "pending", recorded |-> FALSE]
            /\ cards' = Append(cards, card) /\ pass' = [pass EXCEPT ![w] = row]
            /\ row = [p EXCEPT !.next = @ + 1, !.queued = @ \cup {n}]
    <3>1. /\ cards' = Append(cards, [site |-> j.site, version |-> j.version,
                                     action |-> j.action, state |-> "pending", recorded |-> FALSE])
          /\ pass' = [pass EXCEPT ![w].next = @ + 1, ![w].queued = @ \cup {Len(cards) + 1}]
      BY <1>2, <1>5 DEF EnqueueCard
    <3>2. pass' = [pass EXCEPT ![w] = [p EXCEPT !.next = @ + 1, !.queued = @ \cup {n}]]
      BY <1>1, <1>2, <3>1 DEF PassTypes
    <3> QED
      BY <3>1, <3>2
  <2>2. /\ row.pc = "enqueue" /\ row.judged = p.judged /\ row.next = p.next + 1
        /\ row.queued = p.queued \cup {n}
    BY <1>1, <1>2, <1>3, <2>1 DEF EnqueueRow
  <2>3. cards \in Seq(CuratorCard) /\ j \in Judgement
    BY <1>1, <1>4 DEF PassTypes
  <2>4. card.site = j.site /\ card.version = j.version /\ card.action = j.action
        /\ card.recorded = FALSE
    BY <2>1
  <2>5. /\ DOMAIN cards' = DOMAIN cards \cup {n} /\ n \notin DOMAIN cards /\ n \in Nat
        /\ DOMAIN cards \subseteq Nat /\ \A k \in DOMAIN cards : k < n
        /\ \A k \in DOMAIN cards : cards'[k] = cards[k]
        /\ cards'[n] = card
    <3>1. cards \in Seq(CuratorCard \cup {card})
      BY <2>3, SeqWiden
    <3> QED
      BY <2>1, <3>1, AppendFacts
  <2> HIDE DEF n
  <2>6. ~WasSeenUnchanged(j, j.action) /\ ~j.suppressed
    BY <1>3, <1>4, <1>5 DEF QueueingOK, NewsOnly, Silent
  <2>7. RecordedNotRepeated'
    <3>1. SUFFICES ASSUME NEW i \in DOMAIN cards', NEW k \in DOMAIN cards', i < k,
                          cards'[i].recorded, cards'[i].state \in {"pending", "rejected"}
                   PROVE  \/ cards'[i].site # cards'[k].site
                          \/ cards'[i].version # cards'[k].version
                          \/ cards'[i].action # cards'[k].action
      BY DEF RecordedNotRepeated
    <3>2. i \in DOMAIN cards /\ cards'[i] = cards[i]
      BY <2>4, <2>5, <3>1
    <3>3. CASE k \in DOMAIN cards
      BY <2>5, <3>1, <3>2, <3>3 DEF RecordInv, RecordedNotRepeated
    <3>4. CASE k = n
      BY <2>4, <2>5, <2>6, <3>1, <3>2, <3>4 DEF WasSeenUnchanged
    <3> QED
      BY <2>5, <3>3, <3>4
  <2>8. \A f, action : WasSeenUnchanged(f, action)' => WasSeenUnchanged(f, action)
    BY <2>4, <2>5 DEF WasSeenUnchanged
  <2>9. NewsOnly(row)'
    BY <1>3, <2>2, <2>8 DEF QueueingOK, NewsOnly, SameFinding
  <2>10. /\ row.queued \subseteq DOMAIN cards'
         /\ \A i \in row.queued, k \in DOMAIN cards' : i < k => k \in row.queued
    <3>1. ASSUME NEW i \in row.queued, NEW k \in DOMAIN cards', i < k PROVE k \in row.queued
      <4>1. CASE k = n
        BY <2>2, <4>1
      <4>2. CASE k \in DOMAIN cards
        <5>1. i \in p.queued
          BY <2>2, <2>5, <3>1, <4>2
        <5> QED
          BY <1>3, <2>2, <3>1, <4>2, <5>1 DEF QueueingOK
      <4> QED
        BY <2>5, <4>1, <4>2
    <3>2. row.queued \subseteq DOMAIN cards'
      BY <1>3, <2>2, <2>5 DEF QueueingOK
    <3> QED
      BY <3>1, <3>2
  <2>11. \A k \in p.queued : k \in DOMAIN cards /\ ~SameFinding(cards[k], card)
                             /\ ~SameFinding(card, cards[k])
    <3>1. \A k \in p.queued : k \in DOMAIN cards /\ ~SameFinding(cards[k], j)
      BY <1>3, <1>4 DEF QueueingOK
    <3> QED
      BY <2>4, <3>1 DEF SameFinding
  <2>12. \A i, k \in row.queued : SameFinding(cards'[i], cards'[k]) => i = k
    <3>1. \A i, k \in p.queued : SameFinding(cards[i], cards[k]) => i = k
      BY <1>3 DEF QueueingOK
    <3> QED
      BY <2>2, <2>5, <2>11, <3>1
  <2>13. \A k \in row.queued, i \in DOMAIN row.judged :
            SameFinding(cards'[k], row.judged[i]) => i < row.next
    <3>1. ASSUME NEW k \in p.queued, NEW i \in DOMAIN p.judged, SameFinding(cards'[k], p.judged[i])
          PROVE  i < row.next
      <4>1. i < p.next /\ i \in Nat
        BY <1>3, <1>4, <2>5, <2>11, <3>1 DEF QueueingOK
      <4> QED
        BY <1>4, <2>2, <4>1
    <3>2. ASSUME NEW i \in DOMAIN p.judged, SameFinding(card, p.judged[i]) PROVE i < row.next
      <4>1. SameFinding(j, p.judged[i])
        BY <2>4, <3>2 DEF SameFinding
      <4>2. i = p.next
        BY <1>3, <1>4, <4>1 DEF QueueingOK, NewsOnly
      <4> QED
        BY <1>4, <2>2, <4>2
    <3> QED
      BY <2>2, <2>5, <3>1, <3>2
  <2>14. QueueingOK(row)'
    BY <2>9, <2>10, <2>12, <2>13 DEF QueueingOK, SameFinding
  <2>15. pass'[w] = row /\ \A v \in Curator \ {w} : pass'[v] = pass[v]
    BY <1>1, <2>1 DEF PassTypes
  <2>16. NewsOK(w)'
    BY <2>2, <2>14, <2>15 DEF NewsOK
  <2>17. \A v \in Curator \ {w} : NewsOK(v)'
    BY <1>1, <2>15, HolderIsAlone
  <2> QED
    BY <2>7, <2>16, <2>17
<1>6. CASE UNCHANGED cards /\ pass' = [pass EXCEPT ![w].next = @ + 1]
  <2>1. PICK row : row = [p EXCEPT !.next = @ + 1] /\ pass' = [pass EXCEPT ![w] = row]
    BY <1>1, <1>2, <1>6 DEF PassTypes
  <2>2. /\ row.pc = "enqueue" /\ row.judged = p.judged /\ row.next = p.next + 1
        /\ row.queued = p.queued
    BY <1>1, <1>2, <1>3, <2>1 DEF EnqueueRow
  <2>3. \A i \in DOMAIN p.judged : i < p.next => i < row.next
    BY <1>4, <2>2
  <2>4. QueueingOK(row)'
    <3>1. QueueingOK(row)
      BY <1>3, <2>2, <2>3 DEF QueueingOK, NewsOnly
    <3> QED
      BY <1>6, <3>1 DEF QueueingOK, NewsOnly, WasSeenUnchanged, SameFinding
  <2>5. pass'[w] = row /\ \A v \in Curator \ {w} : pass'[v] = pass[v]
    BY <1>1, <2>1 DEF PassTypes
  <2>6. NewsOK(w)'
    BY <2>2, <2>4, <2>5 DEF NewsOK
  <2> QED
    BY <1>6, <2>5, <2>6, OneCuratorMoves
<1>7. Append(cards, [site |-> p.judged[p.next].site, version |-> p.judged[p.next].version,
                     action |-> p.judged[p.next].action,
                     state |-> "pending", recorded |-> FALSE]) # cards
  <2>1. cards \in Seq(CuratorCard)
    BY <1>1 DEF PassTypes
  <2>2. ASSUME NEW card PROVE Append(cards, card) # cards
    <3>1. cards \in Seq(CuratorCard \cup {card})
      BY <2>1, SeqWiden
    <3>2. DOMAIN Append(cards, card) # DOMAIN cards
      BY <3>1, AppendFacts
    <3> QED
      BY <3>2
  <2> QED
    BY <2>2
<1> QED
  BY <1>2, <1>5, <1>6, <1>7 DEF EnqueueCard

LEMMA RecordedIsNews ==
    ASSUME RecordInv, NEW w \in Curator, PersistRun(w)
    PROVE  (\A v \in Curator : NewsOK(v)') /\ RecordedNotRepeated'
<1>1. PassTypes /\ pass[w].pc = "enqueue" /\ QueueingOK(pass[w])
  BY DEF RecordInv, PassInv, NewsOK, PersistRun
<1>2. PICK p : p = pass[w]
  OBVIOUS
<1>3. /\ cards' = [k \in DOMAIN cards |->
                    IF k \in p.queued THEN [cards[k] EXCEPT !.recorded = TRUE] ELSE cards[k]]
      /\ pass' = [pass EXCEPT ![w] =
                     IF p.failed THEN [pc |-> "unlock"]
                     ELSE [pc |-> "advance", snapshot |-> p.snapshot]]
  BY <1>2 DEF PersistRun
<1>4. pass'[w].pc \in {"unlock", "advance"} /\ \A v \in Curator \ {w} : pass'[v] = pass[v]
  BY <1>1, <1>3 DEF PassTypes
<1>5. NewsOK(w)' /\ \A v \in Curator \ {w} : NewsOK(v)'
  BY <1>1, <1>4, HolderIsAlone DEF NewsOK
<1>6. \A k \in DOMAIN cards : cards[k] \in CuratorCard
  BY <1>1 DEF PassTypes
<1>7. /\ DOMAIN cards' = DOMAIN cards
      /\ \A k \in DOMAIN cards :
            /\ cards'[k].site = cards[k].site /\ cards'[k].version = cards[k].version
            /\ cards'[k].action = cards[k].action /\ cards'[k].state = cards[k].state
            /\ k \notin p.queued => cards'[k].recorded = cards[k].recorded
  BY <1>3, <1>6 DEF CuratorCard
<1>8. SUFFICES ASSUME NEW i \in DOMAIN cards, NEW k \in DOMAIN cards, i < k,
                      cards'[i].recorded, cards[i].state \in {"pending", "rejected"}
               PROVE  \/ cards[i].site # cards[k].site
                      \/ cards[i].version # cards[k].version
                      \/ cards[i].action # cards[k].action
  BY <1>5, <1>7 DEF RecordedNotRepeated
<1>9. CASE i \notin p.queued
  BY <1>7, <1>8, <1>9 DEF RecordInv, RecordedNotRepeated
<1>10. CASE i \in p.queued
  <2>1. k \in p.queued /\ i # k
    BY <1>1, <1>2, <1>8, <1>10 DEF QueueingOK, PassTypes
  <2>2. ~SameFinding(cards[i], cards[k])
    BY <1>1, <1>2, <1>10, <2>1 DEF QueueingOK
  <2> QED
    BY <2>2 DEF SameFinding
<1> QED
  BY <1>9, <1>10

LEMMA RecordKeeps ==
    ASSUME RecordInv, [PassNext]_passVars
    PROVE  RecordInv'
<1>1. PassInv'
  BY PassKeeps DEF RecordInv
<1>2. CASE UNCHANGED passVars
  <2>1. (\A w \in Curator : NewsOK(w)') /\ RecordedNotRepeated'
    BY <1>2, CardsSettle DEF passVars
  <2> QED
    BY <1>1, <2>1 DEF RecordInv
<1>3. CASE OwnerStep
  BY <1>1, <1>3, OwnerSettles DEF RecordInv
<1>4. ASSUME NEW w \in Curator, RunDue(w) \/ RunManual(w) \/ PassStep(w) \/ LosePass(w)
      PROVE  (\A v \in Curator : NewsOK(v)') /\ RecordedNotRepeated'
  <2>1. CASE \/ StartPass(w) \/ BuildReport(w) \/ ReadTriggers(w) \/ AdvanceCursor(w)
             \/ EndPass(w) \/ LosePass(w)
    BY <2>1, QuietSteps
  <2>2. CASE Judge(w)
    BY <2>2, JudgeIsNews
  <2>3. CASE JudgedAll(w) \/ ProviderFails(w)
    BY <2>3, QueueingStarts
  <2>4. CASE EnqueueCard(w)
    BY <2>4, QueuedIsNews
  <2>5. CASE PersistRun(w)
    BY <2>5, RecordedIsNews
  <2> QED
    BY <1>4, <2>1, <2>2, <2>3, <2>4, <2>5 DEF RunDue, RunManual, PassStep
<1> QED
  BY <1>1, <1>2, <1>3, <1>4 DEF PassNext, RecordInv

(* Any number of curators and sites: a verdict that was recorded, and is   *)
(* not approved, is not queued again on the same finding, whatever passes  *)
(* fail, die or overlap and whatever the owner decides meanwhile           *)
(* (_was_seen_unchanged, _persist_run).                                    *)
THEOREM RecordedNotRepeatedHolds == PassSpec => []RecordedNotRepeated
<1>1. PassInit => RecordInv
  <2> SUFFICES ASSUME PassInit PROVE RecordInv
    OBVIOUS
  <2>1. \A w \in Curator : NewsOK(w)
    BY DEF PassInit, NewsOK, Off
  <2>2. RecordedNotRepeated
    BY DEF PassInit, RecordedNotRepeated
  <2> QED
    BY <2>1, <2>2, PassStarts DEF RecordInv
<1>2. RecordInv /\ [PassNext]_passVars => RecordInv'
  BY RecordKeeps
<1>3. RecordInv => RecordedNotRepeated
  BY DEF RecordInv
<1> QED
  BY <1>1, <1>2, <1>3, PTL DEF PassSpec

-----------------------------------------------------------------------------
(* A table that can be read: complete rows, one per model.                 *)
Legible(rows) ==
    /\ rows \in SUBSET Row /\ IsFiniteSet(rows) /\ rows # {}
    /\ \A row \in rows : row.price >= 0
    /\ \A row, other \in rows : row.slug = other.slug => row = other

(* The order of the keys <<a, b, slug>>.                                   *)
Lower(a, b, x, y) ==
    \/ a[x] < a[y]
    \/ a[x] = a[y] /\ b[x] < b[y]
    \/ a[x] = a[y] /\ b[x] = b[y] /\ x.slug < y.slug

LEMMA FirstOfRows ==
    ASSUME NEW rows, Legible(rows), NEW S \in SUBSET rows, S # {},
           NEW a \in [S -> Int], NEW b \in [S -> Int]
    PROVE  \E x \in S : \A y \in S : y = x \/ Lower(a, b, x, y)
<1> DEFINE below == [x \in S |-> {y \in S : Lower(a, b, y, x)}]
<1>1. IsFiniteSet(S)
  BY FS_Subset DEF Legible
<1>2. \A x \in S : x.slug \in Int /\ a[x] \in Int /\ b[x] \in Int
  BY DEF Legible, Row
<1>3. \A x, y \in S : x.slug = y.slug => x = y
  BY DEF Legible
<1>4. \A x \in S : ~Lower(a, b, x, x)
  BY <1>2 DEF Lower
<1>5. \A x, y, z \in S : Lower(a, b, z, y) /\ Lower(a, b, y, x) => Lower(a, b, z, x)
  BY <1>2 DEF Lower
<1>6. \A x, y \in S : x # y => Lower(a, b, x, y) \/ Lower(a, b, y, x)
  BY <1>2, <1>3 DEF Lower
<1>7. Ordered(S, below)
  BY <1>4, <1>5, <1>6 DEF Ordered
<1>8. PICK x \in S : \A y \in S : y = x \/ x \in below[y]
  <2> HIDE DEF below
  <2> QED
    BY <1>1, <1>7, FirstExists
<1> QED
  BY <1>8

Keyed(a, b, x, k) ==
    /\ a[x] \in Int /\ b[x] \in Int /\ x.slug \in Int
    /\ k = Append(<<a[x], b[x]>>, x.slug)

LEMMA EarlierIsLower ==
    ASSUME NEW a, NEW b, NEW x, NEW y, NEW k, NEW o, Keyed(a, b, x, k), Keyed(a, b, y, o)
    PROVE  /\ Earlier(k, o) <=> Lower(a, b, x, y)
           /\ k = o => a[x] = a[y] /\ b[x] = b[y] /\ x.slug = y.slug
<1> USE DEF Keyed
<1>1. /\ DOMAIN k = 1 .. 3 /\ k[1] = a[x] /\ k[2] = b[x] /\ k[3] = x.slug
      /\ o[1] = a[y] /\ o[2] = b[y] /\ o[3] = y.slug
  OBVIOUS
<1>2. Earlier(k, o) <=> \/ k[1] < o[1]
                        \/ k[2] < o[2] /\ k[1] = o[1]
                        \/ k[3] < o[3] /\ k[1] = o[1] /\ k[2] = o[2]
  <2>1. ASSUME NEW n \in 1 .. 3 PROVE n = 1 \/ n = 2 \/ n = 3
    OBVIOUS
  <2>2. 1 .. 1 - 1 = {} /\ 1 .. 2 - 1 = {1} /\ 1 .. 3 - 1 = {1, 2} /\ 1 .. 3 = {1, 2, 3}
    OBVIOUS
  <2> QED
    BY <1>1, <2>2 DEF Earlier
<1>3. k = o => a[x] = a[y] /\ b[x] = b[y] /\ x.slug = y.slug
  BY <1>1
<1> QED
  BY <1>1, <1>2, <1>3 DEF Lower

(* Least takes a row of least key.                                         *)
IsFirst(S, a, b, x) == x \in S /\ \A y \in S : y = x \/ Lower(a, b, x, y)

LEMMA LeastIsFirst ==
    ASSUME NEW rows, Legible(rows), NEW S \in SUBSET rows, S # {},
           NEW a \in [S -> Int], NEW b \in [S -> Int],
           NEW key, key = [row \in S |-> <<a[row], b[row]>>]
    PROVE  IsFirst(S, a, b, Least(key))
<1> DEFINE full == [row \in DOMAIN key |-> Append(key[row], row.slug)]
<1>1. DOMAIN key = S
  OBVIOUS
<1>2. \A x \in S : x.slug \in Int /\ a[x] \in Int /\ b[x] \in Int
  BY DEF Legible, Row
<1>3. \A x, y \in S : x.slug = y.slug => x = y
  BY DEF Legible
<1>4. ASSUME NEW x \in S, NEW y \in S
      PROVE  full[x] = full[y] \/ Earlier(full[x], full[y]) <=> y = x \/ Lower(a, b, x, y)
  <2>1. Keyed(a, b, x, full[x]) /\ Keyed(a, b, y, full[y])
    BY <1>1, <1>2 DEF Keyed
  <2> HIDE DEF full
  <2>2. /\ Earlier(full[x], full[y]) <=> Lower(a, b, x, y)
        /\ full[x] = full[y] => x.slug = y.slug
    BY <2>1, EarlierIsLower
  <2> QED
    BY <1>3, <2>2
<1>5. PICK x \in S : \A y \in S : y = x \/ Lower(a, b, x, y)
  BY FirstOfRows
<1>6. \A y \in S : full[x] = full[y] \/ Earlier(full[x], full[y])
  BY <1>4, <1>5
<1>7. Least(key) = CHOOSE r \in S : \A y \in S : full[r] = full[y] \/ Earlier(full[r], full[y])
  BY <1>1 DEF Least
<1> HIDE DEF full
<1>8. /\ Least(key) \in S
      /\ \A y \in S : full[Least(key)] = full[y] \/ Earlier(full[Least(key)], full[y])
  BY <1>6, <1>7
<1> QED
  BY <1>4, <1>8 DEF IsFirst

LEMMA RowTypes ==
    ASSUME NEW rows, Legible(rows), NEW x \in rows
    PROVE  /\ x \in Row /\ x.slug \in Int /\ x.index \in Int /\ x.price \in Int
           /\ x.price >= 0 /\ x.completion \in Int
BY DEF Legible, Row

(* Some row of the frontier is as intelligent as any row, and as cheap.    *)
LEMMA Covered ==
    ASSUME NEW rows, Legible(rows), NEW row \in rows
    PROVE  \E p \in Undominated(rows) : p.index >= row.index /\ p.price <= row.price
<1> DEFINE C == {p \in rows : p.index >= row.index /\ p.price <= row.price}
           a == [p \in C |-> -p.index]
           b == [p \in C |-> p.price]
<1>1. \A p \in rows : p.slug \in Int /\ p.index \in Int /\ p.price \in Int
  BY RowTypes
<1>2. row \in C /\ C \in SUBSET rows /\ C # {}
  BY <1>1
<1>3. a \in [C -> Int] /\ b \in [C -> Int]
  BY <1>1
<1>4. PICK x \in C : \A y \in C : y = x \/ Lower(a, b, x, y)
  <2> HIDE DEF C, a, b
  <2> QED
    BY <1>2, <1>3, FirstOfRows
<1>5. ASSUME NEW y \in C, y # x
      PROVE  \/ y.index < x.index
             \/ y.index = x.index /\ x.price < y.price
             \/ y.index = x.index /\ x.price = y.price /\ x.slug < y.slug
  <2>1. Lower(a, b, x, y)
    BY <1>4, <1>5
  <2>2. a[x] = -x.index /\ a[y] = -y.index /\ b[x] = x.price /\ b[y] = y.price
    OBVIOUS
  <2>3. x.index \in Int /\ y.index \in Int
    BY <1>1
  <2> HIDE DEF a, b, C
  <2> QED
    BY <2>1, <2>2, <2>3 DEF Lower
<1>6. x \in Unique(rows)
  <2> SUFFICES ASSUME NEW other \in rows, other.index = x.index, other.price = x.price
               PROVE  x.slug <= other.slug
    BY DEF Unique
  <2>1. other \in C
    OBVIOUS
  <2> QED
    BY <1>1, <1>5, <2>1
<1>7. ASSUME NEW other \in Unique(rows), Dominates(other, x) PROVE FALSE
  <2>1. other \in rows
    BY DEF Unique
  <2>2. /\ other.index >= x.index /\ other.price <= x.price
        /\ other.index > x.index \/ other.price < x.price
    BY <1>7 DEF Dominates
  <2>3. other \in C
    BY <1>1, <2>1, <2>2
  <2> QED
    BY <1>1, <1>5, <2>1, <2>2, <2>3
<1> QED
  BY <1>6, <1>7 DEF Undominated

(* The frontier: every row that no other dominates, once each, dearer and  *)
(* more intelligent from one to the next.                                  *)
FrontierOK(rows, n, f) ==
    /\ n \in Nat \ {0} /\ f \in [1 .. n -> Undominated(rows)] /\ f \in Seq(Row) /\ Len(f) = n
    /\ \A row \in Undominated(rows) : \E k \in 1 .. n : f[k] = row
    /\ \A k, l \in 1 .. n : k < l => f[k].index < f[l].index /\ f[k].price < f[l].price

LEMMA FrontierIsOK ==
    ASSUME NEW rows, Legible(rows)
    PROVE  \E n : FrontierOK(rows, n, ParetoFrontier(rows))
<1>1. PICK S, f, n : S = Undominated(rows) /\ f = ParetoFrontier(rows) /\ n = Cardinality(S)
  OBVIOUS
<1> DEFINE below == [x \in S |-> Below(S, x)]
<1>2. S \in SUBSET rows /\ S \in SUBSET Unique(rows)
  BY <1>1 DEF Undominated, Unique
<1>3. IsFiniteSet(S) /\ n \in Nat
  BY <1>1, <1>2, FS_Subset, FS_CardinalityType DEF Legible
<1>4. \A x \in S : x \in Row /\ x.slug \in Int /\ x.index \in Int /\ x.price \in Int
  BY <1>2, RowTypes
<1>5. ASSUME NEW x \in S, NEW y \in S, x.index <= y.index, x # y
      PROVE  x.index < y.index /\ x.price < y.price
  <2>1. ~Dominates(y, x) /\ ~Dominates(x, y)
    BY <1>1, <1>2 DEF Undominated
  <2>2. ~(x.index = y.index /\ x.price = y.price)
    <3>1. SUFFICES ASSUME x.index = y.index /\ x.price = y.price PROVE FALSE
      OBVIOUS
    <3>2. x.slug <= y.slug /\ y.slug <= x.slug
      BY <1>2, <3>1 DEF Unique
    <3>3. x.slug = y.slug
      BY <1>4, <3>2
    <3> QED
      BY <1>2, <1>5, <3>3 DEF Legible
  <2> QED
    BY <1>4, <1>5, <2>1, <2>2 DEF Dominates
<1>6. Ordered(S, below)
  BY <1>4, <1>5 DEF Ordered, Below
<1>7. f = [k \in 1 .. Cardinality(S) |-> CHOOSE x \in S : Cardinality(below[x]) = k - 1]
  BY <1>1 DEF ParetoFrontier
<1>8. \A x, y \in S : x \in below[y] => x.index < y.index
  BY DEF Below
<1> HIDE DEF below
<1>9. Lists(S, below, f)
  BY <1>3, <1>6, <1>7, RankLists
<1>10. /\ f \in [1 .. n -> S]
       /\ \A x \in S : \E k \in 1 .. n : f[k] = x
       /\ \A k, l \in 1 .. n : k < l => f[k] \in below[f[l]]
  BY <1>1, <1>9 DEF Lists
<1>11. ASSUME NEW k \in 1 .. n, NEW l \in 1 .. n, k < l
       PROVE  f[k].index < f[l].index /\ f[k].price < f[l].price
  <2>1. PICK x \in S, y \in S : x = f[k] /\ y = f[l]
    BY <1>10
  <2>2. x.index < y.index
    BY <1>8, <1>10, <1>11, <2>1
  <2>3. x # y /\ x.index <= y.index
    BY <1>4, <2>2
  <2> QED
    BY <1>5, <2>1, <2>3
<1>12. f \in Seq(Row) /\ Len(f) = n
  <2>1. f \in [1 .. n -> Row]
    BY <1>4, <1>10
  <2> QED
    BY <1>3, <2>1
<1>13. n # 0
  <2>1. PICK row : row \in rows
    BY DEF Legible
  <2>2. S # {}
    BY <1>1, <2>1, Covered
  <2> QED
    BY <1>3, <1>10, <2>2
<1> QED
  BY <1>1, <1>3, <1>10, <1>11, <1>12, <1>13 DEF FrontierOK

-----------------------------------------------------------------------------
(* Arithmetic of the string.                                               *)

LEMMA Scaled ==
    ASSUME NEW x \in Int, NEW y \in Int, NEW z \in Int, z >= 0, x <= y
    PROVE  x * z <= y * z
OBVIOUS

LEMMA ScaledStrictly ==
    ASSUME NEW x \in Int, NEW y \in Int, NEW z \in Int, z > 0, x < y
    PROVE  x * z < y * z
OBVIOUS

LEMMA Exchange ==
    ASSUME NEW l \in Int, NEW u \in Int, NEW v \in Int
    PROVE  (l * u) * v = (l * v) * u
OBVIOUS

(* A chord and the slopes on both sides of a point of it.                  *)
LEMMA CrossTyped ==
    ASSUME NEW a \in Row, NEW m \in Row, NEW r \in Row
    PROVE  Cross(a, m, r) \in Int
<1>1. PICK i, j, k, p, q, u \in Int : /\ i = a.index /\ j = m.index /\ k = r.index
                                      /\ p = a.price /\ q = m.price /\ u = r.price
  BY DEF Row
<1>2. (j - i) * (u - p) - (q - p) * (k - i) \in Int
  OBVIOUS
<1> QED
  BY <1>1, <1>2 DEF Cross

LEMMA CrossOfSteps ==
    ASSUME NEW a \in Row, NEW m \in Row, NEW r \in Row
    PROVE  Cross(a, m, r) = (m.index - a.index) * (r.price - m.price)
                            - (m.price - a.price) * (r.index - m.index)
<1>1. PICK ai, ap, mi, mp, ri, rp \in Int :
              /\ ai = a.index /\ ap = a.price /\ mi = m.index /\ mp = m.price
              /\ ri = r.index /\ rp = r.price
  BY DEF Row
<1>2. (mi - ai) * (rp - ap) - (mp - ap) * (ri - ai)
      = (mi - ai) * (rp - mp) - (mp - ap) * (ri - mi)
  OBVIOUS
<1> QED
  BY <1>1, <1>2 DEF Cross

(* A point above the chord is worth less than one of its ends.             *)
LEMMA AboveIsBeaten ==
    ASSUME NEW l \in Nat \ {0}, NEW a \in Row, NEW m \in Row, NEW r \in Row,
           a.index < m.index, m.index < r.index, Cross(a, m, r) < 0
    PROVE  Surplus(l, m) < Surplus(l, a) \/ Surplus(l, m) < Surplus(l, r)
<1>1. PICK u, v, p, q \in Int : /\ u = m.index - a.index /\ v = r.index - m.index
                                /\ p = m.price - a.price /\ q = r.price - m.price
  BY DEF Row
<1>2. u > 0 /\ v > 0 /\ l \in Int
  BY <1>1 DEF Row
<1>3. u * q - p * v < 0
  BY <1>1, CrossOfSteps
<1>4. SUFFICES ASSUME p <= l * u, l * v <= q PROVE FALSE
  <2>1. /\ l * m.index - l * a.index = l * u /\ l * r.index - l * m.index = l * v
        /\ l * m.index \in Int /\ l * a.index \in Int /\ l * r.index \in Int
        /\ m.price \in Int /\ a.price \in Int /\ r.price \in Int
    BY <1>1, <1>2 DEF Row
  <2> QED
    BY <1>1, <2>1 DEF Surplus
<1>5. p * v <= (l * u) * v
  BY <1>2, <1>4, Scaled
<1>6. (l * v) * u <= q * u
  BY <1>2, <1>4, Scaled
<1>7. (l * u) * v = (l * v) * u
  BY <1>2, Exchange
<1>8. q * u = u * q
  OBVIOUS
<1> QED
  BY <1>3, <1>5, <1>6, <1>7, <1>8

(* Once a segment is not worth its price, the next is not.                 *)
LEMMA NextIsNotWorthIt ==
    ASSUME NEW l \in Nat \ {0}, NEW a \in Row, NEW m \in Row, NEW r \in Row,
           a.index < m.index, m.index < r.index, Cross(a, m, r) >= 0,
           Surplus(l, m) < Surplus(l, a)
    PROVE  Surplus(l, r) < Surplus(l, m)
<1>1. PICK u, v, p, q \in Int : /\ u = m.index - a.index /\ v = r.index - m.index
                                /\ p = m.price - a.price /\ q = r.price - m.price
  BY DEF Row
<1>2. u > 0 /\ v > 0 /\ l \in Int
  BY <1>1 DEF Row
<1>3. u * q - p * v >= 0
  BY <1>1, CrossOfSteps
<1>4. /\ l * m.index - l * a.index = l * u /\ l * r.index - l * m.index = l * v
      /\ l * m.index \in Int /\ l * a.index \in Int /\ l * r.index \in Int
      /\ m.price \in Int /\ a.price \in Int /\ r.price \in Int
  BY <1>1, <1>2 DEF Row
<1>5. l * u < p
  BY <1>1, <1>2, <1>4 DEF Surplus
<1>6. SUFFICES ASSUME q <= l * v PROVE FALSE
  BY <1>1, <1>2, <1>4 DEF Surplus
<1>7. (l * u) * v < p * v
  BY <1>2, <1>5, ScaledStrictly
<1>8. q * u <= (l * v) * u
  BY <1>2, <1>6, Scaled
<1>9. (l * u) * v = (l * v) * u
  BY <1>2, Exchange
<1>10. q * u = u * q
  OBVIOUS
<1> QED
  BY <1>3, <1>7, <1>8, <1>9, <1>10

(* Beats is a total preorder on rows.                                      *)
LEMMA BeatsFacts ==
    ASSUME NEW l \in Nat \ {0}, NEW a \in Row, NEW b \in Row, NEW c \in Row
    PROVE  /\ Surplus(l, a) \in Int /\ a.index \in Int
           /\ Beats(l, a, a)
           /\ Beats(l, a, b) /\ Beats(l, b, c) => Beats(l, a, c)
<1>1. Surplus(l, a) \in Int /\ Surplus(l, b) \in Int /\ Surplus(l, c) \in Int
  BY DEF Surplus, Row
<1>2. a.index \in Int /\ b.index \in Int /\ c.index \in Int
  BY DEF Row
<1> QED
  BY <1>1, <1>2 DEF Beats

-----------------------------------------------------------------------------
LEMMA MaxIsLargest ==
    ASSUME NEW n \in Nat, NEW s \in SUBSET (1 .. n), s # {}
    PROVE  Max(s) \in s /\ \A y \in s : y <= Max(s)
<1>1. \E x \in s : \A y \in s : x >= y
  BY LargestExists
<1> QED
  BY <1>1 DEF Max

LEMMA MaxChooses ==
    ASSUME NEW n \in Nat, NEW ch, ch = [s \in (SUBSET (1 .. n)) \ {{}} |-> Max(s)]
    PROVE  LastFirst(n, ch)
<1>1. Chooses(1 .. n, ch)
  BY MaxIsLargest DEF Chooses
<1>2. ASSUME NEW k \in 1 .. n PROVE ch[1 .. k] = k
  <2>0. k \in Nat /\ 1 \in 1 .. k /\ 1 .. k \subseteq 1 .. n
    OBVIOUS
  <2>1. 1 .. k \in (SUBSET (1 .. n)) \ {{}} /\ 1 .. k \in SUBSET (1 .. k) /\ 1 .. k # {}
    BY <2>0
  <2>2. Max(1 .. k) \in 1 .. k /\ \A y \in 1 .. k : y <= Max(1 .. k)
    BY <2>0, <2>1, MaxIsLargest
  <2>3. Max(1 .. k) = k
    BY <2>2
  <2> QED
    BY <2>1, <2>3
<1> QED
  BY <1>1, <1>2 DEF LastFirst

(* The string after one more row, as FoldLeft unfolds.                     *)
Strung(h, row) == Append(SubSeq(h, 1, Kept(h, row)), row)
Winds(f, g) ==
    g = [s \in SUBSET DOMAIN f |-> IF s = {} THEN <<>> ELSE Strung(g[s \ {Max(s)}], f[Max(s)])]
WoundOf(f) == CHOOSE g : Winds(f, g)

LEMMA HullIsWound == ASSUME NEW f PROVE LowerConvexHull(f) = WoundOf(f)[DOMAIN f]
BY DEF LowerConvexHull, FoldLeft, MapThenFoldSet, WoundOf, Winds, Strung

(* What stays bends towards the row, what goes bends away from it.         *)
Cut(h, row, k) ==
    /\ k \in 0 .. Len(h)
    /\ h # <<>> => k >= 1
    /\ k >= 2 => Cross(h[k - 1], h[k], row) >= 0
    /\ \A n \in 2 .. Len(h) : n > k => ~(Cross(h[n - 1], h[n], row) >= 0)

LEMMA KeptFacts ==
    ASSUME NEW h \in Seq(Row), NEW row \in Row
    PROVE  Cut(h, row, Kept(h, row))
<1>1. CASE h = <<>>
  BY <1>1 DEF Kept, Cut
<1>2. CASE h # <<>>
  <2> DEFINE T == {n \in DOMAIN h : n >= 2 => Cross(h[n - 1], h[n], row) >= 0}
  <2>1. PICK len \in Nat : len = Len(h) /\ DOMAIN h = 1 .. len /\ len >= 1
    BY <1>2
  <2>2. T \in SUBSET (1 .. len) /\ 1 \in T
    BY <2>1
  <2>3. Kept(h, row) = Max(T)
    BY <1>2 DEF Kept
  <2>4. \A n \in DOMAIN h : n \in T <=> (n >= 2 => Cross(h[n - 1], h[n], row) >= 0)
    OBVIOUS
  <2> HIDE DEF T
  <2>5. Max(T) \in T /\ \A y \in T : y <= Max(T)
    <3>1. T # {}
      BY <2>2
    <3> QED
      BY <2>2, <3>1, MaxIsLargest
  <2>6. PICK k : k = Max(T)
    OBVIOUS
  <2>7. k \in 1 .. len /\ k \in T /\ \A y \in T : y <= k
    BY <2>2, <2>5, <2>6
  <2>8. k >= 2 => Cross(h[k - 1], h[k], row) >= 0
    BY <2>1, <2>4, <2>7
  <2>9. ASSUME NEW n \in 2 .. len, n > k PROVE ~(Cross(h[n - 1], h[n], row) >= 0)
    <3>1. n \notin T /\ n \in DOMAIN h
      BY <2>1, <2>7, <2>9
    <3> QED
      BY <2>4, <3>1
  <2> QED
    BY <2>1, <2>3, <2>6, <2>7, <2>8, <2>9 DEF Cut
<1> QED
  BY <1>1, <1>2

LEMMA StrungTyped ==
    ASSUME NEW h \in Seq(Row), NEW row \in Row
    PROVE  /\ Strung(h, row) \in Seq(Row) /\ Len(Strung(h, row)) = Kept(h, row) + 1
           /\ Strung(h, row)[Kept(h, row) + 1] = row
           /\ \A j \in 1 .. Kept(h, row) : Strung(h, row)[j] = h[j]
<1>1. PICK k : k = Kept(h, row) /\ k \in 0 .. Len(h)
  BY KeptFacts DEF Cut
<1>2. PICK q : q = SubSeq(h, 1, k)
  OBVIOUS
<1>3. q \in Seq(Row) /\ Len(q) = k /\ \A j \in 1 .. k : q[j] = h[j]
  BY <1>1, <1>2
<1>4. /\ Append(q, row) \in Seq(Row) /\ Len(Append(q, row)) = k + 1 /\ Append(q, row)[k + 1] = row
      /\ \A j \in 1 .. k : Append(q, row)[j] = q[j]
  BY <1>1, <1>3
<1> QED
  BY <1>1, <1>2, <1>3, <1>4 DEF Strung

Strings(f, h) ==
    /\ h \in [0 .. Len(f) -> Seq(Row)] /\ h[0] = <<>>
    /\ \A k \in 1 .. Len(f) : h[k] = Strung(h[k - 1], f[k])

LEMMA HullHasTrace ==
    ASSUME NEW f \in Seq(Row)
    PROVE  \E h : Strings(f, h) /\ LowerConvexHull(f) = h[Len(f)]
<1>1. PICK n \in Nat : n = Len(f) /\ DOMAIN f = 1 .. n
  OBVIOUS
<1> DEFINE V == Seq(Row)
           ch == [s \in (SUBSET (1 .. n)) \ {{}} |-> Max(s)]
           turn == [k \in 1 .. n |-> [v \in V |-> Strung(v, f[k])]]
           start == <<>>
<1>2. \A k \in 1 .. n : f[k] \in Row
  BY <1>1
<1>3. turn \in [1 .. n -> [V -> V]]
  <2> HIDE DEF V
  <2>1. \A k \in 1 .. n : \A v \in V : Strung(v, f[k]) \in V
    BY <1>2, StrungTyped DEF V
  <2> QED
    BY <2>1
<1>4. \A s \in (SUBSET (1 .. n)) \ {{}} : ch[s] = Max(s) /\ Max(s) \in s
  BY MaxIsLargest
<1>5. \A k \in 1 .. n : \A v \in V : turn[k][v] = Strung(v, f[k])
  OBVIOUS
<1>6. ch = [s \in (SUBSET (1 .. n)) \ {{}} |-> Max(s)] /\ start \in V
  OBVIOUS
<1> HIDE DEF V, ch, turn, start
<1>7. LastFirst(n, ch) /\ Chooses(1 .. n, ch) /\ IsFiniteSet(1 .. n)
  <2>1. LastFirst(n, ch)
    BY <1>6, MaxChooses
  <2>2. IsFiniteSet(1 .. n)
    BY <1>1, FS_Interval
  <2>3. Chooses(1 .. n, ch)
    BY <2>1 DEF LastFirst
  <2> QED
    BY <2>1, <2>2, <2>3
<1>8. PICK g \in [SUBSET (1 .. n) -> V], h \in [0 .. n -> V] :
              Folds(1 .. n, ch, start, turn, g) /\ Goes(n, start, turn, h) /\ h[n] = g[1 .. n]
  <2>1. Traced(n, V, start, turn, ch)
    BY <1>3, <1>6, <1>7, FoldTrace
  <2> QED
    BY <2>1 DEF Traced
<1>9. /\ g[{}] = start
      /\ \A s \in (SUBSET (1 .. n)) \ {{}} : g[s] = Strung(g[s \ {Max(s)}], f[Max(s)])
  <2>1. ASSUME NEW s \in (SUBSET (1 .. n)) \ {{}}
        PROVE  g[s] = Strung(g[s \ {Max(s)}], f[Max(s)])
    <3>1. g[s] = turn[Max(s)][g[s \ {Max(s)}]]
      BY <1>4, <1>8 DEF Folds
    <3>2. Max(s) \in 1 .. n /\ s \ {Max(s)} \in SUBSET (1 .. n)
      BY <1>4
    <3>3. g[s \ {Max(s)}] \in V
      BY <1>8, <3>2
    <3> QED
      BY <1>5, <3>1, <3>2, <3>3
  <2> QED
    BY <1>8, <2>1 DEF Folds
<1>10. Winds(f, g)
  <2>1. \A s \in SUBSET (1 .. n) :
           g[s] = IF s = {} THEN <<>> ELSE Strung(g[s \ {Max(s)}], f[Max(s)])
    BY <1>9 DEF start
  <2> QED
    BY <1>1, <1>8, <2>1 DEF Winds
<1>11. PICK w : w = WoundOf(f)
  OBVIOUS
<1>12. Winds(f, w)
  BY <1>10, <1>11 DEF WoundOf
<1>13. Alike(1 .. n, ch, g, w)
  <2>1. /\ w[{}] = start
        /\ \A s \in (SUBSET (1 .. n)) \ {{}} : w[s] = Strung(w[s \ {Max(s)}], f[Max(s)])
    BY <1>1, <1>12 DEF Winds, start
  <2>2. \A s \in (SUBSET (1 .. n)) \ {{}} : g[s \ {ch[s]}] = w[s \ {ch[s]}] => g[s] = w[s]
    BY <1>4, <1>9, <2>1
  <2> QED
    BY <1>9, <2>1, <2>2 DEF Alike
<1>14. \A s \in SUBSET (1 .. n) : g[s] = w[s]
  <2>1. PICK D : D = 1 .. n
    OBVIOUS
  <2>2. IsFiniteSet(D) /\ Chooses(D, ch) /\ Alike(D, ch, g, w)
    BY <1>7, <1>13, <2>1
  <2>3. \A s \in SUBSET D : g[s] = w[s]
    BY <2>2, FoldUnique
  <2> QED
    BY <2>1, <2>3
<1>15. \A k \in 1 .. n : h[k] = Strung(h[k - 1], f[k])
  <2> SUFFICES ASSUME NEW k \in 1 .. n PROVE h[k] = Strung(h[k - 1], f[k])
    OBVIOUS
  <2>1. h[k] = turn[k][h[k - 1]] /\ k - 1 \in 0 .. n
    BY <1>8 DEF Goes
  <2> QED
    BY <1>5, <1>8, <2>1
<1>16. Strings(f, h)
  BY <1>1, <1>8, <1>15 DEF Strings, V, Goes, start
<1> QED
  BY <1>1, <1>8, <1>11, <1>14, <1>16, HullIsWound

(* What holds of the string after k rows of the frontier: it ends at the   *)
(* last of them, climbs, does not bend down, and whatever intelligence is  *)
(* worth, one of its rows is as good as any of the k.                      *)
Climbs(h) == \A i, j \in 1 .. Len(h) : i < j => h[i].index < h[j].index
Taut(h) == \A j \in 2 .. Len(h) - 1 : Cross(h[j - 1], h[j], h[j + 1]) >= 0
Matches(l, h, row) == \E j \in 1 .. Len(h) : Beats(l, h[j], row)
HullOK(f, k, h) ==
    /\ h \in Seq(Row) /\ Climbs(h) /\ Taut(h)
    /\ k = 0 => h = <<>>
    /\ k > 0 => Len(h) >= 1 /\ h[Len(h)] = f[k]
    /\ \A l \in Nat \ {0} : \A i \in 1 .. k : Matches(l, h, f[i])

(* What is popped is matched by what stays or by the new row.              *)
LEMMA PoppedIsMatched ==
    ASSUME NEW l \in Nat \ {0}, NEW h \in Seq(Row), Climbs(h), NEW row \in Row,
           \A j \in 1 .. Len(h) : h[j].index < row.index,
           NEW n \in 1 .. Len(h)
    PROVE  Matches(l, Strung(h, row), h[n])
<1>1. PICK len, s, k : /\ len = Len(h) /\ s = Strung(h, row) /\ k = Kept(h, row)
  OBVIOUS
<1>2. /\ len \in Nat /\ k \in 1 .. len
      /\ \A m \in 2 .. len : m > k => ~(Cross(h[m - 1], h[m], row) >= 0)
  <2>1. Cut(h, row, k) /\ h # <<>> /\ len \in Nat
    BY <1>1, KeptFacts
  <2> QED
    BY <1>1, <2>1 DEF Cut
<1>3. /\ s \in Seq(Row) /\ Len(s) = k + 1 /\ s[k + 1] = row
      /\ \A j \in 1 .. k : s[j] = h[j]
  BY <1>1, StrungTyped
<1>4. \A j \in 1 .. len : h[j] \in Row
  BY <1>1
<1> DEFINE T == {m \in 1 .. len : ~Matches(l, s, h[m])}
<1>5. SUFFICES ASSUME T # {} PROVE FALSE
  BY <1>1
<1>6. T \in SUBSET Nat
  BY <1>2
<1>7. PICK m \in T : \A e \in T : m <= e
  BY <1>5, <1>6, SmallestExists
<1>8. m \in 1 .. len /\ ~Matches(l, s, h[m])
  OBVIOUS
<1>9. ASSUME NEW e \in 1 .. len, e < m PROVE Matches(l, s, h[e])
  BY <1>7, <1>9
<1> HIDE DEF T
<1>10. \A j \in 1 .. k + 1 : ~Beats(l, s[j], h[m])
  BY <1>3, <1>8 DEF Matches
<1>11. m > k
  <2>1. SUFFICES ASSUME m <= k PROVE FALSE
    BY <1>2, <1>8
  <2>2. s[m] = h[m] /\ m \in 1 .. k + 1 /\ Beats(l, h[m], h[m])
    BY <1>2, <1>3, <1>4, <1>8, <2>1, BeatsFacts
  <2> QED
    BY <1>10, <2>2
<1>12. PICK a, b \in Row : a = h[m - 1] /\ b = h[m] /\ m \in 2 .. len /\ m - 1 \in 1 .. len
  BY <1>2, <1>4, <1>8, <1>11
<1>13. a.index < b.index /\ b.index < row.index /\ Cross(a, b, row) < 0
  <2>1. Cross(a, b, row) \in Int
    BY CrossTyped, Zenon
  <2>2. ~(Cross(a, b, row) >= 0)
    BY <1>2, <1>11, <1>12
  <2>3. a.index < b.index
    BY <1>1, <1>2, <1>12 DEF Climbs
  <2> QED
    BY <1>1, <1>12, <2>1, <2>2, <2>3
<1>14. Surplus(l, b) < Surplus(l, a) \/ Surplus(l, b) < Surplus(l, row)
  BY <1>13, AboveIsBeaten
<1>15. CASE Surplus(l, b) < Surplus(l, row)
  <2>1. Beats(l, s[k + 1], h[m]) /\ k + 1 \in 1 .. k + 1
    BY <1>2, <1>3, <1>12, <1>15 DEF Beats
  <2> QED
    BY <1>10, <2>1
<1>16. CASE Surplus(l, b) < Surplus(l, a)
  <2>1. Beats(l, a, b)
    BY <1>16 DEF Beats
  <2>2. PICK j \in 1 .. k + 1 : Beats(l, s[j], a)
    <3>1. Matches(l, s, h[m - 1])
      BY <1>2, <1>8, <1>9, <1>12
    <3> QED
      BY <1>3, <1>12, <3>1 DEF Matches
  <2>3. s[j] \in Row
    BY <1>2, <1>3
  <2>4. Beats(l, s[j], b)
    BY <2>1, <2>2, <2>3, BeatsFacts
  <2> QED
    BY <1>10, <1>12, <2>4
<1> QED
  BY <1>14, <1>15, <1>16

LEMMA BeatsItself == ASSUME NEW l \in Nat \ {0}, NEW a \in Row PROVE Beats(l, a, a)
BY BeatsFacts

LEMMA RowInts ==
    ASSUME NEW a \in Row
    PROVE  a.index \in Int /\ \A l \in Nat \ {0} : Surplus(l, a) \in Int
BY DEF Row, Surplus

LEMMA HullStep ==
    ASSUME NEW f \in Seq(Row), NEW k \in 1 .. Len(f), NEW h, HullOK(f, k - 1, h),
           \A i, j \in 1 .. Len(f) : i < j => f[i].index < f[j].index
    PROVE  HullOK(f, k, Strung(h, f[k]))
<1>0. PICK row \in Row : row = f[k]
  OBVIOUS
<1>1. PICK s, c, len : row = f[k] /\ s = Strung(h, row) /\ c = Kept(h, row) /\ len = Len(h)
  BY <1>0
<1>2. /\ h \in Seq(Row) /\ Climbs(h) /\ Taut(h) /\ len \in Nat
      /\ k - 1 = 0 => h = <<>>
      /\ k - 1 > 0 => len >= 1 /\ h[len] = f[k - 1]
      /\ \A l \in Nat \ {0} : \A i \in 1 .. k - 1 : Matches(l, h, f[i])
  BY <1>1 DEF HullOK
<1>3. Cut(h, row, c)
  BY <1>1, <1>2, KeptFacts
<1>4. /\ c \in 0 .. len
      /\ c >= 2 => Cross(h[c - 1], h[c], row) >= 0
  BY <1>1, <1>3 DEF Cut
<1>5. /\ s \in Seq(Row) /\ Len(s) = c + 1 /\ s[c + 1] = row
      /\ \A j \in 1 .. c : s[j] = h[j]
  BY <1>1, <1>2, StrungTyped
<1>6. \A j \in 1 .. len : h[j] \in Row /\ h[j].index \in Int
  <2>1. \A j \in 1 .. len : h[j] \in Row
    BY <1>1, <1>2
  <2> QED
    BY <2>1, RowInts
<1>7. ASSUME NEW j \in 1 .. len PROVE h[j].index < row.index
  <2>1. k - 1 > 0 /\ h[len] = f[k - 1]
    BY <1>1, <1>2
  <2>2. h[len].index < row.index /\ row.index \in Int /\ len \in 1 .. len
    <3>1. k - 1 \in 1 .. Len(f) /\ k - 1 < k
      BY <2>1
    <3>2. f[k - 1].index < f[k].index
      BY <3>1
    <3> QED
      BY <1>1, <1>2, <2>1, <3>2, RowInts
  <2>3. j = len \/ h[j].index < h[len].index
    BY <1>1, <1>2, <2>2 DEF Climbs
  <2> QED
    BY <1>6, <2>2, <2>3
<1>8. Climbs(s)
  <2> SUFFICES ASSUME NEW i \in 1 .. c + 1, NEW j \in 1 .. c + 1, i < j
               PROVE  s[i].index < s[j].index
    BY <1>5 DEF Climbs
  <2>1. i \in 1 .. c /\ i \in 1 .. len /\ s[i] = h[i]
    BY <1>2, <1>4, <1>5
  <2>2. CASE j = c + 1
    BY <1>5, <1>7, <2>1, <2>2
  <2>3. CASE j \in 1 .. c
    <3>1. j \in 1 .. len /\ s[j] = h[j]
      BY <1>2, <1>4, <1>5, <2>3
    <3> QED
      BY <1>1, <1>2, <2>1, <3>1 DEF Climbs
  <2> QED
    BY <1>4, <2>2, <2>3
<1>9. Taut(s)
  <2> SUFFICES ASSUME NEW j \in 2 .. c PROVE Cross(s[j - 1], s[j], s[j + 1]) >= 0
    BY <1>4, <1>5 DEF Taut
  <2>1. j - 1 \in 1 .. c /\ j \in 1 .. c /\ s[j - 1] = h[j - 1] /\ s[j] = h[j]
    BY <1>4, <1>5
  <2>2. CASE j = c
    BY <1>4, <1>5, <2>1, <2>2
  <2>3. CASE j < c
    <3>1. j + 1 \in 1 .. c /\ s[j + 1] = h[j + 1] /\ j \in 2 .. len - 1
      BY <1>2, <1>4, <1>5, <2>3
    <3>2. Cross(h[j - 1], h[j], h[j + 1]) >= 0
      BY <1>1, <1>2, <3>1 DEF Taut
    <3> QED
      BY <2>1, <3>1, <3>2
  <2> QED
    BY <1>4, <2>2, <2>3
<1>10. ASSUME NEW l \in Nat \ {0}, NEW i \in 1 .. k PROVE Matches(l, s, f[i])
  <2>1. CASE i = k
    <3>1. c + 1 \in 1 .. Len(s) /\ Beats(l, s[c + 1], f[i])
      BY <1>1, <1>4, <1>5, <2>1, BeatsItself
    <3> QED
      BY <3>1 DEF Matches
  <2>2. CASE i \in 1 .. k - 1
    <3>1. PICK n \in 1 .. len : Beats(l, h[n], f[i])
      BY <1>1, <1>2, <2>2 DEF Matches
    <3>2. Matches(l, s, h[n])
      BY <1>1, <1>2, <1>7, PoppedIsMatched
    <3>3. PICK j \in 1 .. Len(s) : Beats(l, s[j], h[n])
      BY <3>2 DEF Matches
    <3>4. PICK x, y, z \in Row : x = s[j] /\ y = h[n] /\ z = f[i]
      BY <1>5, <1>6
    <3>5. Beats(l, x, z)
      BY <3>1, <3>3, <3>4, BeatsFacts
    <3> QED
      BY <3>4, <3>5 DEF Matches
  <2> QED
    BY <2>1, <2>2
<1>11. ~(k = 0) /\ Len(s) >= 1 /\ s[Len(s)] = f[k]
  BY <1>1, <1>4, <1>5
<1> QED
  BY <1>1, <1>5, <1>8, <1>9, <1>10, <1>11 DEF HullOK

LEMMA HullIsOK ==
    ASSUME NEW f \in Seq(Row), \A i, j \in 1 .. Len(f) : i < j => f[i].index < f[j].index
    PROVE  HullOK(f, Len(f), LowerConvexHull(f))
<1>1. PICK h : Strings(f, h) /\ LowerConvexHull(f) = h[Len(f)]
  BY HullHasTrace
<1>2. PICK n \in Nat : n = Len(f)
  OBVIOUS
<1> DEFINE T == {k \in 0 .. n : ~HullOK(f, k, h[k])}
<1>3. HullOK(f, 0, h[0])
  <2>1. h[0] = <<>> /\ <<>> \in Seq(Row) /\ Len(<<>>) = 0
    BY <1>1 DEF Strings
  <2> QED
    BY <2>1 DEF HullOK, Climbs, Taut, Matches
<1>4. SUFFICES ASSUME T # {} PROVE FALSE
  BY <1>1, <1>2
<1>5. PICK k \in T : \A e \in T : k <= e
  <2>1. T \in SUBSET Nat
    OBVIOUS
  <2> QED
    BY <1>4, <2>1, SmallestExists
<1>6. k \in 1 .. n
  BY <1>3, <1>5
<1>7. k - 1 \notin T /\ k - 1 \in 0 .. n
  BY <1>5, <1>6
<1>8. HullOK(f, k - 1, h[k - 1]) /\ ~HullOK(f, k, h[k])
  BY <1>7
<1>9. h[k] = Strung(h[k - 1], f[k])
  BY <1>1, <1>2, <1>6 DEF Strings
<1>10. HullOK(f, k, Strung(h[k - 1], f[k]))
  BY <1>2, <1>6, <1>8, HullStep
<1> QED
  BY <1>8, <1>9, <1>10

(* The row where the climb stops is as good as any of the string.          *)
Worth(l, h, k) == h[k + 1].price - h[k].price <= l * (h[k + 1].index - h[k].index)

LEMMA WorthIsSurplus ==
    ASSUME NEW l \in Nat \ {0}, NEW a \in Row, NEW b \in Row
    PROVE  /\ b.price - a.price <= l * (b.index - a.index) <=> Surplus(l, a) <= Surplus(l, b)
           /\ Surplus(l, a) \in Int /\ Surplus(l, b) \in Int
<1>1. PICK x, y, p, q \in Int : x = a.index /\ y = b.index /\ p = a.price /\ q = b.price
  BY DEF Row
<1>2. l * (y - x) = l * y - l * x /\ l * y \in Int /\ l * x \in Int
  OBVIOUS
<1> QED
  BY <1>1, <1>2 DEF Surplus

LEMMA StopIsBest ==
    ASSUME NEW l \in Nat \ {0}, NEW h \in Seq(Row), Climbs(h), Taut(h), NEW n \in 1 .. Len(h),
           \A k \in 1 .. n - 1 : Worth(l, h, k), n < Len(h) => ~Worth(l, h, n),
           NEW j \in 1 .. Len(h)
    PROVE  Beats(l, h[n], h[j])
<1>1. PICK len \in Nat : len = Len(h)
  OBVIOUS
<1>2. \A k \in 1 .. len : h[k] \in Row /\ h[k].index \in Int /\ Surplus(l, h[k]) \in Int
  <2>1. \A k \in 1 .. len : h[k] \in Row
    BY <1>1
  <2> QED
    BY <2>1, RowInts
<1>3. \A k \in 1 .. len - 1 : /\ k \in 1 .. len /\ k + 1 \in 1 .. len
                              /\ Worth(l, h, k) <=> Surplus(l, h[k]) <= Surplus(l, h[k + 1])
                              /\ h[k].index < h[k + 1].index
  <2> SUFFICES ASSUME NEW k \in 1 .. len - 1
               PROVE  /\ k \in 1 .. len /\ k + 1 \in 1 .. len
                      /\ Worth(l, h, k) <=> Surplus(l, h[k]) <= Surplus(l, h[k + 1])
                      /\ h[k].index < h[k + 1].index
    OBVIOUS
  <2>1. k \in 1 .. len /\ k + 1 \in 1 .. len /\ k < k + 1
    OBVIOUS
  <2>2. h[k] \in Row /\ h[k + 1] \in Row
    BY <1>2, <2>1
  <2>3. Worth(l, h, k) <=> Surplus(l, h[k]) <= Surplus(l, h[k + 1])
    BY <2>2, WorthIsSurplus DEF Worth
  <2>4. h[k].index < h[k + 1].index
    BY <1>1, <2>1 DEF Climbs
  <2> QED
    BY <2>1, <2>3, <2>4
(* Downwards from n.                                                       *)
<1>4. ASSUME NEW i \in 1 .. n PROVE Beats(l, h[n], h[i])
  <2> DEFINE T == {d \in 0 .. n - 1 : ~Beats(l, h[n], h[n - d])}
  <2>1. SUFFICES ASSUME T # {} PROVE FALSE
    <3>1. n - i \in 0 .. n - 1 /\ n - (n - i) = i
      OBVIOUS
    <3> QED
      BY <3>1
  <2>2. PICK d \in T : \A e \in T : d <= e
    <3>1. T \in SUBSET Nat
      OBVIOUS
    <3> QED
      BY <2>1, <3>1, SmallestExists
  <2>3. d # 0
    <3>1. Beats(l, h[n], h[n]) /\ n - 0 = n
      BY <1>1, <1>2, BeatsItself
    <3> QED
      BY <2>2, <3>1
  <2>4. d - 1 \in 0 .. n - 1 /\ d - 1 \notin T
    <3>1. d \in 0 .. n - 1
      BY Zenon
    <3> HIDE DEF T
    <3>2. d \in Nat /\ d - 1 \in 0 .. n - 1 /\ ~(d <= d - 1)
      BY <2>3, <3>1
    <3> QED
      BY <2>2, <3>2, Zenon
  <2>5. PICK m : m = n - d
    OBVIOUS
  <2>6. m \in 1 .. n - 1 /\ m \in 1 .. len - 1 /\ n - (d - 1) = m + 1
    BY <1>1, <2>2, <2>3, <2>5
  <2>7. Beats(l, h[n], h[m + 1]) /\ ~Beats(l, h[n], h[m])
    BY <2>4, <2>5, <2>6
  <2>8. Beats(l, h[m + 1], h[m])
    <3>1. PICK p, q : p = h[m] /\ q = h[m + 1]
      OBVIOUS
    <3>2. Worth(l, h, m)
      BY <2>6, Zenon
    <3>3. p.index \in Int /\ q.index \in Int /\ Surplus(l, p) <= Surplus(l, q) /\ p.index < q.index
      BY <1>2, <1>3, <2>6, <3>1, <3>2, Zenon
    <3>4. Surplus(l, p) \in Int /\ Surplus(l, q) \in Int
      BY <1>2, <1>3, <2>6, <3>1, Zenon
    <3> QED
      BY <3>1, <3>3, <3>4 DEF Beats
  <2>9. h[n] \in Row /\ h[m] \in Row /\ h[m + 1] \in Row
    BY <1>1, <1>2, <1>3, <2>6
  <2> QED
    BY <2>7, <2>8, <2>9, BeatsFacts
(* Upwards: no segment after the first that is too dear is worth it.       *)
<1>5. ASSUME NEW k \in n .. len - 1 PROVE Surplus(l, h[k + 1]) < Surplus(l, h[k])
  <2> DEFINE T == {m \in n .. len - 1 : ~(Surplus(l, h[m + 1]) < Surplus(l, h[m]))}
  <2>1. SUFFICES ASSUME T # {} PROVE FALSE
    OBVIOUS
  <2>2. T \in SUBSET Nat
    OBVIOUS
  <2>3. PICK m \in T : \A e \in T : m <= e
    BY <2>1, <2>2, SmallestExists
  <2>4. m \in n .. len - 1 /\ m \in 1 .. len - 1 /\ ~(Surplus(l, h[m + 1]) < Surplus(l, h[m]))
    BY <2>3
  <2>5. m # n
    BY <1>1, <1>2, <1>3, <2>4
  <2>6. /\ m - 1 \in n .. len - 1 /\ m - 1 \in 1 .. len - 1 /\ m - 1 + 1 = m /\ m \in 2 .. len - 1
        /\ \E a, b, r \in Row : a = h[m - 1] /\ b = h[m] /\ r = h[m + 1]
    <3>1. /\ m - 1 \in n .. len - 1 /\ m - 1 \in 1 .. len - 1 /\ m - 1 + 1 = m /\ m \in 2 .. len - 1
          /\ m - 1 \in 1 .. len /\ m \in 1 .. len /\ m + 1 \in 1 .. len
      BY <2>4, <2>5
    <3>2. h[m - 1] \in Row /\ h[m] \in Row /\ h[m + 1] \in Row
      BY <1>2, <3>1
    <3> QED
      BY <3>1, <3>2
  <2>7. PICK a, b, r \in Row : a = h[m - 1] /\ b = h[m] /\ r = h[m + 1]
    BY <2>6
  <2>8. Surplus(l, b) < Surplus(l, a)
    <3>1. m - 1 \notin T
      BY <2>3, <2>6
    <3> QED
      BY <2>6, <2>7, <3>1
  <2>9. a.index < b.index /\ b.index < r.index
    BY <1>3, <2>4, <2>6, <2>7
  <2>10. Cross(a, b, r) >= 0
    BY <1>1, <2>6, <2>7 DEF Taut
  <2>11. Surplus(l, r) < Surplus(l, b)
    BY <2>8, <2>9, <2>10, NextIsNotWorthIt
  <2> QED
    BY <2>4, <2>7, <2>11
<1>6. ASSUME NEW i \in n .. len PROVE Beats(l, h[n], h[i])
  <2> DEFINE T == {m \in n .. len : ~Beats(l, h[n], h[m])}
  <2>1. SUFFICES ASSUME T # {} PROVE FALSE
    OBVIOUS
  <2>2. T \in SUBSET Nat
    OBVIOUS
  <2>3. PICK m \in T : \A e \in T : m <= e
    BY <2>1, <2>2, SmallestExists
  <2>4. m # n
    BY <1>1, <1>2, <2>3, BeatsItself
  <2>5. m - 1 \in n .. len - 1 /\ m - 1 \notin T /\ m - 1 \in 1 .. len - 1 /\ m - 1 + 1 = m
    BY <2>3, <2>4
  <2>6. Beats(l, h[n], h[m - 1]) /\ ~Beats(l, h[n], h[m])
    BY <2>3, <2>5
  <2>7. Surplus(l, h[m]) < Surplus(l, h[m - 1])
    BY <1>5, <2>5
  <2>8. Beats(l, h[m - 1], h[m])
    BY <2>7 DEF Beats
  <2>9. h[n] \in Row /\ h[m] \in Row /\ h[m - 1] \in Row
    BY <1>1, <1>2, <1>3, <2>5
  <2> QED
    BY <2>6, <2>8, <2>9, BeatsFacts
<1> QED
  BY <1>1, <1>4, <1>6

LEMMA SlopeIsBest ==
    ASSUME NEW rows, Legible(rows), NEW l \in Nat \ {0}, NEW pick, pick = SelectSlope(rows, l),
           pick # NoRow, NEW row \in rows
    PROVE  Beats(l, pick, row)
<1>1. PICK f, n : f = ParetoFrontier(rows) /\ FrontierOK(rows, n, f)
  BY FrontierIsOK
<1>2. f \in Seq(Row) /\ Len(f) = n /\ n \in Nat
  BY <1>1 DEF FrontierOK
<1>3. \A i, j \in 1 .. Len(f) : i < j => f[i].index < f[j].index
  BY <1>1, <1>2 DEF FrontierOK
<1>4. PICK h : h = LowerConvexHull(f) /\ HullOK(f, n, h)
  BY <1>2, <1>3, HullIsOK
<1>5. PICK len \in Nat : len = Len(h) /\ DOMAIN h = 1 .. len /\ len >= 1
  BY <1>1, <1>4 DEF HullOK, FrontierOK
<1> DEFINE T == {m \in DOMAIN h : \A k \in 1 .. m - 1 : Worth(l, h, k)}
<1>6. pick = h[Max(T)]
  BY <1>1, <1>4 DEF SelectSlope, Worth
<1>7. T \in SUBSET (1 .. len) /\ 1 \in T
  BY <1>5
<1>8. \A m \in 1 .. len : m \in T <=> \A k \in 1 .. m - 1 : Worth(l, h, k)
  BY <1>5
<1> HIDE DEF T
<1>9. PICK m : m = Max(T) /\ m \in T /\ \A y \in T : y <= m
  <2>1. T # {}
    BY <1>7
  <2> QED
    BY <1>7, <2>1, MaxIsLargest
<1>10. m \in 1 .. len /\ \A k \in 1 .. m - 1 : Worth(l, h, k)
  BY <1>7, <1>8, <1>9
<1>11. ASSUME m < len, Worth(l, h, m) PROVE FALSE
  <2>1. PICK q : q = m + 1
    OBVIOUS
  <2>2. q \in 1 .. len /\ q \notin T
    BY <1>9, <1>10, <1>11, <2>1
  <2>3. ASSUME NEW k \in 1 .. q - 1 PROVE Worth(l, h, k)
    <3>1. k \in 1 .. m - 1 \/ k = m
      BY <1>10, <2>1
    <3> QED
      BY <1>10, <1>11, <3>1
  <2> QED
    BY <1>8, <2>2, <2>3
<1>12. PICK p \in Undominated(rows) : p.index >= row.index /\ p.price <= row.price
  BY Covered
<1>13. PICK i \in 1 .. n : f[i] = p
  BY <1>1, <1>12 DEF FrontierOK
<1>14. PICK j \in 1 .. len : Beats(l, h[j], p)
  BY <1>4, <1>5, <1>13 DEF HullOK, Matches
<1>15. Beats(l, h[m], h[j])
  <2>1. h \in Seq(Row) /\ Climbs(h) /\ Taut(h)
    BY <1>4 DEF HullOK
  <2> QED
    BY <1>5, <1>10, <1>11, <2>1, StopIsBest
<1>16. h[m] \in Row /\ h[j] \in Row /\ p \in Row /\ row \in Row
  BY <1>4, <1>5, <1>10, <1>12, RowTypes DEF HullOK, Undominated, Unique
<1>17. Beats(l, p, row)
  <2>1. p.index \in Int /\ p.price \in Int /\ row.index \in Int /\ row.price \in Int
    BY <1>16 DEF Row
  <2>2. row.index * l <= p.index * l
    BY <1>12, <2>1, Scaled
  <2>3. /\ row.index * l = l * row.index /\ p.index * l = l * p.index
        /\ l * row.index \in Int /\ l * p.index \in Int
    BY <2>1
  <2> QED
    BY <1>12, <2>1, <2>2, <2>3 DEF Beats, Surplus
<1>18. Beats(l, h[m], p)
  BY <1>14, <1>15, <1>16, BeatsFacts
<1>19. Beats(l, h[m], row)
  BY <1>16, <1>17, <1>18, BeatsFacts
<1> QED
  BY <1>6, <1>9, <1>19

-----------------------------------------------------------------------------
(* The elbow.                                                              *)

Logged(rows) ==
    /\ \A row \in rows : row.price > 0 => row.price \in DOMAIN Log
    /\ \E row \in rows : row.price > 0

LEMMA PriceFacts ==
    ASSUME NEW rows, Legible(rows), Logged(rows), NEW x \in rows, NEW y \in rows
    PROVE  /\ PricedAt(rows, x) \in DOMAIN Log /\ Log[PricedAt(rows, x)] \in Int
           /\ x.price <= y.price => Log[PricedAt(rows, x)] <= Log[PricedAt(rows, y)]
<1> DEFINE P == {r.price : r \in {z \in rows : z.price > 0}}
<1>1. P \in SUBSET Nat /\ P # {}
  <2>1. \A r \in rows : r.price \in Int
    BY RowTypes, Zenon
  <2> QED
    BY <2>1 DEF Logged
<1>2. Min(P) \in P /\ \A e \in P : Min(P) <= e
  <2>1. \E m \in P : \A e \in P : m <= e
    <3> HIDE DEF P
    <3> QED
      BY <1>1, SmallestExists
  <2> HIDE DEF P
  <2> QED
    BY <2>1 DEF Min
<1>3. PICK m : m = Min(P)
  OBVIOUS
<1>4. m \in DOMAIN Log /\ m \in Nat /\ \A r \in rows : r.price > 0 => m <= r.price
  BY <1>1, <1>2, <1>3 DEF Logged
<1>5. \A r \in rows : PricedAt(rows, r) = IF r.price > 0 THEN r.price ELSE m
  BY <1>3 DEF PricedAt
<1> HIDE DEF P
<1>6. \A r \in rows : PricedAt(rows, r) \in DOMAIN Log
  BY <1>4, <1>5 DEF Logged
<1>7. PICK p, q : p = PricedAt(rows, x) /\ q = PricedAt(rows, y)
  OBVIOUS
<1>8. /\ p \in DOMAIN Log /\ q \in DOMAIN Log /\ p \in Nat /\ q \in Nat
      /\ Log[p] \in Int /\ Log[q] \in Int /\ (p < q => Log[p] < Log[q])
  BY <1>6, <1>7, ModelPolicyAssumption
<1>9. ASSUME x.price <= y.price PROVE p <= q
  BY <1>4, <1>5, <1>7, <1>9, RowTypes
<1>10. x.price <= y.price => Log[p] <= Log[q]
  <2>1. SUFFICES ASSUME x.price <= y.price PROVE Log[p] <= Log[q]
    OBVIOUS
  <2>2. p < q \/ p = q
    BY <1>8, <1>9, <2>1
  <2> QED
    BY <1>8, <2>2
<1> QED
  BY <1>7, <1>8, <1>10

LEMMA OffsetGrows ==
    ASSUME NEW rows, Legible(rows), Logged(rows), NEW f, NEW n \in Nat \ {0},
           FrontierOK(rows, n, f), NEW x \in rows, NEW y \in rows
    PROVE  /\ Offset(rows, f, x) \in Int
           /\ x.index <= y.index /\ y.price <= x.price => Offset(rows, f, x) <= Offset(rows, f, y)
<1>1. PICK a, b : a = f[1] /\ b = f[n]
  OBVIOUS
<1>2. a \in rows /\ b \in rows /\ Len(f) = n /\ a.index <= b.index /\ a.price <= b.price
  BY <1>1, RowTypes DEF FrontierOK, Undominated, Unique
<1>3. PICK la, lb, lx, ly : /\ la = Log[PricedAt(rows, a)] /\ lb = Log[PricedAt(rows, b)]
                            /\ lx = Log[PricedAt(rows, x)] /\ ly = Log[PricedAt(rows, y)]
  OBVIOUS
<1>4. /\ la \in Int /\ lb \in Int /\ lx \in Int /\ ly \in Int
      /\ la <= lb /\ (y.price <= x.price => ly <= lx)
  BY <1>2, <1>3, PriceFacts
<1>5. PICK s, t, u, v : /\ s = x.index - a.index /\ t = y.index - a.index
                        /\ u = lb - la /\ v = b.index - a.index
  OBVIOUS
<1>6. /\ s \in Int /\ t \in Int /\ u \in Int /\ v \in Int /\ u >= 0 /\ v >= 0
      /\ (x.index <= y.index => s <= t)
  <2>1. x.index \in Int /\ y.index \in Int /\ a.index \in Int /\ b.index \in Int
    BY <1>2, RowTypes, Zenon
  <2>2. PICK i, j, k, w : i = x.index /\ j = y.index /\ k = a.index /\ w = b.index
    OBVIOUS
  <2>3. i \in Int /\ j \in Int /\ k \in Int /\ w \in Int /\ k <= w
    BY <1>2, <2>1, <2>2, Zenon
  <2>4. s = i - k /\ t = j - k /\ u = lb - la /\ v = w - k
    BY <1>5, <2>2, Zenon
  <2>5. s \in Int /\ t \in Int /\ v \in Int /\ v >= 0 /\ (i <= j => s <= t)
    BY <2>3, <2>4
  <2>6. u \in Int /\ u >= 0
    BY <1>4, <2>4
  <2> QED
    BY <2>2, <2>5, <2>6, Zenon
<1>7. /\ Offset(rows, f, x) = s * u - (lx - la) * v
      /\ Offset(rows, f, y) = t * u - (ly - la) * v
  BY <1>1, <1>2, <1>3, <1>5 DEF Offset
<1>8. ASSUME x.index <= y.index, y.price <= x.price PROVE s * u <= t * u /\ (ly - la) * v <= (lx - la) * v
  <2>1. s <= t /\ ly - la <= lx - la /\ ly - la \in Int /\ lx - la \in Int
    BY <1>4, <1>6, <1>8
  <2> QED
    BY <1>6, <2>1, Scaled
<1>9. s * u \in Int /\ t * u \in Int /\ (lx - la) * v \in Int /\ (ly - la) * v \in Int
  BY <1>4, <1>6
<1> QED
  BY <1>7, <1>8, <1>9

LEMMA MostIntelligent ==
    ASSUME NEW rows, Legible(rows), NEW S \in SUBSET rows, S # {}
    PROVE  SelectMax(S) \in S
<1> DEFINE a == [row \in S |-> -row.index]
           b == [row \in S |-> row.price]
           key == [row \in S |-> <<-row.index, row.price>>]
<1>1. a \in [S -> Int] /\ b \in [S -> Int]
  BY RowTypes
<1>2. key = [row \in S |-> <<a[row], b[row]>>]
  OBVIOUS
<1>3. SelectMax(S) = Least(key)
  BY DEF SelectMax
<1> HIDE DEF a, b, key
<1> QED
  BY <1>1, <1>2, <1>3, LeastIsFirst DEF IsFirst

(* The elbow is on the frontier and no point of it is deeper below the     *)
(* chord.                                                                  *)
LEMMA ElbowOnFrontier ==
    ASSUME NEW rows, Legible(rows), \A row \in rows : row.price > 0 => row.price \in DOMAIN Log,
           NEW f, NEW n, FrontierOK(rows, n, f), f = ParetoFrontier(rows)
    PROVE  /\ SelectElbow(rows) \in Undominated(rows)
           /\ n >= 3 =>
                /\ Logged(rows)
                /\ \A p \in Undominated(rows) :
                      Offset(rows, f, p) <= Offset(rows, f, SelectElbow(rows)) \/ Offset(rows, f, p) <= 0
<1>1. /\ n \in Nat \ {0} /\ f \in [1 .. n -> Undominated(rows)] /\ Len(f) = n
      /\ \A row \in Undominated(rows) : \E k \in 1 .. n : f[k] = row
      /\ \A k, m \in 1 .. n : k < m => f[k].index < f[m].index /\ f[k].price < f[m].price
  BY DEF FrontierOK
<1>2. PICK U : U = Undominated(rows) /\ U = Range(f) /\ U \in SUBSET rows /\ U # {}
  <2>1. Undominated(rows) = Range(f) /\ Undominated(rows) # {}
    BY <1>1 DEF Range
  <2> QED
    BY <2>1 DEF Undominated, Unique
<1> DEFINE S == {row \in U : Offset(rows, f, row) > 0}
<1>3. SelectElbow(rows) = IF n < 3 \/ S = {} THEN SelectMax(U)
                          ELSE Least([row \in S |-> <<-Offset(rows, f, row), row.price>>])
  BY <1>1, <1>2 DEF SelectElbow
<1>4. ASSUME n >= 3 PROVE Logged(rows)
  <2>1. 1 \in 1 .. n /\ 2 \in 1 .. n
    BY <1>1, <1>4
  <2>2. f[1] \in rows /\ f[2] \in rows /\ f[1].price < f[2].price
    BY <1>1, <1>2, <2>1
  <2>3. f[2].price > 0
    BY <2>2, RowTypes
  <2> QED
    BY <2>2, <2>3 DEF Logged
<1>5. ASSUME n >= 3 PROVE \A p \in rows : Offset(rows, f, p) \in Int
  <2>1. Logged(rows)
    BY <1>4, <1>5
  <2> QED
    BY <1>1, <2>1, OffsetGrows
<1>6. CASE n < 3
  <2>1. SelectElbow(rows) \in U
    BY <1>2, <1>3, <1>6, MostIntelligent
  <2> QED
    BY <1>1, <1>2, <1>6, <2>1
<1>7. CASE n >= 3 /\ S = {}
  <2>1. SelectElbow(rows) \in U
    BY <1>2, <1>3, <1>7, MostIntelligent
  <2>2. \A p \in U : Offset(rows, f, p) <= 0
    BY <1>2, <1>5, <1>7
  <2> QED
    BY <1>2, <1>4, <1>7, <2>1, <2>2
<1>8. CASE n >= 3 /\ S # {}
  <2> DEFINE a == [row \in S |-> -Offset(rows, f, row)]
             b == [row \in S |-> row.price]
             key == [row \in S |-> <<-Offset(rows, f, row), row.price>>]
  <2>1. S \in SUBSET U /\ S \in SUBSET rows
    BY <1>2
  <2>2. a \in [S -> Int] /\ b \in [S -> Int]
    BY <1>5, <1>8, <2>1, RowTypes
  <2>3. key = [row \in S |-> <<a[row], b[row]>>]
    OBVIOUS
  <2>4. PICK e : e = SelectElbow(rows) /\ e = Least(key)
    <3>1. ~(n < 3 \/ S = {})
      BY <1>1, <1>8
    <3>2. SelectElbow(rows) = Least(key)
      BY <1>3, <3>1
    <3> QED
      BY <3>2
  <2>5. \A p \in S : a[p] = -Offset(rows, f, p)
    OBVIOUS
  <2>6. \A p \in U : p \in S <=> Offset(rows, f, p) > 0
    OBVIOUS
  <2> HIDE DEF a, b, key, S
  <2>7. e \in S /\ \A p \in S : p = e \/ Lower(a, b, e, p)
    <3>1. IsFirst(S, a, b, e)
      BY <1>8, <2>1, <2>2, <2>3, <2>4, LeastIsFirst
    <3> QED
      BY <3>1 DEF IsFirst
  <2>8. ASSUME NEW p \in U PROVE Offset(rows, f, p) <= Offset(rows, f, e) \/ Offset(rows, f, p) <= 0
    <3>1. PICK x, y \in Int : x = Offset(rows, f, p) /\ y = Offset(rows, f, e)
      BY <1>2, <1>5, <1>8, <2>1, <2>7
    <3>2. SUFFICES ASSUME p \in S, p # e PROVE x <= y
      BY <2>6, <3>1
    <3>3. a[e] <= a[p]
      <4>1. a[e] \in Int /\ a[p] \in Int
        BY <2>2, <2>7, <3>2
      <4> QED
        BY <2>7, <3>2, <4>1 DEF Lower
    <3>4. a[e] = -y /\ a[p] = -x
      BY <2>5, <2>7, <3>1, <3>2
    <3> QED
      BY <3>1, <3>3, <3>4
  <2> QED
    BY <1>2, <1>4, <1>8, <2>1, <2>4, <2>7, <2>8
<1> QED
  BY <1>1, <1>6, <1>7, <1>8

LEMMA ElbowIsBest ==
    ASSUME NEW rows, Legible(rows), \A row \in rows : row.price > 0 => row.price \in DOMAIN Log,
           NEW f, f = ParetoFrontier(rows), NEW e, e = SelectElbow(rows), NEW row \in rows
    PROVE  /\ ~Dominates(row, e)
           /\ Len(f) >= 3 =>
                Offset(rows, f, row) <= Offset(rows, f, e) \/ Offset(rows, f, row) <= 0
<1>1. PICK n : FrontierOK(rows, n, f)
  BY FrontierIsOK
<1>2. n \in Nat \ {0} /\ Len(f) = n
  BY <1>1 DEF FrontierOK
<1>3. /\ e \in Undominated(rows)
      /\ n >= 3 => /\ Logged(rows)
                   /\ \A p \in Undominated(rows) :
                         Offset(rows, f, p) <= Offset(rows, f, e) \/ Offset(rows, f, p) <= 0
  BY <1>1, ElbowOnFrontier
<1>4. PICK p \in Undominated(rows) : p.index >= row.index /\ p.price <= row.price
  BY Covered
<1>5. p \in rows /\ e \in rows /\ p \in Unique(rows)
  BY <1>3, <1>4 DEF Undominated, Unique
<1>6. ASSUME Dominates(row, e) PROVE FALSE
  <2>1. Dominates(p, e)
    BY <1>4, <1>5, <1>6, RowTypes DEF Dominates
  <2> QED
    BY <1>3, <1>5, <2>1 DEF Undominated
<1>7. ASSUME n >= 3
      PROVE  Offset(rows, f, row) <= Offset(rows, f, e) \/ Offset(rows, f, row) <= 0
  <2>1. PICK x, y, z : x = Offset(rows, f, row) /\ y = Offset(rows, f, p) /\ z = Offset(rows, f, e)
    OBVIOUS
  <2>2. x \in Int /\ y \in Int /\ z \in Int
    BY <1>1, <1>2, <1>3, <1>5, <1>7, <2>1, OffsetGrows
  <2>3. x <= y
    <3>1. row.index <= p.index /\ p.price <= row.price
      BY <1>4, <1>5, RowTypes
    <3> QED
      BY <1>1, <1>2, <1>3, <1>5, <1>7, <2>1, <3>1, OffsetGrows
  <2>4. y <= z \/ y <= 0
    BY <1>3, <1>4, <1>7, <2>1
  <2> QED
    BY <2>1, <2>2, <2>3, <2>4
<1> QED
  BY <1>2, <1>6, <1>7

FromTheBroker == listed \in Catalog

(* Whatever the broker lists and however many rows: the slope policy takes *)
(* a row of greatest surplus, the elbow one deepest below the chord.       *)
THEOREM PicksAreBestHolds == PolicySpec => []PicksAreBest
<1>1. PolicyInit => FromTheBroker
  BY DEF PolicyInit, FromTheBroker
<1>2. FromTheBroker /\ [PolicyNext]_policyVars => FromTheBroker'
  BY DEF FromTheBroker, PolicyNext, policyVars, Publish, Expire, SetPolicy, Resolve, EnterResolve, LoadCatalog,
         LoadNamed, ImageTurn, ImageConfirmed, Enrich, ImageUnknown
<1>3. FromTheBroker => PicksAreBest
  <2>0. SUFFICES ASSUME listed \in Catalog PROVE PicksAreBest
    BY DEF FromTheBroker
  <2>1. PICK rows : rows = Complete(listed.rows)
    OBVIOUS
  <2>2. SUFFICES ASSUME Readable(listed.rows)
        PROVE  /\ \A l \in Willingness :
                     SelectSlope(rows, l) # NoRow =>
                         \A row \in rows : Beats(l, SelectSlope(rows, l), row)
               /\ \A row \in rows :
                     /\ ~Dominates(row, SelectElbow(rows))
                     /\ Len(ParetoFrontier(rows)) >= 3 =>
                          \/ Offset(rows, ParetoFrontier(rows), row)
                             <= Offset(rows, ParetoFrontier(rows), SelectElbow(rows))
                          \/ Offset(rows, ParetoFrontier(rows), row) <= 0
    BY <2>1 DEF PicksAreBest
  <2>3. /\ listed.rows \subseteq Row /\ IsFiniteSet(listed.rows)
        /\ \A row \in listed.rows : row.price > 0 => row.price \in DOMAIN Log
    BY <2>0, TablesAssumption
  <2>4. rows \in SUBSET listed.rows
    BY <2>1 DEF Complete
  <2>5. Legible(rows)
    BY <2>1, <2>2, <2>3, <2>4, FS_Subset DEF Legible, Readable, Complete
  <2>6. \A row \in rows : row.price > 0 => row.price \in DOMAIN Log
    BY <2>3, <2>4
  <2>7. ASSUME NEW l \in Willingness, SelectSlope(rows, l) # NoRow, NEW row \in rows
        PROVE  Beats(l, SelectSlope(rows, l), row)
    <3>1. l \in Nat \ {0}
      BY ModelPolicyAssumption
    <3> QED
      BY <2>5, <2>7, <3>1, SlopeIsBest
  <2>8. ASSUME NEW row \in rows
        PROVE  /\ ~Dominates(row, SelectElbow(rows))
               /\ Len(ParetoFrontier(rows)) >= 3 =>
                    \/ Offset(rows, ParetoFrontier(rows), row)
                       <= Offset(rows, ParetoFrontier(rows), SelectElbow(rows))
                    \/ Offset(rows, ParetoFrontier(rows), row) <= 0
    BY <2>5, <2>6, ElbowIsBest
  <2> QED
    BY <2>7, <2>8
<1> QED
  BY <1>1, <1>2, <1>3, PTL DEF PolicySpec
=============================================================================
