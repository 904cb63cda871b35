--------------------------- MODULE ApprovalQueue ---------------------------
(***************************************************************************)
(* The consent queue (src/spine/queue/service.py) over the palace: the     *)
(* extraction, seed and curator pipelines that put candidates in front of  *)
(* the owner, and the decisions that enact or reject them.                 *)
(*                                                                         *)
(* A pipeline is a worker that runs one transaction after another; others  *)
(* commit in between and the worker may die between any two.  A decision,  *)
(* single or batch, locks its cards, candidates and targets to its commit  *)
(* and is one step; one that raises changes nothing and is no step.        *)
(***************************************************************************)
EXTENDS MemoryService

CONSTANTS
    Worker,         \* concurrent extraction, seed and curator handlers
    Batch,          \* batch_uids
    Proposals,      \* what extractors propose: [label, body, verdict]
    Documents,      \* seed requests: [batch, source, children]
    Repairs,        \* surgeon verdicts: [action, label, body]
    Amendments,     \* texts an owner may put in place of a curator's
    MaxTargets,     \* bound: targets one proposal names
    MaxCards        \* bound: curators stop proposing at this many cards

VARIABLE flow       \* what each worker is doing

queueVars == <<memoryVars, flow>>

-----------------------------------------------------------------------------
Replacing == {"merge", "supersede"}
Verdict == Replacing \cup {"new", "contradict", "retire", "keyword_repair", "split"}
Birthplace == {"thread", "seed", "symphony", "curator"}

Proposal == [label : Name \X {0}, body : Body, verdict : Verdict]

(* ExtractionCandidate: a proposal and the memories it implicates.         *)
Candidate == [label : Name \X {0}, body : Body, verdict : Verdict, targets : SUBSET Mem]

ASSUME QueueAssumption ==
    /\ Keep \notin Batch
    /\ Batch \subseteq Origin
    /\ Proposals \subseteq Proposal
    /\ Documents \subseteq [batch : Batch, source : Body, children : Seq(Proposal)]
    /\ Repairs \subseteq [action : Verdict \ {"new"}, label : Name \X {0}, body : Body]
    /\ Amendments \subseteq Body
    /\ MaxTargets \in Nat /\ MaxCards \in Nat

(* approval_queue_item.  Keep stands for a null column; judged is 0 except *)
(* on curator cards, which record the candidate revision they judged.      *)
Card ==
    [candidate : Mem, principal : Principal, birthplace : Birthplace,
     batch : Batch \cup {Keep}, source : Body \cup {Keep}, judged : Nat,
     verdict : Verdict, targets : SUBSET Mem,
     state : {"pending", "approved", "rejected"}]

(* A decision request: the owner's explicit approve or deny, or the passive*)
(* approval of a card that was shown and passed (QueueDecisionRequest lets *)
(* no other combination through).                                          *)
Signal == {"approve", "passive", "deny"}
Decision == [item : Nat \ {0}, signal : Signal]

-----------------------------------------------------------------------------
(* Extraction and seed workers share a loop over drafts.                   *)
Loop ==
    [at : {"source", "drafts", "embed", "enqueue", "card", "discard"},
     principal : Principal, birthplace : {"thread", "seed"},
     batch : Batch \cup {Keep}, source : Body \cup {Keep},
     parent : RevUid \cup {NoParent}, left : Seq(Candidate), made : SUBSET Mem,
     candidate : Mem \cup {Keep}, near : SUBSET Mem]

Curation ==
    [at : {"diagnosed", "proposed", "judged"}, principal : Principal,
     repair : [action : Verdict, label : Name \X {0}, body : Body],
     subject : Mem, others : SUBSET Mem,
     candidate : Mem \cup {Keep}, judged : Nat]

Flow == [at : {"idle"}] \cup Loop \cup Curation

Begin(w, f) == flow[w] = Idle /\ flow' = [flow EXCEPT ![w] = f]
Continue(w, f) == flow' = [flow EXCEPT ![w] = f]
End(w) == Continue(w, Idle)

(* The targets a proposal may name: none for `new`, some otherwise.        *)
Implicable(p, verdict) ==
    {T \in SUBSET Owned(p) : Cardinality(T) <= MaxTargets /\ (T = {} <=> verdict = "new")}

Implicate(d, T) ==
    [label |-> d.label, body |-> d.body, verdict |-> d.verdict, targets |-> T]

LoopStart(at, p, birthplace, batch, source, drafts) ==
    [at |-> at, principal |-> p, birthplace |-> birthplace, batch |-> batch,
     source |-> source, parent |-> NoParent, left |-> drafts, made |-> {},
     candidate |-> Keep, near |-> {}]

(* extract.  Drafts are handled one after the other and an error ends the  *)
(* request, so a request is the same as one request per draft it reaches.  *)
Extract(w, p, d, T) ==
    /\ T \in Implicable(p, d.verdict)
    /\ Begin(w, LoopStart("drafts", p, "thread", Keep, Keep, <<Implicate(d, T)>>))
    /\ UNCHANGED memoryVars

(* ingest_seed.  _seed_batch, read without a lock: nothing is done for a   *)
(* batch that has cards or a source, or a document that was rejected.      *)
SeedKnown(p, batch, source) ==
    \/ \E i \in DOMAIN cards : cards[i].batch = batch
    \/ \E i \in DOMAIN cards :
          /\ cards[i].birthplace = "seed" /\ cards[i].principal = p
          /\ cards[i].source = source /\ cards[i].state = "rejected"
    \/ \E m \in Owned(p) : heads[m].origin = batch

Seed(w, p, doc, implicated) ==
    /\ ~SeedKnown(p, doc.batch, doc.source)
    /\ \A k \in DOMAIN doc.children : implicated[k] \in Implicable(p, doc.children[k].verdict)
    /\ Begin(w, LoopStart("source", p, "seed", doc.batch, doc.source,
                          [k \in DOMAIN doc.children |->
                              Implicate(doc.children[k], implicated[k])]))
    /\ UNCHANGED memoryVars

(* create_split_source, under the principal lock.                          *)
SeedSource(w) ==
    LET f == flow[w] IN
    /\ f.at = "source" /\ LockFree(f.principal)
    /\ \E m \in Fresh :
          /\ Write(Only(m, Root(f.principal, <<SourceName, 0>>, f.source, "tombstoned",
                                f.batch, NoParent, "seed-source")), None)
          /\ Continue(w, [f EXCEPT !.at = "drafts", !.parent = SourceRow(m)])
    /\ UNCHANGED <<edges, cards, decisions, lock, req, shown>>

(* create_candidate.  Under the lock, the rejected-body read; the embedding*)
(* call follows with the transaction open.                                 *)
DraftCheck(w) ==
    LET f == flow[w] IN
    /\ f.at = "drafts" /\ f.left # <<>> /\ LockFree(f.principal)
    /\ IF RejectedBody(f.principal, Head(f.left).body)
       THEN /\ Continue(w, [f EXCEPT !.left = Tail(@)])
            /\ UNCHANGED lock
       ELSE /\ Continue(w, [f EXCEPT !.at = "embed"])
            /\ lock' = lock \cup {f.principal}
    /\ UNCHANGED <<tables, req, shown>>

(* Then the dedup read, against active and candidate heads alike, and the  *)
(* insert.  The memories a replacement names never refuse it.              *)
CandidateInsert(w) ==
    LET f == flow[w]
        d == Head(f.left)
        near == DedupMatches(f.principal, d.body, {"active", "candidate"}, {})
        replaced == IF d.verdict \in Replacing THEN d.targets ELSE {} IN
    /\ f.at = "embed"
    /\ IF Duplicates(f.principal, d.body, near) \ replaced # {}
       THEN /\ Continue(w, [f EXCEPT !.at = "drafts", !.left = Tail(@)])
            /\ UNCHANGED <<heads, history>>
       ELSE \E m \in Fresh :
            /\ Write(Only(m, Root(f.principal, d.label, d.body, "candidate", NoOrigin, f.parent,
                                  IF f.birthplace = "seed" THEN "seed-child" ELSE "extracted")),
                     None)
            /\ Continue(w, [f EXCEPT !.at = "enqueue", !.candidate = m, !.near = near])
    /\ lock' = lock \ {f.principal}
    /\ UNCHANGED <<edges, cards, decisions, req, shown>>

(* _enqueue and _enqueue_seed: are the targets active neighbours now?      *)
EnqueueCheck(w) ==
    LET f == flow[w] IN
    /\ f.at = "enqueue"
    /\ Continue(w, [f EXCEPT !.at = IF Head(f.left).targets \subseteq f.near \cap Active
                                    THEN "card" ELSE "discard"])
    /\ UNCHANGED memoryVars

CardInsert(w) ==
    LET f == flow[w]
        d == Head(f.left) IN
    /\ f.at = "card"
    /\ cards' = Append(cards,
           [candidate |-> f.candidate, principal |-> f.principal,
            birthplace |-> f.birthplace, batch |-> f.batch, source |-> f.source,
            judged |-> 0, verdict |-> d.verdict, targets |-> d.targets,
            state |-> "pending"])
    /\ Continue(w, [f EXCEPT !.at = "drafts", !.left = Tail(@),
                             !.made = @ \cup {f.candidate}])
    /\ UNCHANGED <<heads, history, edges, decisions, lock, req, shown>>

(* _discard_candidate, then the 422 that ends the request.                 *)
Discard(w) ==
    LET m == flow[w].candidate IN
    /\ flow[w].at = "discard"
    /\ Write(None, Only(m, Change([heads[m] EXCEPT !.status = "tombstoned"],
                                  "invalid-target")))
    /\ End(w)
    /\ UNCHANGED <<edges, cards, decisions, lock, req, shown>>

(* The end of the loop; a seed relates the siblings it queued.             *)
LoopEnd(w) ==
    LET f == flow[w] IN
    /\ f.at = "drafts" /\ f.left = <<>>
    /\ edges' = edges \cup (IF f.birthplace = "seed" THEN Siblings(f.made) ELSE {})
    /\ End(w)
    /\ UNCHANGED <<heads, history, cards, decisions, lock, req, shown>>

-----------------------------------------------------------------------------
(* enqueue_curator.  The surgeon judged active memories; the verdict comes *)
(* back when they may already have changed.  What it proposes keeps the    *)
(* thread_origin, which a seed source's batch is, of the memory it judged. *)
Inherited(m) == IF heads[m].origin \in Batch THEN heads[m].origin ELSE NoOrigin

CuratorDiagnose(w, p, repair, subject, others) ==
    /\ Len(cards) < MaxCards
    /\ {subject} \cup others \subseteq Active \cap Owned(p)
    /\ subject \notin others /\ Cardinality(others) <= MaxTargets
    /\ repair.action = "contradict" => others # {}
    /\ Begin(w, [at |-> "diagnosed", principal |-> p, repair |-> repair,
                 subject |-> subject, others |-> others, candidate |-> Keep, judged |-> 0])
    /\ UNCHANGED memoryVars

(* A replacement becomes a candidate, deduplicated against all but the     *)
(* memories it is to replace; a duplicate makes no card.                   *)
CuratorCandidate(w) ==
    LET f == flow[w]
        near == DedupMatches(f.principal, f.repair.body, {"active", "candidate"},
                             {f.subject} \cup f.others) IN
    /\ f.at = "diagnosed" /\ f.repair.action \in Replacing
    /\ LockFree(f.principal)
    /\ IF Duplicates(f.principal, f.repair.body, near) # {}
       THEN End(w) /\ UNCHANGED <<heads, history>>
       ELSE \E m \in Fresh :
            /\ Write(Only(m, Root(f.principal, f.repair.label, f.repair.body, "candidate",
                                  Inherited(f.subject), NoParent, "proposed")), None)
            /\ Continue(w, [f EXCEPT !.at = "proposed", !.candidate = m])
    /\ UNCHANGED <<edges, cards, decisions, lock, req, shown>>

(* _memory_row reads the revision the card will name.                      *)
CuratorJudge(w) ==
    LET f == flow[w]
        m == IF f.at = "proposed" THEN f.candidate ELSE f.subject IN
    /\ \/ f.at = "proposed"
       \/ f.at = "diagnosed" /\ f.repair.action \notin Replacing
    /\ Continue(w, [f EXCEPT !.at = "judged", !.candidate = m,
                             !.judged = heads[m].revision])
    /\ UNCHANGED memoryVars

CuratorCard(w) ==
    LET f == flow[w]
        action == f.repair.action IN
    /\ f.at = "judged"
    /\ cards' = Append(cards,
           [candidate |-> f.candidate, principal |-> f.principal,
            birthplace |-> "curator", batch |-> Keep, source |-> Keep,
            judged |-> f.judged, verdict |-> action,
            targets |-> CASE action \in Replacing -> {f.subject} \cup f.others
                          [] action = "contradict" -> f.others
                          [] OTHER -> {},
            state |-> "pending"])
    /\ End(w)
    /\ UNCHANGED <<heads, history, edges, decisions, lock, req, shown>>

(* A worker dies between or inside its transactions.                       *)
WorkerCrash(w) ==
    /\ flow[w] # Idle
    /\ End(w)
    /\ lock' = IF flow[w].at = "embed" THEN lock \ {flow[w].principal} ELSE lock
    /\ UNCHANGED <<tables, req, shown>>

-----------------------------------------------------------------------------
(* Decisions.                                                              *)
Decided == {d.item : d \in decisions}

(* The memories approving card i implicates, and the edges it draws.       *)
EdgeFor(verdict) ==
    CASE verdict = "merge" -> "merged_from"
      [] verdict = "supersede" -> "supersedes"
      [] verdict = "contradict" -> "contradicts"

(* Fault: contradictions are not among the verdicts that draw edges.       *)
ImplicatedIfReplaced(i) ==
    IF cards[i].verdict \in Replacing THEN cards[i].targets ELSE {}

Implicated(i) ==
    IF cards[i].verdict \in Replacing \cup {"contradict"} THEN cards[i].targets ELSE {}

Retired(i) == IF cards[i].verdict \in Replacing THEN cards[i].targets ELSE {}

VerdictEdges(i) ==
    {[from |-> cards[i].candidate, to |-> t, type |-> EdgeFor(cards[i].verdict)] :
        t \in Implicated(i)}

(* _enact_targets, card by card: each target is still active and of the    *)
(* candidate's owner, also after the cards of S before this one.           *)
TargetsStand(S) ==
    \A i \in S : \A t \in Implicated(i) :
        /\ t \in Active
        /\ heads[t].principal = heads[cards[i].candidate].principal
        /\ \A j \in S : j < i => t \notin Retired(j)

(* approval_label: the candidate's label, qualified until no active memory *)
(* of the owner has it; the cards of S before this one are already enacted.*)
Qualified(l, k) == <<l[1], l[2] + k>>

HeldBefore(i, S, label) ==
    LET p == heads[cards[i].candidate].principal
        gone == UNION {Retired(j) : j \in {j \in S : j <= i}} IN
    {heads[m].label : m \in (Active \cap Owned(p)) \ gone}
    \cup {label[j] : j \in {j \in S : j < i}}

ApprovalLabels(S) ==
    {label \in [S -> Label] : \A i \in S :
        LET held == HeldBefore(i, S, label)
            own == heads[cards[i].candidate].label IN
        \E k \in 0 .. MaxQualifier :
            /\ label[i] = Qualified(own, k) /\ label[i] \notin held
            /\ \A n \in 0 .. k - 1 : Qualified(own, n) \in held}

CandidateOf(S) == {cards[i].candidate : i \in S}
CardOf(m, S) == CHOOSE i \in S : cards[i].candidate = m

(* Targets go, candidates come: one transaction for all the cards of S.    *)
EnactCards(S) ==
    LET retired == UNION {Retired(i) : i \in S} IN
    /\ TargetsStand(S)
    /\ \A i \in S : LockFree(heads[cards[i].candidate].principal)
    /\ \E label \in ApprovalLabels(S) :
          Write(None, [m \in retired \cup CandidateOf(S) |->
              IF m \in CandidateOf(S)
              THEN Change([heads[m] EXCEPT !.status = "active",
                                           !.label = label[CardOf(m, S)]], "approved")
              ELSE Change([heads[m] EXCEPT !.status = "tombstoned"],
                          cards[CHOOSE i \in S : m \in Retired(i)].verdict)])
    /\ edges' = edges \cup UNION {VerdictEdges(i) : i \in S}

(* Fault: the targets are retired before the decision is looked at.        *)
RejectCardsAndTargets(S) ==
    /\ TargetsStand(S)
    /\ Write(None, [m \in CandidateOf(S) \cup UNION {Retired(i) : i \in S} |->
          Change([heads[m] EXCEPT !.status = "tombstoned"],
                 IF m \in CandidateOf(S) THEN "rejected" ELSE "merge")])
    /\ UNCHANGED edges

RejectCards(S) ==
    /\ Write(None, [m \in CandidateOf(S) |->
                       Change([heads[m] EXCEPT !.status = "tombstoned"], "rejected")])
    /\ UNCHANGED edges

StateIfExplicit(signal) ==  \* Fault: only an explicit approval counts as one
    IF signal = "approve" THEN "approved" ELSE "rejected"

StateAfter(signal) == IF signal = "deny" THEN "rejected" ELSE "approved"

(* Fault: the decision is logged and the card stays pending.               *)
RecordOnly(S, signal) ==
    /\ decisions' = decisions \cup {[item |-> i, signal |-> signal] : i \in S}
    /\ UNCHANGED cards

Record(S, signal) ==
    /\ decisions' = decisions \cup {[item |-> i, signal |-> signal] : i \in S}
    /\ cards' = [i \in DOMAIN cards |->
                    IF i \in S THEN [cards[i] EXCEPT !.state = StateAfter(signal)]
                    ELSE cards[i]]

(* A PATCH may have moved a candidate since its card was made.             *)
AnyStatus(S) == TRUE        \* Fault: what the card names is taken for a candidate still

StillCandidates(S) == \A i \in S : heads[cards[i].candidate].status = "candidate"

(* _decide_row for cards that are not a curator's, S in one transaction.   *)
DecideRows(S, signal) ==
    /\ S \cap Decided = {}
    /\ signal = "passive" => \A i \in S : cards[i].verdict # "contradict"
    /\ StillCandidates(S)
    /\ IF signal = "deny" THEN RejectCards(S) ELSE EnactCards(S)
    /\ Record(S, signal)
    /\ UNCHANGED <<lock, req, shown, flow>>

Decide(i, signal) == cards[i].birthplace # "curator" /\ DecideRows({i}, signal)

(* decide_batch: cards that are no longer pending are passed over.         *)
BatchRows(batch) ==
    {i \in DOMAIN cards : cards[i].batch = batch /\ cards[i].birthplace \in {"seed", "symphony"}}

DecideBatch(batch, signal) ==
    LET S == {i \in BatchRows(batch) : cards[i].state = "pending"} IN
    /\ S # {} /\ signal # "passive"
    /\ DecideRows(S, signal)

-----------------------------------------------------------------------------
(* _decide_curator_row: explicit only, and only while the candidate is at  *)
(* the revision the curator judged.                                        *)
(* Fault: the revision the curator judged is not compared.                 *)
CuratorPending(i, signal) ==
    /\ cards[i].birthplace = "curator" /\ i \notin Decided
    /\ signal # "passive"

CuratorCurrent(i, signal) ==
    /\ cards[i].birthplace = "curator" /\ i \notin Decided
    /\ signal # "passive"
    /\ heads[cards[i].candidate].revision = cards[i].judged

CuratorDecided(i, signal) ==
    /\ CuratorCurrent(i, signal)
    /\ Record({i}, signal)
    /\ UNCHANGED <<lock, req, shown, flow>>

CuratorDeny(i) ==
    LET m == cards[i].candidate IN
    /\ CuratorDecided(i, "deny")
    /\ IF heads[m].status = "candidate"
       THEN Write(None, Only(m, Change([heads[m] EXCEPT !.status = "tombstoned"], "rejected")))
       ELSE UNCHANGED <<heads, history>>
    /\ UNCHANGED edges

Activated(m, amended) ==
    [heads[m] EXCEPT !.status = "active", !.body = IF amended = Keep THEN @ ELSE amended]

(* The replacement keeps its own label: a taken one aborts the decision.   *)
CuratorReplace(i, amended) ==
    LET m == cards[i].candidate IN
    /\ CuratorDecided(i, "approve")
    /\ cards[i].verdict \in Replacing /\ heads[m].status = "candidate"
    /\ TargetsStand({i})
    /\ Write(None, [n \in {m} \cup Retired(i) |->
          IF n = m THEN Change(Activated(m, amended), "activate")
          ELSE Change([heads[n] EXCEPT !.status = "tombstoned"], cards[i].verdict)])
    /\ edges' = edges \cup VerdictEdges(i)

CuratorContradict(i) ==
    /\ CuratorDecided(i, "approve")
    /\ cards[i].verdict = "contradict" /\ cards[i].candidate \in Active
    /\ TargetsStand({i})
    /\ VerdictEdges(i) \cap edges = {}
    /\ edges' = edges \cup VerdictEdges(i)
    /\ UNCHANGED <<heads, history>>

CuratorRetire(i) ==
    LET m == cards[i].candidate IN
    /\ CuratorDecided(i, "approve")
    /\ cards[i].verdict = "retire"
    /\ Write(None, Only(m, Change([heads[m] EXCEPT !.status = "tombstoned"], "retire")))
    /\ UNCHANGED edges

CuratorKeywords(i) ==
    LET m == cards[i].candidate IN
    /\ CuratorDecided(i, "approve")
    /\ cards[i].verdict = "keyword_repair"
    /\ Write(None, Only(m, Change(heads[m], "keyword-repair")))
    /\ UNCHANGED edges

(* enact_curator_split: the children hang off the source's tombstone.      *)
CuratorSplit(i, left, right) ==
    LET m == cards[i].candidate
        up == <<m, heads[m].revision + 1>>
        child(d) == Root(heads[m].principal, d.label, d.body, "active", Inherited(m), up,
                         "curator-child") IN
    /\ CuratorDecided(i, "approve")
    /\ cards[i].verdict = "split" /\ m \in Active
    /\ left.label # right.label /\ left.body # right.body
    /\ \E x, y \in Fresh :
          /\ x # y
          /\ Write([n \in {x, y} |-> child(IF n = x THEN left ELSE right)],
                   Only(m, Change([heads[m] EXCEPT !.status = "tombstoned"], "split-source")))
          /\ edges' = edges \cup Siblings({x, y})

-----------------------------------------------------------------------------
QueueInit == Init /\ flow = [w \in Worker |-> Idle]

WorkerNext(w) ==
    \/ \E p \in Principal, d \in Proposals : \E T \in Implicable(p, d.verdict) :
          Extract(w, p, d, T)
    \/ \E p \in Principal, doc \in Documents :
          \E implicated \in [DOMAIN doc.children -> {T \in SUBSET Owned(p) : Cardinality(T) <= MaxTargets}] :
              Seed(w, p, doc, implicated)
    \/ SeedSource(w)
    \/ DraftCheck(w)
    \/ CandidateInsert(w)
    \/ EnqueueCheck(w)
    \/ CardInsert(w)
    \/ Discard(w)
    \/ LoopEnd(w)
    \/ \E p \in Principal, r \in Repairs, m \in Active : \E T \in SUBSET Active :
          CuratorDiagnose(w, p, r, m, T)
    \/ CuratorCandidate(w)
    \/ CuratorJudge(w)
    \/ CuratorCard(w)
    \/ WorkerCrash(w)

DecideNext ==
    \/ \E i \in DOMAIN cards, signal \in Signal : Decide(i, signal)
    \/ \E b \in Batch, signal \in Signal : DecideBatch(b, signal)
    \/ \E i \in DOMAIN cards :
          \/ CuratorDeny(i)
          \/ \E a \in Amendments \cup {Keep} : CuratorReplace(i, a)
          \/ CuratorContradict(i)
          \/ CuratorRetire(i)
          \/ CuratorKeywords(i)
          \/ \E d, e \in Drafts : CuratorSplit(i, d, e)

(* Injection is left to MemoryNext: to the queue its head writes are those *)
(* of a PATCH, a new revision and perhaps another status.                  *)
QueueNext ==
    \/ (\E c \in Client : HandlerNext(c)) /\ UNCHANGED flow
    \/ \E w \in Worker : WorkerNext(w)
    \/ DecideNext

QueueSpec == QueueInit /\ [][QueueNext]_queueVars

QueueTypes ==
    /\ MemoryTypes
    /\ cards \in Seq(Card)
    /\ decisions \subseteq Decision
    /\ flow \in [Worker -> Flow]

(***************************************************************************)
(* A card and its decisions never part: a pending card has no decision, a  *)
(* decided one has exactly one, of the kind its state says, whatever mix   *)
(* of single, batch and passive decisions and replays was sent             *)
(* (_decide_row, decide_batch).                                            *)
(***************************************************************************)
DecisionsMatchCards ==
    /\ Decided \subseteq DOMAIN cards
    /\ \A i \in DOMAIN cards :
        LET signals == {d.signal : d \in {d \in decisions : d.item = i}} IN
        CASE cards[i].state = "pending" -> signals = {}
          [] cards[i].state = "approved" -> signals \in {{"approve"}, {"passive"}}
          [] cards[i].state = "rejected" -> signals = {"deny"}

(***************************************************************************)
(* What an approval promised was done, and nothing else was: an approved   *)
(* merge, supersede or contradict card has its edge to every target, each  *)
(* replaced target was retired under that verdict, and there is no verdict *)
(* edge without such a card (_enact_targets).                              *)
(***************************************************************************)
Promised(i, t, type) ==
    /\ cards[i].state = "approved" /\ t \in cards[i].targets
    /\ type = EdgeFor(cards[i].verdict)

VerdictsEnacted ==
    /\ \A i \in DOMAIN cards :
        /\ cards[i].state = "approved"
        /\ cards[i].verdict \in Replacing \cup {"contradict"}
        => \A t \in cards[i].targets :
            /\ \E e \in edges : /\ e.from = cards[i].candidate /\ e.to = t
                                /\ Promised(i, t, e.type)
            /\ cards[i].verdict \in Replacing
               => \E k \in DOMAIN history[t] : history[t][k].reason = cards[i].verdict
    /\ \A e \in edges : e.type # "relates_to" =>
        \E i \in DOMAIN cards :
            /\ cards[i].verdict \in Replacing \cup {"contradict"}
            /\ cards[i].candidate = e.from /\ Promised(i, e.to, e.type)

(***************************************************************************)
(* No verdict loses a memory: a step that retires an active memory as      *)
(* merged or superseded activates, in the same step, the candidate of a    *)
(* card that names it as a target, so the text the owner approved in its   *)
(* place is there the moment it goes.                                      *)
(***************************************************************************)
RetiredBy(m) == history'[m][heads'[m].revision].reason

ReplacedAtOnce ==
    \A m \in Active :
        /\ heads'[m].revision > heads[m].revision
        /\ heads'[m].status = "tombstoned" /\ RetiredBy(m) \in Replacing
        => \E i \in DOMAIN cards :
            /\ m \in cards[i].targets
            /\ cards[i].state = "pending" /\ cards'[i].state = "approved"
            /\ heads'[cards[i].candidate].status = "active"

NothingLostByVerdict == [][ReplacedAtOnce]_queueVars

(***************************************************************************)
(* Queue-aware dedup (docs/SPEC.md, closure C2): two pending thread or seed*)
(* cards of one owner whose candidates are as they were extracted are never*)
(* hard duplicates, however their extractions interleaved.                 *)
(***************************************************************************)
Offered(i) ==
    /\ cards[i].state = "pending" /\ cards[i].birthplace \in {"thread", "seed"}
    /\ heads[cards[i].candidate].status = "candidate"
    /\ heads[cards[i].candidate].revision = 1

QueueHoldsNoCopies ==
    \A i, j \in DOMAIN cards :
        i # j /\ Offered(i) /\ Offered(j) => ~Twins(cards[i].candidate, cards[j].candidate)

(***************************************************************************)
(* Consent: an active memory was born active by a write of its owner, or   *)
(* patched by one, or one of its cards was approved.  No retry, batch,     *)
(* crash or race activates what was only proposed.                         *)
(***************************************************************************)
ConsentPrecedesActivation ==
    \A m \in Active :
        \/ history[m][1].reason \in {"created", "split-child", "curator-child"}
        \/ \E k \in DOMAIN history[m] : history[m][k].reason = "patched"
        \/ \E i \in DOMAIN cards : cards[i].candidate = m /\ cards[i].state = "approved"

(***************************************************************************)
(* The same, step by step, for whatever a PATCH did while a card waited: a *)
(* memory becomes active only by its birth, by a PATCH, or by the approval *)
(* of a pending card while it is still the candidate the card offered.  An *)
(* approval never brings back what the owner removed in the meantime       *)
(* (_decide_row, _decide_curator_row).                                     *)
(***************************************************************************)
ConsentGiven ==
    \A m \in Active' \ Active :
        \/ m \notin Units /\ history'[m][1].reason \in {"created", "split-child", "curator-child"}
        \/ m \in Units /\ history'[m][heads'[m].revision].reason = "patched"
        \/ /\ m \in Units /\ heads[m].status = "candidate"
           /\ \E i \in DOMAIN cards :
                 /\ cards[i].candidate = m
                 /\ cards[i].state = "pending" /\ cards'[i].state = "approved"

OnlyConsentActivates == [][ConsentGiven]_queueVars

(***************************************************************************)
(* A curator's card is enacted on the very revision the curator judged:    *)
(* the row that enacts it comes right after that revision, however many    *)
(* patches and other verdicts raced it (_decide_curator_row).              *)
(***************************************************************************)
CuratorReason(verdict) ==
    CASE verdict \in Replacing -> "activate"
      [] verdict = "retire" -> "retire"
      [] verdict = "keyword_repair" -> "keyword-repair"
      [] verdict = "split" -> "split-source"

CuratorActsOnJudged ==
    \A i \in DOMAIN cards :
        /\ cards[i].birthplace = "curator" /\ cards[i].state = "approved"
        /\ cards[i].verdict # "contradict"
        => LET row == history[cards[i].candidate] IN
           /\ cards[i].judged + 1 \in DOMAIN row
           /\ row[cards[i].judged + 1].reason = CuratorReason(cards[i].verdict)

-----------------------------------------------------------------------------
(* Claims of the repository's documents and tests that the code does not   *)
(* keep; each is refuted by a run of its own.                              *)

(* tests/test_queue_api.py: "rejection survives a renamed re-offer": no    *)
(* candidate is admitted with a body the owner has rejected                *)
(* (create_candidate).                                                     *)
RejectedNotAdmitted ==
    \A m \in DOMAIN heads' \ Units :
        history'[m][1].reason \in {"extracted", "seed-child"}
        => ~RejectedBody(heads'[m].principal, heads'[m].body)

RejectedStaysOut == [][RejectedNotAdmitted]_queueVars

(* docs/SPEC.md: a seed "creates one [...] source head" and reusing a batch*)
(* UID "returns its existing batch without re-splitting" (ingest_seed).    *)
SplitOnce ==
    \A m, n \in Units :
        /\ history[m][1].reason = "seed-source" /\ history[n][1].reason = "seed-source"
        /\ heads[m].origin = heads[n].origin
        => m = n
=============================================================================
