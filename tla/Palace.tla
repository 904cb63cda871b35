------------------------------- MODULE Palace -------------------------------
(***************************************************************************)
(* The tables of the Memory Palace (src/spine/db/models.py) and the two    *)
(* ways a head is ever written (src/spine/db/memory.py and _insert_root of *)
(* src/spine/memory/service.py).                                           *)
(*                                                                         *)
(* A Postgres transaction that takes its decisions under locks it keeps to *)
(* its commit is one step.  Its head writes are the pair (ins, upd) given  *)
(* to Write: the roots it inserts and the heads it updates by              *)
(* compare-and-swap, each at most once, as cas_update_memory_unit asks.    *)
(* Columns no operation decides on (keywords, kind, pin, paths, times) are *)
(* left out: a write that only touches those is a revision with the same   *)
(* body, label and status.                                                 *)
(***************************************************************************)
EXTENDS Integers, Sequences, FiniteSets

CONSTANTS
    Mem,            \* memory ids
    Principal,      \* owners; every memory, label and lock belongs to one
    Name,           \* what a writer may propose as a label
    SourceName,     \* the fixed name a split or seed source is stored under
    MaxQualifier,   \* how often approval_label may have to qualify a name
    Body,           \* memory texts
    Band,           \* the dedup band of two bodies' cosine score
    Origin,         \* birth stamps: run attempts and seed batches
    NoOrigin,       \* a memory with neither
    MaxEdits        \* bound: patches and injections stop at this many revisions

ASSUME BandAssumption ==
    /\ Band \in [Body \X Body -> {"distinct", "similar", "duplicate"}]
    /\ \A b \in Body : Band[<<b, b>>] = "duplicate"
    /\ \A b, d \in Body : Band[<<b, d>>] = Band[<<d, b>>]

ASSUME BoundAssumption == MaxQualifier \in Nat /\ MaxEdits \in Nat

ASSUME OriginAssumption == NoOrigin \notin Origin

ASSUME NameAssumption == SourceName \in Name

VARIABLES
    heads,      \* memory_unit: the row of every id that has one
    history,    \* memory_revision: each memory's rows in insertion order
    edges,      \* memory_edge
    cards,      \* approval_queue_item, in item_uid order
    decisions,  \* approval_decision
    lock        \* principals whose advisory lock a transaction holds

tables == <<heads, history, edges, cards, decisions>>

-----------------------------------------------------------------------------
Status == {"active", "candidate", "staged", "quarantined", "tombstoned"}

(* A label is a name and the number of the qualifier approval_label put on *)
(* it, 0 for the name as proposed.                                         *)
Label == Name \X (0 .. MaxQualifier)

UnitRow ==
    [principal : Principal, label : Label, body : Body, status : Status,
     revision : Nat \ {0}, reinforcements : Nat, origin : Origin \cup {NoOrigin}]

(* rev_uid: the memory and the place of the row among its rows.            *)
RevUid == Mem \X (Nat \ {0})
NoParent == <<>>

Reason == {"created", "split-source", "split-child", "curator-child", "seed-source",
           "seed-child", "extracted", "proposed", "staged", "patched", "reinforced",
           "injected", "outcome", "approved", "rejected", "merge", "supersede",
           "invalid-target", "activate", "retire", "keyword-repair",
           "winner", "loser"}

Revision == [revision : Nat \ {0}, parent : RevUid \cup {NoParent},
             body : Body, label : Label, reason : Reason]

EdgeType == {"merged_from", "supersedes", "contradicts", "relates_to"}
Edge == [from : Mem, to : Mem, type : EdgeType]

Units == DOMAIN heads
Fresh == Mem \ Units
Active == {m \in Units : heads[m].status = "active"}
Owned(p) == {m \in Units : heads[m].principal = p}

(* The revisions that are not roots; MaxEdits bounds how many patches and  *)
(* injections may start while there are fewer.                             *)
Edits == UNION {{m} \X (2 .. heads[m].revision) : m \in Units}
MayEdit == Cardinality(Edits) < MaxEdits

-----------------------------------------------------------------------------
(* The rows of the ins and upd arguments of Write.                         *)
Root(p, l, b, s, o, parent, reason) ==
    [head |-> [principal |-> p, label |-> l, body |-> b, status |-> s,
               revision |-> 1, reinforcements |-> 0, origin |-> o],
     parent |-> parent, reason |-> reason]

Change(h, reason) == [head |-> h, reason |-> reason]
None == [m \in {} |-> m]
Only(m, row) == [x \in {m} |-> row]

(* The rows _cas_update_memory_unit finds at the expected revision.        *)
ParentRows(m) ==
    {i \in DOMAIN history[m] : history[m][i].revision = heads[m].revision}

HeadsAfter(ins, upd) ==
    [m \in Units \cup DOMAIN ins |->
        IF m \in DOMAIN ins THEN ins[m].head
        ELSE IF m \in DOMAIN upd
        THEN [upd[m].head EXCEPT !.revision = heads[m].revision + 1]
        ELSE heads[m]]

RootRow(r) ==
    [revision |-> 1, parent |-> r.parent, body |-> r.head.body,
     label |-> r.head.label, reason |-> r.reason]

(* Fault: the row is written from the head as it was before the change.    *)
CasRowBefore(m, u) ==
    [revision |-> heads[m].revision,
     parent |-> <<m, CHOOSE i \in ParentRows(m) : TRUE>>,
     body |-> heads[m].body, label |-> heads[m].label, reason |-> u.reason]

CasRow(m, u) ==
    [revision |-> heads[m].revision + 1,
     parent |-> <<m, CHOOSE i \in ParentRows(m) : TRUE>>,
     body |-> u.head.body, label |-> u.head.label, reason |-> u.reason]

HistoryAfter(ins, upd) ==
    [m \in Mem |->
        IF m \in DOMAIN ins THEN Append(history[m], RootRow(ins[m]))
        ELSE IF m \in DOMAIN upd THEN Append(history[m], CasRow(m, upd[m]))
        ELSE history[m]]

(* The partial unique index memory_unit_active_label over a head table.    *)
ActiveLabelIndex(hs) ==
    \A m, n \in DOMAIN hs :
        /\ m # n
        /\ hs[m].status = "active" /\ hs[n].status = "active"
        /\ hs[m].principal = hs[n].principal
        => hs[m].label # hs[n].label

(* What Postgres and the lineage check accept; anything else raises and    *)
(* rolls the transaction back.                                             *)
Writable(ins, upd) ==
    /\ \A m \in DOMAIN upd : Cardinality(ParentRows(m)) = 1
    /\ ActiveLabelIndex(HeadsAfter(ins, upd))

Write(ins, upd) ==
    /\ Writable(ins, upd)
    /\ heads' = HeadsAfter(ins, upd)
    /\ history' = HistoryAfter(ins, upd)

-----------------------------------------------------------------------------
(* Reads the services share, and the advisory lock of a principal, which a *)
(* transaction waits for and keeps to its end.                             *)
LockShared(p) == TRUE       \* Fault: the lock keeps no one out

LockFree(p) == p \notin lock

FindActiveLabel(p, l) == {m \in Active \cap Owned(p) : heads[m].label = l}

(* Fault: only the active corpus is searched, whatever was asked for.      *)
DedupActive(p, b, statuses, excluded) ==
    {m \in Owned(p) \ excluded :
        heads[m].status = "active" /\ Band[<<b, heads[m].body>>] # "distinct"}

DedupMatches(p, b, statuses, excluded) ==
    {m \in Owned(p) \ excluded :
        heads[m].status \in statuses /\ Band[<<b, heads[m].body>>] # "distinct"}

Duplicates(p, b, matches) ==
    {m \in matches : Band[<<b, heads[m].body>>] = "duplicate"}

RejectedBody(p, b) ==
    \E i \in DOMAIN cards :
        /\ cards[i].state = "rejected" /\ cards[i].principal = p
        /\ LET m == cards[i].candidate IN
              /\ heads[m].principal = p
              /\ heads[m].status = "tombstoned" /\ heads[m].body = b

-----------------------------------------------------------------------------
EmptyTables ==
    /\ heads = None
    /\ history = [m \in Mem |-> <<>>]
    /\ edges = {}
    /\ cards = <<>>
    /\ decisions = {}
    /\ lock = {}

(* The row types of the memory tables; the queue's are in ApprovalQueue.   *)
MemoryTypeOK ==
    /\ Units \subseteq Mem
    /\ heads \in [Units -> UnitRow]
    /\ history \in [Mem -> Seq(Revision)]
    /\ edges \subseteq Edge
    /\ lock \subseteq Principal

(***************************************************************************)
(* Lineage.  A head and its history never part: a memory with a head at    *)
(* revision n has exactly the rows 1..n, in order, each the child of the   *)
(* one before, the last carrying the head's body and label; a memory       *)
(* without a head has none.  This is what lets _cas_update_memory_unit     *)
(* find exactly one parent row, whatever mix of creates, patches,          *)
(* injections and verdicts wrote the head.                                 *)
(***************************************************************************)
LineageComplete ==
    /\ \A m \in Mem \ Units : history[m] = <<>>
    /\ \A m \in Units :
        /\ Len(history[m]) = heads[m].revision
        /\ \A i \in DOMAIN history[m] :
            /\ history[m][i].revision = i
            /\ i > 1 => history[m][i].parent = <<m, i - 1>>
        /\ history[m][heads[m].revision].body = heads[m].body
        /\ history[m][heads[m].revision].label = heads[m].label

(***************************************************************************)
(* The root of every memory is parentless, or the child of a revision row  *)
(* of another memory that exists (the split or seed source).               *)
(***************************************************************************)
RootsDescend ==
    \A m \in Units :
        LET up == history[m][1].parent IN
        up # NoParent => /\ up[1] \in Units \ {m}
                         /\ up[2] \in DOMAIN history[up[1]]

(***************************************************************************)
(* No reinforcement is lost or counted twice: a head's stats.reinforcements*)
(* is the number of remember/reinforce revisions in its history, though    *)
(* patch reads the stats before its transaction and writes them back in it.*)
(***************************************************************************)
ReinforcementsExact ==
    \A m \in Units :
        heads[m].reinforcements =
            Cardinality({i \in DOMAIN history[m] : history[m][i].reason = "reinforced"})

(***************************************************************************)
(* No twins: of two memories of one owner that were created or split off   *)
(* and never touched since, neither is a hard duplicate of the other,      *)
(* siblings of one split apart.  The checks read before the insert, so     *)
(* this is the advisory lock's doing.                                      *)
(***************************************************************************)
Untouched == {m \in Active : /\ heads[m].revision = 1
                             /\ history[m][1].reason \in {"created", "split-child"}}

Twins(m, n) ==
    /\ m # n /\ heads[m].principal = heads[n].principal
    /\ Band[<<heads[m].body, heads[n].body>>] = "duplicate"

NoTwinBirths ==
    \A m, n \in Untouched :
        Twins(m, n) => /\ history[m][1].parent # NoParent
                       /\ history[m][1].parent = history[n][1].parent
=============================================================================
