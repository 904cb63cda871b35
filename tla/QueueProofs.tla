---------------------------- MODULE QueueProofs ----------------------------
(***************************************************************************)
(* Proofs about the consent queue and what is built on it: ApprovalQueue,  *)
(* Portability and Symphony.  The memory tables are MemoryProofs' business;*)
(* what is added here is what a step means to cards, decisions and workers,*)
(* and at the end that the memory service keeps its promises beside them.  *)
(***************************************************************************)
EXTENDS Symphony, Portability, MemoryProofs, ProofBasics

(* The stages of the two kinds of worker.                                  *)
Drafting == {"source", "drafts", "embed", "enqueue", "card", "discard"}
Curating == {"diagnosed", "proposed", "judged"}
Carrying == {"enqueue", "card", "discard"}

(***************************************************************************)
(* The inductive invariant, part by part.                                  *)
(***************************************************************************)
(* A card's candidate is a memory of the card's owner.  What a curator     *)
(* judged is not an attempt's staged row, and what an extractor or a       *)
(* curator proposed no attempt of a run wrote.                             *)
Holds(hs, m, p) == m \in DOMAIN hs /\ hs[m].principal = p
Unstaged(hs, m, p) == Holds(hs, m, p) /\ hs[m].status # "staged"
Local(hs, m) == hs[m].origin \in Batch \cup {NoOrigin}

CardRefers(hs, c) ==
    /\ Holds(hs, c.candidate, c.principal)
    /\ c.birthplace = "curator" => Unstaged(hs, c.candidate, c.principal)
    /\ \/ c.birthplace \in {"thread", "seed"}
       \/ c.birthplace = "curator" /\ c.verdict \in Replacing
       => Local(hs, c.candidate)

CardsRefer == \A i \in DOMAIN cards : CardRefers(heads, cards[i])

(* What a worker carries from one transaction to the next is still there.  *)
DraftRefers(hs, f) ==
    /\ f.parent # NoParent => /\ Holds(hs, f.parent[1], f.principal)
                              /\ f.parent[2] <= hs[f.parent[1]].revision
    /\ f.at = "source" => f.batch \in Batch /\ f.source \in Body
    /\ f.at \in {"embed", "enqueue", "card", "discard"} => f.left # <<>>
    /\ f.at \in {"enqueue", "card", "discard"} => /\ Holds(hs, f.candidate, f.principal)
                                                  /\ Local(hs, f.candidate)

CurationRefers(hs, f) ==
    /\ Unstaged(hs, f.subject, f.principal)
    /\ f.at \in {"proposed", "judged"} => Unstaged(hs, f.candidate, f.principal)
    /\ f.at \in {"proposed", "judged"} /\ f.repair.action \in Replacing => Local(hs, f.candidate)

FlowRefers(hs, f) ==
    /\ f.at \in Drafting => DraftRefers(hs, f)
    /\ f.at \in Curating => CurationRefers(hs, f)

WorkersRefer == \A w \in Worker : FlowRefers(heads, flow[w])

(* A root's parent row is a row of the same owner.                         *)
Kinship ==
    \A m \in Units : LET up == history[m][1].parent IN
        up # NoParent => heads[up[1]].principal = heads[m].principal

LabelIndex == ActiveLabelIndex(heads)

(* Candidates as they were extracted.                                      *)
Newborn == {m \in Units : heads[m].status = "candidate" /\ heads[m].revision = 1}

(* m was admitted though it copies n, because it is to replace n: it has no*)
(* card, and a worker that is about to give it one names n as a target.    *)
Blocked(m, n) ==
    /\ \A i \in DOMAIN cards :
        cards[i].candidate = m => cards[i].birthplace \notin {"thread", "seed"}
    /\ \A w \in Worker :
        /\ flow[w].at \in Carrying /\ flow[w].candidate = m
        => n \in Head(flow[w].left).targets

CopiesBlocked ==
    /\ \A m, n \in Newborn : Twins(m, n) => Blocked(m, n) \/ Blocked(n, m)
    /\ \A w \in Worker :
        /\ flow[w].at = "card" => Head(flow[w].left).targets \subseteq Units \ Newborn
        /\ flow[w].at \in Curating => {flow[w].subject} \cup flow[w].others \subseteq Units \ Newborn

-----------------------------------------------------------------------------
(* What a step does to the memories, as the queue sees it: none goes, none *)
(* changes owner or origin or is staged anew, a changed one is a revision  *)
(* later, and the rows of its history stay where they are.                 *)
Evolves ==
    /\ Units \subseteq Units'
    /\ \A m \in Units :
        /\ heads'[m].principal = heads[m].principal /\ heads'[m].origin = heads[m].origin
        /\ heads'[m].status = "staged" => heads[m].status = "staged"
        /\ heads'[m].revision >= heads[m].revision
        /\ heads'[m].revision = heads[m].revision => heads'[m] = heads[m]
        /\ \A k \in DOMAIN history[m] :
              k \in DOMAIN history'[m] /\ history'[m][k] = history[m][k]
    /\ Kinship' /\ LabelIndex'

Owning(ins, upd) ==
    /\ \A m \in DOMAIN upd : /\ upd[m].head.principal = heads[m].principal
                             /\ upd[m].head.origin = heads[m].origin
                             /\ upd[m].head.status = "staged" => heads[m].status = "staged"
    /\ \A m \in DOMAIN ins : ins[m].parent # NoParent =>
          HeadsAfter(ins, upd)[ins[m].parent[1]].principal = ins[m].head.principal

LEMMA WriteEvolves ==
    ASSUME Inv, Kinship, NEW ins, NEW upd, Fit(ins, upd), Owning(ins, upd), Write(ins, upd)
    PROVE  Evolves
<1>0. /\ Rows /\ LineageComplete /\ RootsDescend
      /\ GoodInserts(ins) /\ GoodUpdates(upd)
  BY InvSound DEF Sound, Fit
<1>1. Units' = Units \cup DOMAIN ins
  BY WriteUnits
<1>2. ASSUME NEW m \in Units
      PROVE  /\ heads'[m].principal = heads[m].principal /\ heads'[m].origin = heads[m].origin
             /\ heads'[m].status = "staged" => heads[m].status = "staged"
             /\ heads'[m].revision >= heads[m].revision
             /\ heads'[m].revision = heads[m].revision => heads'[m] = heads[m]
             /\ \A k \in DOMAIN history[m] :
                   k \in DOMAIN history'[m] /\ history'[m][k] = history[m][k]
  <2>0. heads[m].revision \in Nat
    BY <1>0 DEF Rows, UnitRow
  <2>1. CASE m \in DOMAIN upd
    <3>1. /\ heads'[m].revision = heads[m].revision + 1
          /\ heads'[m].principal = upd[m].head.principal
          /\ heads'[m].origin = upd[m].head.origin
          /\ heads'[m].status = upd[m].head.status
          /\ DOMAIN history[m] = 1 .. heads[m].revision
          /\ DOMAIN history'[m] = 1 .. heads[m].revision + 1
          /\ \A k \in 1 .. heads[m].revision : history'[m][k] = history[m][k]
      BY <1>0, <2>1, UpdatedRow
    <3>2. /\ upd[m].head.principal = heads[m].principal /\ upd[m].head.origin = heads[m].origin
          /\ upd[m].head.status = "staged" => heads[m].status = "staged"
      BY <2>1 DEF Owning
    <3>. QED  BY <2>0, <3>1, <3>2
  <2>2. CASE m \notin DOMAIN upd
    <3>1. heads'[m] = heads[m] /\ history'[m] = history[m]
      BY <1>0, <2>2, UntouchedRow
    <3>. QED  BY <2>0, <3>1
  <2>. QED  BY <2>1, <2>2
<1>3. LabelIndex'
  <2>1. ActiveLabelIndex(HeadsAfter(ins, upd)) /\ heads' = HeadsAfter(ins, upd)
    BY DEF Write, Writable
  <2>2. ActiveLabelIndex(heads')
    BY <2>1
  <2>. QED  BY <2>2 DEF LabelIndex, ActiveLabelIndex
<1>4. Kinship'
  <2>. SUFFICES ASSUME NEW m \in Units', history'[m][1].parent # NoParent
                PROVE  heads'[history'[m][1].parent[1]].principal = heads'[m].principal
    BY DEF Kinship
  <2>1. CASE m \in DOMAIN ins
    <3>1. heads'[m] = ins[m].head /\ history'[m][1].parent = ins[m].parent
      BY <1>0, <2>1, InsertedRow
    <3>. QED  BY <2>1, <3>1 DEF Owning, Write
  <2>2. CASE m \in Units
    <3>1. 1 \in DOMAIN history[m]
      BY <1>0, <2>2 DEF Rows, LineageComplete, UnitRow
    <3>2. history'[m][1] = history[m][1]
      BY <1>2, <2>2, <3>1
    <3>3. /\ history[m][1].parent[1] \in Units
          /\ heads[history[m][1].parent[1]].principal = heads[m].principal
      BY <1>0, <2>2, <3>2 DEF RootsDescend, Kinship
    <3>. QED  BY <1>2, <2>2, <3>2, <3>3
  <2>. QED  BY <1>1, <2>1, <2>2
<1>. QED  BY <1>1, <1>2, <1>3, <1>4 DEF Evolves

LEMMA StillEvolves ==
    ASSUME Inv, Kinship, LabelIndex, UNCHANGED <<heads, history>>
    PROVE  Evolves
<1>1. Units' = Units
  BY DEF Units
<1>2. Kinship' /\ LabelIndex'
  BY <1>1 DEF Kinship, LabelIndex, ActiveLabelIndex
<1>3. \A m \in Units : heads[m].revision \in Nat
  BY Before DEF Rows, UnitRow
<1>. QED  BY <1>1, <1>2, <1>3 DEF Evolves

-----------------------------------------------------------------------------
(* A step that consents to nothing: what it inserts active its owner wrote *)
(* and no attempt of a run did, a memory changes its status only as its    *)
(* owner patched it, or to be tombstoned if no attempt wrote it, and none  *)
(* is retired in favour of another.                                        *)
Births == {"created", "split-child", "curator-child"}

Gentle ==
    /\ \A m \in Units' \ Units :
        /\ heads'[m].origin \in Batch \cup {NoOrigin}
        /\ heads'[m].status = "active" => history'[m][1].reason \in Births
    /\ \A m \in Units : heads'[m].revision > heads[m].revision =>
        /\ heads'[m].revision \in DOMAIN history'[m]
        /\ history'[m][heads'[m].revision].reason \notin Replacing
        /\ \/ heads'[m].status = heads[m].status
           \/ heads'[m].status = "tombstoned" /\ Local(heads, m)
           \/ /\ history'[m][heads'[m].revision].reason = "patched"
              /\ heads'[m].status \in PublicStatus

Calm(ins, upd) ==
    /\ Owning(ins, upd)
    /\ \A m \in DOMAIN ins :
        /\ ins[m].head.origin \in Batch \cup {NoOrigin}
        /\ ins[m].head.status = "active" => ins[m].reason \in Births
    /\ \A m \in DOMAIN upd :
        /\ upd[m].reason \notin Replacing
        /\ \/ upd[m].head.status = heads[m].status
           \/ upd[m].head.status = "tombstoned" /\ Local(heads, m)
           \/ upd[m].reason = "patched" /\ upd[m].head.status \in PublicStatus

LEMMA CalmWrite ==
    ASSUME Inv, Kinship, NEW ins, NEW upd, Fit(ins, upd), Calm(ins, upd), Write(ins, upd)
    PROVE  Evolves /\ Gentle
<1>0. Rows /\ LineageComplete /\ GoodInserts(ins) /\ GoodUpdates(upd)
  BY InvSound DEF Sound, Fit
<1>1. Evolves
  BY WriteEvolves DEF Calm
<1>2. ASSUME NEW m \in Units' \ Units
      PROVE  /\ heads'[m].origin \in Batch \cup {NoOrigin}
             /\ heads'[m].status = "active" => history'[m][1].reason \in Births
  <2>1. m \in DOMAIN ins
    BY WriteUnits
  <2>2. heads'[m] = ins[m].head /\ history'[m][1].reason = ins[m].reason
    BY <1>0, <2>1, InsertedRow
  <2>. QED  BY <1>2, <2>1, <2>2 DEF Calm
<1>3. ASSUME NEW m \in Units, heads'[m].revision > heads[m].revision
      PROVE  /\ heads'[m].revision \in DOMAIN history'[m]
             /\ history'[m][heads'[m].revision].reason \notin Replacing
             /\ \/ heads'[m].status = heads[m].status
                \/ heads'[m].status = "tombstoned" /\ Local(heads, m)
                \/ /\ history'[m][heads'[m].revision].reason = "patched"
                   /\ heads'[m].status \in PublicStatus
  <2>0. heads[m].revision \in Nat
    BY <1>0 DEF Rows, UnitRow
  <2>1. m \in DOMAIN upd
    BY <1>0, <1>3, <2>0, UntouchedRow
  <2>2. /\ heads'[m].revision = heads[m].revision + 1
        /\ heads'[m].status = upd[m].head.status
        /\ DOMAIN history'[m] = 1 .. heads[m].revision + 1
        /\ history'[m][heads[m].revision + 1].reason = upd[m].reason
    BY <1>0, <2>1, UpdatedRow
  <2>. QED  BY <2>0, <2>1, <2>2 DEF Calm
<1>. QED  BY <1>1, <1>2, <1>3 DEF Gentle

LEMMA StillGentle ==
    ASSUME Inv, Kinship, LabelIndex, UNCHANGED <<heads, history>>
    PROVE  Evolves /\ Gentle
<1>1. Units' = Units
  BY DEF Units
<1>2. \A m \in Units : heads[m].revision \in Nat
  BY Before DEF Rows, UnitRow
<1>. QED  BY <1>1, <1>2, StillEvolves DEF Gentle

(* The writes the steps are made of.                                       *)
LEMMA LoneRootCalm ==
    ASSUME NEW m, NEW p, NEW l, NEW b, NEW s, NEW o, NEW reason,
           o \in Batch \cup {NoOrigin}, s = "active" => reason \in Births
    PROVE  Calm(Only(m, Root(p, l, b, s, o, NoParent, reason)), None)
<1> DEFINE ins == Only(m, Root(p, l, b, s, o, NoParent, reason))
<1>1. DOMAIN ins = {m} /\ ins[m] = Root(p, l, b, s, o, NoParent, reason)
  BY DEF Only
<1>2. /\ ins[m].head.status = s /\ ins[m].head.origin = o
      /\ ins[m].parent = NoParent /\ ins[m].reason = reason
  BY <1>1 DEF Root
<1>3. DOMAIN None = {}
  BY DEF None
<1>. HIDE DEF ins
<1>. QED  BY <1>1, <1>2, <1>3 DEF Calm, Owning, ins

LEMMA LoneChangeCalm ==
    ASSUME NEW m \in Units, NEW h, NEW reason,
           h.principal = heads[m].principal, h.origin = heads[m].origin,
           reason \notin Replacing,
           \/ h.status = heads[m].status
           \/ h.status = "tombstoned" /\ Local(heads, m)
           \/ reason = "patched" /\ h.status \in PublicStatus
    PROVE  Calm(None, Only(m, Change(h, reason)))
<1> DEFINE upd == Only(m, Change(h, reason))
<1>1. DOMAIN upd = {m} /\ upd[m].head = h /\ upd[m].reason = reason
  BY DEF Only, Change
<1>2. DOMAIN None = {}
  BY DEF None
<1>. HIDE DEF upd
<1>. QED  BY <1>1, <1>2 DEF Calm, Owning, PublicStatus, upd

LEMMA FamilyCalm ==
    ASSUME NEW r, NEW s, NEW x, NEW y, s # x, s # y
    PROVE  Calm(Family(r, s, x, y), None)
<1> DEFINE ins == Family(r, s, x, y)
<1>1. DOMAIN ins = {s, x, y} /\ DOMAIN None = {}
  BY DEF Family, None
<1>2. /\ ins[s].head.principal = r.principal /\ ins[s].head.status = "tombstoned"
      /\ ins[s].head.origin = NoOrigin
      /\ ins[s].parent = NoParent
  BY DEF Family, Root
<1>3. \A m \in {x, y} :
        /\ ins[m].head.principal = r.principal /\ ins[m].head.origin = NoOrigin
        /\ ins[m].parent = <<s, 1>> /\ ins[m].reason = "split-child"
  BY DEF Family, Root, SourceRow
<1>. HIDE DEF ins
<1>4. HeadsAfter(ins, None)[s] = ins[s].head
  BY <1>1 DEF HeadsAfter
<1>5. \A m \in {s, x, y} : ins[m].parent # NoParent =>
          HeadsAfter(ins, None)[ins[m].parent[1]].principal = ins[m].head.principal
  BY <1>2, <1>3, <1>4
<1>6. \A m \in {s, x, y} : /\ ins[m].head.origin = NoOrigin
                           /\ ins[m].head.status = "active" => ins[m].reason \in Births
  BY <1>2, <1>3 DEF Births
<1>. QED  BY <1>1, <1>5, <1>6 DEF Calm, Owning, ins

-----------------------------------------------------------------------------
(* The request handlers mean nothing to the queue.                         *)
Relating == edges \subseteq edges' /\ \A e \in edges' \ edges : e.type = "relates_to"
NoProposal == \A m \in Units' \ Units : heads'[m].status # "candidate"

LEMMA SiblingsRelate ==
    ASSUME NEW S PROVE \A e \in Siblings(S) : e.type = "relates_to"
BY DEF Siblings

LEMMA InsertsNoProposal ==
    ASSUME Inv, NEW ins, NEW upd, Fit(ins, upd), Write(ins, upd),
           \A m \in DOMAIN ins : ins[m].head.status # "candidate"
    PROVE  NoProposal
<1>0. Rows /\ LineageComplete /\ GoodInserts(ins) /\ GoodUpdates(upd)
  BY InvSound DEF Sound, Fit
<1>. QED  BY <1>0, WriteUnits, InsertedRow DEF NoProposal

LEMMA StillNoProposal ==
    ASSUME UNCHANGED <<heads, history>> PROVE NoProposal
BY DEF NoProposal, Units

LEMMA CreateInsertGentle ==
    ASSUME Inv, Kinship, LabelIndex, NEW c \in Client, CreateInsert(c)
    PROVE  Evolves /\ Gentle /\ NoProposal /\ Relating
<1> DEFINE r == req[c]
           ins(m) == Only(m, Root(r.principal, r.draft.label, r.draft.body, "active",
                                  NoOrigin, NoParent, "created"))
<1>0. Relating
  BY DEF CreateInsert, Relating
<1>1. r \in Request /\ r.at = "create"
  BY Before DEF CreateInsert
<1>2. r.principal \in Principal /\ r.draft \in Draft
  BY <1>1 DEF Request
<1>3. CASE UNCHANGED <<heads, history>>
  BY <1>0, <1>3, StillGentle, StillNoProposal
<1>4. CASE \E m \in Fresh : Write(ins(m), None)
  <2>1. PICK m \in Fresh : Write(ins(m), None)
    BY <1>4
  <2>2. r.draft.label \in Label /\ r.draft.body \in Body
    BY <1>2, PlainLabels DEF Draft
  <2>3. Fit(ins(m), None)
    BY <1>2, <2>2, Before, LoneRootFit DEF Status, Reason
  <2>4. Calm(ins(m), None)
    BY LoneRootCalm DEF Births
  <2>5. \A x \in DOMAIN ins(m) : ins(m)[x].head.status = "active"
    BY DEF Only, Root
  <2>. HIDE DEF ins
  <2>6. NoProposal
    BY <2>1, <2>3, <2>5, InsertsNoProposal
  <2>. QED  BY <1>0, <2>1, <2>3, <2>4, <2>6, CalmWrite
<1>. QED  BY <1>3, <1>4 DEF CreateInsert

LEMMA SplitInsertGentle ==
    ASSUME Inv, Kinship, LabelIndex, NEW c \in Client, SplitInsert(c)
    PROVE  Evolves /\ Gentle /\ NoProposal /\ Relating
<1> DEFINE r == req[c]
<1>1. r \in Request /\ r.at = "split"
  BY Before DEF SplitInsert
<1>2. CASE UNCHANGED <<heads, history, edges>>
  BY <1>2, StillGentle, StillNoProposal DEF Relating
<1>3. CASE \E s, x, y \in Fresh :
             /\ s # x /\ s # y /\ x # y
             /\ Write(Family(r, s, x, y), None)
             /\ edges' = edges \cup Siblings({x, y})
  <2>1. PICK s \in Fresh, x \in Fresh, y \in Fresh :
             /\ s # x /\ s # y /\ x # y
             /\ Write(Family(r, s, x, y), None)
             /\ edges' = edges \cup Siblings({x, y})
    BY <1>3
  <2>2. Fit(Family(r, s, x, y), None)
    BY <1>1, <2>1, Before, FamilyFit
  <2>3. Calm(Family(r, s, x, y), None)
    BY <2>1, FamilyCalm
  <2>4. \A m \in DOMAIN Family(r, s, x, y) :
          Family(r, s, x, y)[m].head.status # "candidate"
    BY DEF Family, Root
  <2>5. NoProposal
    BY <2>1, <2>2, <2>4, InsertsNoProposal
  <2>6. Relating
    BY <2>1, SiblingsRelate DEF Relating
  <2>. QED  BY <2>1, <2>2, <2>3, <2>5, <2>6, CalmWrite
<1>. QED  BY <1>2, <1>3 DEF SplitInsert

LEMMA CasGentle ==
    ASSUME Inv, Kinship, LabelIndex, NEW m \in Units, NEW expected, NEW h \in UnitRow,
           NEW reason \in Reason \ Replacing,
           heads[m].revision = expected
              => h.reinforcements = IF reason = "reinforced" THEN heads[m].reinforcements + 1
                                    ELSE heads[m].reinforcements,
           h.principal = heads[m].principal, h.origin = heads[m].origin,
           \/ h.status = heads[m].status
           \/ reason = "patched" /\ h.status \in PublicStatus,
           CasOrRefuse(m, expected, Change(h, reason))
    PROVE  Evolves /\ Gentle /\ NoProposal
<1>1. CASE UNCHANGED <<heads, history>>
  BY <1>1, StillGentle, StillNoProposal
<1>2. CASE heads[m].revision = expected /\ Write(None, Only(m, Change(h, reason)))
  <2>1. Fit(None, Only(m, Change(h, reason)))
    BY <1>2, LoneChangeFit
  <2>2. Calm(None, Only(m, Change(h, reason)))
    BY LoneChangeCalm
  <2>3. DOMAIN None = {}
    BY DEF None
  <2>. QED  BY <1>2, <2>1, <2>2, <2>3, CalmWrite, InsertsNoProposal
<1>. QED  BY <1>1, <1>2 DEF CasOrRefuse

LEMMA PatchCasGentle ==
    ASSUME Inv, Kinship, LabelIndex, NEW c \in Client, PatchCas(c)
    PROVE  Evolves /\ Gentle /\ NoProposal /\ Relating
<1> DEFINE r == req[c]
           old == heads[r.mem]
           h == Patched(old, r.patch)
<1>1. r \in Request /\ r.at = "patch"
  BY Before DEF PatchCas
<1>2. r.patch \in PatchBody
  BY <1>1 DEF Request
<1>3. r.mem \in Units
  BY <1>1 DEF Inv, Reads
<1>4. old \in UnitRow
  BY <1>3, Before DEF Rows
<1>5. h \in UnitRow /\ h.reinforcements = old.reinforcements
  BY <1>2, <1>4, PatchedTyped
<1>6. /\ h.principal = old.principal /\ h.origin = old.origin
      /\ h.status = old.status \/ h.status \in PublicStatus
  <2>. HIDE DEF old, r
  <2>. QED  BY <1>2, <1>4 DEF Patched, UnitRow, PatchBody
<1>7. /\ CasOrRefuse(r.mem, r.expected, Change(h, "patched"))
      /\ Relating
  BY DEF PatchCas, Relating
<1>8. "patched" \in Reason \ Replacing /\ "patched" # "reinforced"
  BY DEF Reason, Replacing
<1>. HIDE DEF r, h
<1>. QED  BY <1>3, <1>5, <1>6, <1>7, <1>8, CasGentle

LEMMA ReinforceCasGentle ==
    ASSUME Inv, Kinship, LabelIndex, NEW c \in Client, ReinforceCas(c)
    PROVE  Evolves /\ Gentle /\ NoProposal /\ Relating
<1> DEFINE r == req[c]
           old == heads[r.mem]
           text == r.body
           n == r.count + 1
           h == [old EXCEPT !.body = text, !.reinforcements = n]
<1>1. r \in Request /\ r.at = "reinforce"
  BY Before DEF ReinforceCas
<1>2. r.body \in Body /\ r.count \in Nat
  BY <1>1 DEF Request
<1>3. /\ r.mem \in Units
      /\ r.expected = heads[r.mem].revision => r.count = heads[r.mem].reinforcements
  BY <1>1 DEF Inv, Reads
<1>4. old \in UnitRow
  BY <1>3, Before DEF Rows
<1>5. h \in UnitRow /\ h.reinforcements = n
  <2>1. text \in Body /\ n \in Nat
    BY <1>2
  <2>. HIDE DEF old, text, n
  <2>. QED  BY <1>4, <2>1, ReinforcedTyped
<1>6. h.principal = old.principal /\ h.origin = old.origin /\ h.status = old.status
  <2>. HIDE DEF old, text, n
  <2>. QED  BY <1>4 DEF UnitRow
<1>7. CasOrRefuse(r.mem, r.expected, Change(h, "reinforced")) /\ Relating
  BY DEF ReinforceCas, Relating
<1>8. "reinforced" \in Reason \ Replacing
  BY DEF Reason, Replacing
<1>. HIDE DEF r, h
<1>. QED  BY <1>3, <1>5, <1>6, <1>7, <1>8, CasGentle

LEMMA HandlerGentle ==
    ASSUME Inv, Kinship, LabelIndex, NEW c \in Client, HandlerNext(c)
    PROVE  /\ Inv' /\ Evolves /\ Gentle /\ NoProposal /\ Relating
           /\ UNCHANGED <<cards, decisions>>
<1>0. Inv'
  BY HandlerStep
<1>1. ASSUME UNCHANGED tables
      PROVE  /\ Evolves /\ Gentle /\ NoProposal /\ Relating
             /\ UNCHANGED <<cards, decisions>>
  BY <1>1, StillGentle, StillNoProposal DEF tables, Relating
<1>2. CASE \E p \in Principal, d \in Drafts, force \in BOOLEAN : CreateDedup(c, p, d, force)
  BY <1>0, <1>1, <1>2 DEF CreateDedup
<1>3. CASE CreateInsert(c)
  BY <1>0, <1>3, CreateInsertGentle DEF CreateInsert
<1>4. CASE \E p \in Principal, s, d, e \in Drafts : SplitCheck(c, p, s.body, d, e)
  BY <1>0, <1>1, <1>4 DEF SplitCheck
<1>5. CASE SplitInsert(c)
  BY <1>0, <1>5, SplitInsertGentle DEF SplitInsert
<1>6. CASE \E m \in Units, patch \in Patches : \E n \in 1 .. heads[m].revision :
              PatchRead(c, m, n, patch)
  BY <1>0, <1>1, <1>6 DEF PatchRead
<1>7. CASE PatchCas(c)
  BY <1>0, <1>7, PatchCasGentle DEF PatchCas
<1>8. CASE \E m \in Units : \E n \in 1 .. heads[m].revision : ReinforceRead(c, m, n)
  BY <1>0, <1>1, <1>8 DEF ReinforceRead
<1>9. CASE ReinforceCas(c)
  BY <1>0, <1>9, ReinforceCasGentle DEF ReinforceCas
<1>10. CASE Crash(c)
  BY <1>0, <1>1, <1>10 DEF Crash
<1>. QED
  BY <1>2, <1>3, <1>4, <1>5, <1>6, <1>7, <1>8, <1>9, <1>10 DEF HandlerNext

-----------------------------------------------------------------------------
(* The pipelines.                                                          *)
Base ==
    /\ Inv /\ Kinship /\ LabelIndex
    /\ cards \in Seq(Card) /\ decisions \subseteq Decision /\ flow \in [Worker -> Flow]
    /\ CardsRefer /\ WorkersRefer

LEMMA FlowKinds ==
    ASSUME NEW f \in Flow
    PROVE  /\ f.at \in Drafting => f \in Loop
           /\ f.at \in Curating => f \in Curation
           /\ f.at \in {"idle"} \cup Drafting \cup Curating
BY DEF Flow, Loop, Curation, Drafting, Curating

LEMMA IdleFlow ==
    Idle \in Flow /\ Idle.at = "idle" /\ \A hs : FlowRefers(hs, Idle)
BY DEF Idle, Flow, FlowRefers, Drafting, Curating

LEMMA HoldsStays ==
    ASSUME Evolves, NEW m, NEW p, Holds(heads, m, p)
    PROVE  Holds(heads', m, p)
BY DEF Holds, Evolves, Units

LEMMA UnstagedStays ==
    ASSUME Evolves, NEW m, NEW p, Unstaged(heads, m, p)
    PROVE  Unstaged(heads', m, p)
BY HoldsStays DEF Unstaged, Holds, Evolves, Units

LEMMA LocalStays ==
    ASSUME Evolves, NEW m, NEW p, Holds(heads, m, p), Local(heads, m)
    PROVE  Local(heads', m)
BY DEF Holds, Local, Evolves, Units

LEMMA CardStays ==
    ASSUME Evolves, NEW c, CardRefers(heads, c)
    PROVE  CardRefers(heads', c)
BY HoldsStays, UnstagedStays, LocalStays DEF CardRefers

LEMMA FlowStays ==
    ASSUME Inv, Inv', Evolves, NEW f \in Flow, FlowRefers(heads, f)
    PROVE  FlowRefers(heads', f)
<1>1. CASE f.at \in Drafting
  <2>1. f \in Loop /\ DraftRefers(heads, f) /\ f.at \notin Curating
    BY <1>1, FlowKinds DEF FlowRefers, Drafting, Curating
  <2>2. f.parent # NoParent => /\ Holds(heads', f.parent[1], f.principal)
                               /\ f.parent[2] <= heads'[f.parent[1]].revision
    <3>. SUFFICES ASSUME f.parent # NoParent
                  PROVE  /\ Holds(heads', f.parent[1], f.principal)
                         /\ f.parent[2] <= heads'[f.parent[1]].revision
      OBVIOUS
    <3> DEFINE m == f.parent[1]
    <3>1. Holds(heads, m, f.principal) /\ f.parent[2] <= heads[m].revision
      BY <2>1 DEF DraftRefers
    <3>2. f.parent[2] \in Nat
      BY <2>1 DEF Loop, RevUid
    <3>3. m \in Units /\ m \in Units'
      BY <3>1 DEF Holds, Units, Evolves
    <3>4. heads[m].revision \in Nat /\ heads'[m].revision \in Nat
      BY <3>3 DEF Inv, MemoryTypes, MemoryTypeOK, UnitRow
    <3>5. heads'[m].revision >= heads[m].revision
      BY <3>3 DEF Evolves
    <3>6. Holds(heads', m, f.principal)
      BY <3>1, HoldsStays
    <3>. HIDE DEF m
    <3>7. f.parent[2] <= heads'[m].revision
      BY <3>1, <3>2, <3>4, <3>5
    <3>. QED  BY <3>6, <3>7 DEF m
  <2>3. f.at \in {"enqueue", "card", "discard"} => /\ Holds(heads', f.candidate, f.principal)
                                                    /\ Local(heads', f.candidate)
    BY <2>1, HoldsStays, LocalStays DEF DraftRefers
  <2>4. DraftRefers(heads', f)
    BY <2>1, <2>2, <2>3 DEF DraftRefers
  <2>. QED  BY <2>1, <2>4 DEF FlowRefers
<1>2. CASE f.at \in Curating
  <2>1. CurationRefers(heads, f) /\ f.at \notin Drafting
    BY <1>2 DEF FlowRefers, Drafting, Curating
  <2>2. CurationRefers(heads', f)
    BY <2>1, UnstagedStays, LocalStays DEF CurationRefers, Unstaged
  <2>. QED  BY <2>1, <2>2 DEF FlowRefers
<1>3. CASE f.at \notin Drafting /\ f.at \notin Curating
  BY <1>3 DEF FlowRefers
<1>. QED  BY <1>1, <1>2, <1>3

LEMMA WorkersStay ==
    ASSUME Base, Inv', Evolves, UNCHANGED flow
    PROVE  flow' \in [Worker -> Flow] /\ WorkersRefer'
<1>1. \A w \in Worker : flow[w] \in Flow /\ FlowRefers(heads, flow[w])
  BY DEF Base, WorkersRefer
<1>2. \A w \in Worker : FlowRefers(heads', flow[w])
  BY <1>1, FlowStays DEF Base
<1>. QED  BY <1>2 DEF Base, WorkersRefer

LEMMA WorkerMoves ==
    ASSUME Base, Inv', Evolves, NEW w \in Worker, NEW g \in Flow, FlowRefers(heads', g),
           flow' = [flow EXCEPT ![w] = g]
    PROVE  flow' \in [Worker -> Flow] /\ WorkersRefer'
<1>1. \A x \in Worker : flow[x] \in Flow /\ FlowRefers(heads, flow[x])
  BY DEF Base, WorkersRefer
<1>2. \A x \in Worker : FlowRefers(heads', flow[x])
  BY <1>1, FlowStays DEF Base
<1>3. flow' \in [Worker -> Flow] /\ \A x \in Worker : flow'[x] = IF x = w THEN g ELSE flow[x]
  BY DEF Base
<1>4. \A x \in Worker : FlowRefers(heads', flow'[x])
  BY <1>2, <1>3
<1>. QED  BY <1>3, <1>4 DEF WorkersRefer

(* A step that decides nothing may put one more card in the queue.         *)
NewCard(c) ==
    c \in Card /\ c.state = "pending" /\ c.birthplace # "symphony" /\ CardRefers(heads, c)

Undecided ==
    /\ decisions' = decisions
    /\ cards' = cards \/ \E c \in Card : NewCard(c) /\ cards' = Append(cards, c)

LEMMA CardsGrow ==
    ASSUME cards \in Seq(Card), Undecided
    PROVE  /\ cards' \in Seq(Card) /\ DOMAIN cards \subseteq DOMAIN cards'
           /\ \A i \in DOMAIN cards : cards'[i] = cards[i]
           /\ \A i \in DOMAIN cards' \ DOMAIN cards : NewCard(cards'[i])
<1>1. CASE cards' = cards
  BY <1>1
<1>2. ASSUME NEW c \in Card, NewCard(c), cards' = Append(cards, c)
      PROVE  /\ cards' \in Seq(Card) /\ DOMAIN cards \subseteq DOMAIN cards'
             /\ \A i \in DOMAIN cards : cards'[i] = cards[i]
             /\ \A i \in DOMAIN cards' \ DOMAIN cards : NewCard(cards'[i])
  <2>1. /\ Append(cards, c) \in Seq(Card)
        /\ DOMAIN Append(cards, c) = DOMAIN cards \cup {Len(cards) + 1}
        /\ \A k \in DOMAIN cards : Append(cards, c)[k] = cards[k]
        /\ Append(cards, c)[Len(cards) + 1] = c
    BY AppendFacts
  <2>. QED  BY <1>2, <2>1
<1>. QED  BY <1>1, <1>2 DEF Undecided

LEMMA BaseKept ==
    ASSUME Base, Inv', Evolves, Undecided, flow' \in [Worker -> Flow], WorkersRefer'
    PROVE  Base'
<1>1. /\ cards' \in Seq(Card)
      /\ \A i \in DOMAIN cards : cards'[i] = cards[i]
      /\ \A i \in DOMAIN cards' \ DOMAIN cards : NewCard(cards'[i])
  BY CardsGrow DEF Base
<1>2. \A i \in DOMAIN cards' : CardRefers(heads, cards'[i])
  BY <1>1 DEF Base, CardsRefer, NewCard
<1>3. \A i \in DOMAIN cards' : CardRefers(heads', cards'[i])
  BY <1>2, CardStays
<1>4. CardsRefer'
  BY <1>3 DEF CardsRefer
<1>5. decisions' \subseteq Decision
  BY DEF Undecided, Base
<1>6. Kinship' /\ LabelIndex'
  BY DEF Evolves
<1>. QED  BY <1>1, <1>4, <1>5, <1>6 DEF Base

(* What every step of a worker comes down to.                              *)
Quiet ==
    /\ Inv' /\ Evolves /\ Gentle /\ Relating /\ Undecided
    /\ flow' \in [Worker -> Flow] /\ WorkersRefer'

LEMMA ReadOnlyInv ==
    ASSUME Inv, UNCHANGED <<heads, history, req, shown>>, edges' \subseteq Edge,
           lock' \subseteq Principal
    PROVE  Inv'
BY Before, ReadingStep

(* Steps that read, and move on with what they read.                       *)
LEMMA ReadingWorker ==
    ASSUME Base, NEW w \in Worker, NEW g \in Flow, FlowRefers(heads, g),
           flow' = [flow EXCEPT ![w] = g],
           UNCHANGED <<tables, req, shown>>, lock' \subseteq Principal
    PROVE  Quiet
<1>1. UNCHANGED <<heads, history, edges, cards, decisions, req, shown>>
  BY DEF tables
<1>2. Inv'
  BY <1>1, Before, ReadOnlyInv DEF Base
<1>3. Evolves /\ Gentle
  BY <1>1, StillGentle DEF Base
<1>4. FlowRefers(heads', g)
  BY <1>1
<1>5. Relating /\ Undecided
  BY <1>1 DEF Relating, Undecided
<1>. QED  BY <1>2, <1>3, <1>4, <1>5, WorkerMoves DEF Quiet

(* Steps that write heads, and move on.                                    *)
LEMMA WritingWorker ==
    ASSUME Base, NEW w \in Worker, NEW g \in Flow, NEW ins, NEW upd,
           Fit(ins, upd), Calm(ins, upd), Write(ins, upd),
           FlowRefers(heads', g), flow' = [flow EXCEPT ![w] = g],
           UNCHANGED <<edges, cards, decisions, req, shown>>, lock' \subseteq Principal
    PROVE  Quiet
<1>1. Evolves /\ Gentle
  BY CalmWrite DEF Base
<1>2. Inv'
  BY <1>1, Before, WritingStep DEF Base, Evolves
<1>3. Relating /\ Undecided
  BY DEF Relating, Undecided
<1>. QED  BY <1>1, <1>2, <1>3, WorkerMoves DEF Quiet

LEMMA BaseFacts ==
    ASSUME Base
    PROVE  /\ Inv /\ Rows /\ LineageComplete /\ edges \subseteq Edge /\ lock \subseteq Principal
           /\ shown \subseteq Units /\ cards \in Seq(Card) /\ flow \in [Worker -> Flow]
           /\ \A w \in Worker : flow[w] \in Flow /\ FlowRefers(heads, flow[w])
BY Before DEF Base, WorkersRefer, Inv

LEMMA LoopStartTyped ==
    ASSUME NEW at \in {"source", "drafts"}, NEW p \in Principal,
           NEW birthplace \in {"thread", "seed"}, NEW batch \in Batch \cup {Keep},
           NEW source \in Body \cup {Keep}, NEW drafts \in Seq(Candidate),
           at = "source" => batch \in Batch /\ source \in Body
    PROVE  /\ LoopStart(at, p, birthplace, batch, source, drafts) \in Flow
           /\ \A hs : FlowRefers(hs, LoopStart(at, p, birthplace, batch, source, drafts))
<1> DEFINE g == LoopStart(at, p, birthplace, batch, source, drafts)
<1>1. g \in Loop
  BY DEF LoopStart, Loop
<1>2. /\ g.at = at /\ g.parent = NoParent /\ g.batch = batch /\ g.source = source
  BY DEF LoopStart
<1>. HIDE DEF g
<1>3. \A hs : DraftRefers(hs, g)
  BY <1>2 DEF DraftRefers
<1>4. \A hs : FlowRefers(hs, g)
  BY <1>2, <1>3 DEF FlowRefers, Drafting, Curating
<1>. QED  BY <1>1, <1>4 DEF Flow, g

LEMMA ImplicateTyped ==
    ASSUME Base, NEW d \in Proposal, NEW p, NEW T \in Implicable(p, d.verdict)
    PROVE  Implicate(d, T) \in Candidate
<1>1. T \subseteq Mem
  BY BaseFacts DEF Implicable, Owned, Rows
<1>. QED  BY <1>1 DEF Implicate, Candidate, Proposal

LEMMA ExtractQuiet ==
    ASSUME Base, NEW w \in Worker, NEW p \in Principal, NEW d \in Proposals, NEW T,
           Extract(w, p, d, T)
    PROVE  Quiet
<1> DEFINE left == <<Implicate(d, T)>>
           g == LoopStart("drafts", p, "thread", Keep, Keep, left)
<1>1. d \in Proposal
  BY QueueAssumption
<1>2. Implicate(d, T) \in Candidate
  BY <1>1, ImplicateTyped DEF Extract
<1>3. left \in Seq(Candidate)
  BY <1>2
<1>4. flow' = [flow EXCEPT ![w] = g] /\ UNCHANGED <<tables, lock, req, shown>>
  BY DEF Extract, Begin, memoryVars
<1>. HIDE DEF left
<1>5. g \in Flow /\ FlowRefers(heads, g)
  BY <1>3, LoopStartTyped
<1>. HIDE DEF g
<1>. QED  BY <1>4, <1>5, BaseFacts, ReadingWorker

LEMMA SeedQuiet ==
    ASSUME Base, NEW w \in Worker, NEW p \in Principal, NEW doc \in Documents, NEW implicated,
           Seed(w, p, doc, implicated)
    PROVE  Quiet
<1> DEFINE left == [k \in DOMAIN doc.children |-> Implicate(doc.children[k], implicated[k])]
           g == LoopStart("source", p, "seed", doc.batch, doc.source, left)
<1>1. doc.batch \in Batch /\ doc.source \in Body /\ doc.children \in Seq(Proposal)
  BY QueueAssumption
<1>2. ASSUME NEW k \in DOMAIN doc.children
      PROVE  Implicate(doc.children[k], implicated[k]) \in Candidate
  <2>1. /\ doc.children[k] \in Proposal
        /\ implicated[k] \in Implicable(p, doc.children[k].verdict)
    BY <1>1 DEF Seed
  <2>. QED  BY <2>1, ImplicateTyped
<1>3. left \in Seq(Candidate)
  <2>1. DOMAIN doc.children = 1 .. Len(doc.children) /\ Len(doc.children) \in Nat
    BY <1>1
  <2>2. left \in [1 .. Len(doc.children) -> Candidate]
    BY <1>2, <2>1
  <2>. QED  BY <2>1, <2>2
<1>4. flow' = [flow EXCEPT ![w] = g] /\ UNCHANGED <<tables, lock, req, shown>>
  BY DEF Seed, Begin, memoryVars
<1>. HIDE DEF left
<1>5. g \in Flow /\ FlowRefers(heads, g)
  BY <1>1, <1>3, LoopStartTyped
<1>. HIDE DEF g
<1>. QED  BY <1>4, <1>5, BaseFacts, ReadingWorker

(* A root under a row of the same owner's.                                 *)
LEMMA LoneChildFit ==
    ASSUME Rows, NEW m \in Fresh, NEW p \in Principal, NEW l \in Label, NEW b \in Body,
           NEW s \in Status, NEW o \in Batch \cup {NoOrigin},
           NEW reason \in Reason \ {"reinforced"}, s = "active" => reason \in Births,
           NEW up \in RevUid \cup {NoParent},
           up # NoParent => Holds(heads, up[1], p) /\ up[2] <= heads[up[1]].revision
    PROVE  /\ Fit(Only(m, Root(p, l, b, s, o, up, reason)), None)
           /\ Calm(Only(m, Root(p, l, b, s, o, up, reason)), None)
<1>0. o \in Origin \cup {NoOrigin}
  BY QueueAssumption
<1>1. CASE up = NoParent
  BY <1>0, <1>1, LoneRootFit, LoneRootCalm
<1>2. CASE up # NoParent
  <2> DEFINE ins == Only(m, Root(p, l, b, s, o, up, reason))
  <2>1. DOMAIN ins = {m} /\ ins[m] = Root(p, l, b, s, o, up, reason) /\ DOMAIN None = {}
    BY DEF Only, None
  <2>2. /\ ins[m].head \in UnitRow /\ ins[m].head.revision = 1
        /\ ins[m].head.reinforcements = 0 /\ ins[m].head.status = s
        /\ ins[m].head.origin = o /\ ins[m].head.principal = p
        /\ ins[m].parent = up /\ ins[m].reason = reason
    BY <1>0, <2>1 DEF Root, UnitRow
  <2>. HIDE DEF ins
  <2>3. up[1] \in Units /\ m \notin Units /\ heads[up[1]].principal = p
    BY <1>2 DEF Holds, Units, Fresh
  <2>4. HeadsAfter(ins, None)[up[1]] = heads[up[1]]
    BY <2>1, <2>3 DEF HeadsAfter
  <2>5. up[2] \in 1 .. heads[up[1]].revision
    <3>1. up[2] \in Nat \ {0} /\ heads[up[1]].revision \in Nat
      BY <1>2, <2>3 DEF RevUid, Rows, UnitRow
    <3>. QED  BY <1>2, <3>1
  <2>6. GoodInserts(ins) /\ Uncounted(ins)
    BY <2>1, <2>2 DEF GoodInserts, Uncounted
  <2>7. Descending(ins, None)
    BY <2>1, <2>2, <2>3, <2>4, <2>5 DEF Descending
  <2>8. GoodUpdates(None) /\ Counted(None)
    BY <2>1 DEF GoodUpdates, Counted
  <2>9. Calm(ins, None)
    BY <2>1, <2>2, <2>3, <2>4 DEF Calm, Owning
  <2>. QED  BY <2>6, <2>7, <2>8, <2>9 DEF Fit, ins
<1>. QED  BY <1>1, <1>2

LEMMA LoneRootRow ==
    ASSUME Inv, NEW m, NEW p, NEW l, NEW b, NEW s, NEW o, NEW up, NEW reason,
           Fit(Only(m, Root(p, l, b, s, o, up, reason)), None),
           Write(Only(m, Root(p, l, b, s, o, up, reason)), None)
    PROVE  /\ Units' = Units \cup {m} /\ m \in Mem \ Units
           /\ heads'[m].principal = p /\ heads'[m].status = s /\ heads'[m].body = b
           /\ heads'[m].origin = o /\ heads'[m].revision = 1
           /\ Holds(heads', m, p)
           /\ \A n \in Units : heads'[n] = heads[n] /\ history'[n] = history[n]
<1> DEFINE ins == Only(m, Root(p, l, b, s, o, up, reason))
<1>0. Rows /\ LineageComplete /\ GoodInserts(ins) /\ GoodUpdates(None)
  BY InvSound DEF Sound, Fit
<1>1. DOMAIN ins = {m} /\ ins[m] = Root(p, l, b, s, o, up, reason) /\ DOMAIN None = {}
  BY DEF Only, None
<1>2. /\ ins[m].head.principal = p /\ ins[m].head.status = s /\ ins[m].head.body = b
      /\ ins[m].head.origin = o /\ ins[m].head.revision = 1
  BY <1>1 DEF Root
<1>3. Write(ins, None)
  OBVIOUS
<1>. HIDE DEF ins
<1>4. heads'[m] = ins[m].head /\ m \in Mem \ Units /\ m \in Units'
  BY <1>0, <1>1, <1>3, InsertedRow
<1>5. \A n \in Units : heads'[n] = heads[n] /\ history'[n] = history[n]
  BY <1>0, <1>1, <1>3, UntouchedRow
<1>6. Units' = Units \cup {m}
  BY <1>1, <1>3, WriteUnits
<1>. QED  BY <1>2, <1>4, <1>5, <1>6 DEF Holds, Units

LEMMA SeedSourceQuiet ==
    ASSUME Base, NEW w \in Worker, SeedSource(w)
    PROVE  Quiet
<1> DEFINE f == flow[w]
           row == Root(f.principal, <<SourceName, 0>>, f.source, "tombstoned",
                       f.batch, NoParent, "seed-source")
<1>1. f \in Flow /\ f.at = "source" /\ FlowRefers(heads, f)
  BY BaseFacts DEF SeedSource
<1>2. f \in Loop /\ f.batch \in Batch /\ f.source \in Body /\ f.principal \in Principal
  BY <1>1, FlowKinds DEF FlowRefers, DraftRefers, Drafting, Loop
<1>3. PICK m \in Fresh : /\ Write(Only(m, row), None)
                         /\ flow' = [flow EXCEPT ![w] = [f EXCEPT !.at = "drafts", !.parent = SourceRow(m)]]
  BY DEF SeedSource, Continue
<1>4. Fit(Only(m, row), None) /\ Calm(Only(m, row), None)
  <2>1. <<SourceName, 0>> \in Label /\ "tombstoned" \in Status
        /\ "seed-source" \in Reason \ {"reinforced"} /\ NoParent \in RevUid \cup {NoParent}
    BY PlainLabels DEF Status, Reason
  <2>. HIDE DEF f
  <2>. QED  BY <1>2, <2>1, BaseFacts, LoneChildFit
<1> DEFINE g == [f EXCEPT !.at = "drafts", !.parent = SourceRow(m)]
<1>5. /\ g \in Loop /\ g.at = "drafts" /\ g.parent = <<m, 1>> /\ g.principal = f.principal
  <2>1. m \in Mem
    BY DEF Fresh
  <2>2. SourceRow(m) \in RevUid /\ SourceRow(m) = <<m, 1>>
    BY <2>1 DEF SourceRow, RevUid
  <2>. HIDE DEF f
  <2>. QED  BY <1>2, <2>2 DEF Loop
<1>6. Holds(heads', m, f.principal) /\ heads'[m].revision = 1
  BY <1>3, <1>4, BaseFacts, LoneRootRow
<1>. HIDE DEF g, row, f
<1>7. DraftRefers(heads', g)
  BY <1>5, <1>6 DEF DraftRefers
<1>8. g \in Flow /\ FlowRefers(heads', g)
  BY <1>5, <1>7 DEF Flow, FlowRefers, Drafting, Curating
<1>9. UNCHANGED <<edges, cards, decisions, lock, req, shown>>
  BY DEF SeedSource
<1>. QED  BY <1>3, <1>4, <1>8, <1>9, BaseFacts, WritingWorker DEF g

(* A loop that moves on keeps its parent row and its owner.                *)
LEMMA LoopMoves ==
    ASSUME NEW hs, NEW f \in Loop, NEW g \in Loop, DraftRefers(hs, f),
           g.parent = f.parent, g.principal = f.principal, g.at # "source",
           g.at \in {"embed", "enqueue", "card", "discard"} => g.left # <<>>,
           g.at \in {"enqueue", "card", "discard"} => /\ Holds(hs, g.candidate, g.principal)
                                                      /\ Local(hs, g.candidate)
    PROVE  g \in Flow /\ FlowRefers(hs, g)
<1>1. DraftRefers(hs, g)
  BY DEF DraftRefers
<1>2. g.at \notin Curating
  BY DEF Loop, Curating
<1>. QED  BY <1>1, <1>2 DEF Flow, FlowRefers

LEMMA LoopFacts ==
    ASSUME Base, NEW w \in Worker, flow[w].at \in Drafting
    PROVE  /\ flow[w] \in Loop /\ DraftRefers(heads, flow[w])
           /\ flow[w].left \in Seq(Candidate) /\ flow[w].principal \in Principal
<1>1. flow[w] \in Loop /\ DraftRefers(heads, flow[w])
  BY BaseFacts, FlowKinds DEF FlowRefers
<1>. QED  BY <1>1 DEF Loop

LEMMA DraftCheckQuiet ==
    ASSUME Base, NEW w \in Worker, DraftCheck(w)
    PROVE  Quiet
<1> DEFINE f == flow[w]
<1>1. f.at = "drafts" /\ f.left # <<>>
  BY DEF DraftCheck
<1>2. f \in Loop /\ DraftRefers(heads, f) /\ f.left \in Seq(Candidate) /\ f.principal \in Principal
  BY <1>1, LoopFacts DEF Drafting
<1>3. UNCHANGED <<tables, req, shown>>
  BY DEF DraftCheck
<1>4. CASE /\ flow' = [flow EXCEPT ![w] = [f EXCEPT !.left = Tail(@)]]
           /\ UNCHANGED lock
  <2> DEFINE g == [f EXCEPT !.left = Tail(@)]
  <2>1. Tail(f.left) \in Seq(Candidate)
    BY <1>1, <1>2
  <2>2. g \in Loop /\ g.at = "drafts" /\ g.parent = f.parent /\ g.principal = f.principal
    <3>. HIDE DEF f
    <3>. QED  BY <1>1, <1>2, <2>1 DEF Loop
  <2>. HIDE DEF f, g
  <2>3. g \in Flow /\ FlowRefers(heads, g)
    BY <1>2, <2>2, LoopMoves
  <2>. QED  BY <1>3, <1>4, <2>3, BaseFacts, ReadingWorker DEF g
<1>5. CASE /\ flow' = [flow EXCEPT ![w] = [f EXCEPT !.at = "embed"]]
           /\ lock' = lock \cup {f.principal}
  <2> DEFINE g == [f EXCEPT !.at = "embed"]
  <2>2. /\ g \in Loop /\ g.at = "embed" /\ g.parent = f.parent /\ g.principal = f.principal
        /\ g.left = f.left
    <3>. HIDE DEF f
    <3>. QED  BY <1>1, <1>2 DEF Loop
  <2>. HIDE DEF f, g
  <2>3. g \in Flow /\ FlowRefers(heads, g)
    BY <1>1, <1>2, <2>2, LoopMoves
  <2>4. lock' \subseteq Principal
    BY <1>2, <1>5, BaseFacts
  <2>. QED  BY <1>3, <1>5, <2>3, <2>4, ReadingWorker DEF g
<1>. QED  BY <1>4, <1>5 DEF DraftCheck, Continue

LEMMA EnqueueCheckQuiet ==
    ASSUME Base, NEW w \in Worker, EnqueueCheck(w)
    PROVE  Quiet
<1> DEFINE f == flow[w]
           at == IF Head(f.left).targets \subseteq f.near \cap Active THEN "card" ELSE "discard"
           g == [f EXCEPT !.at = at]
<1>1. f.at = "enqueue"
  BY DEF EnqueueCheck
<1>2. /\ f \in Loop /\ DraftRefers(heads, f) /\ f.left # <<>>
      /\ Holds(heads, f.candidate, f.principal) /\ Local(heads, f.candidate)
  BY <1>1, LoopFacts DEF Drafting, DraftRefers
<1>3. at \in {"card", "discard"}
  OBVIOUS
<1>4. flow' = [flow EXCEPT ![w] = g] /\ UNCHANGED <<tables, lock, req, shown>>
  BY DEF EnqueueCheck, Continue, memoryVars
<1>. HIDE DEF at, f
<1>5. /\ g \in Loop /\ g.at = at /\ g.parent = f.parent /\ g.principal = f.principal
      /\ g.left = f.left /\ g.candidate = f.candidate
  BY <1>2, <1>3 DEF Loop
<1>. HIDE DEF g
<1>6. g \in Flow /\ FlowRefers(heads, g)
  BY <1>2, <1>3, <1>5, LoopMoves
<1>. QED  BY <1>4, <1>6, BaseFacts, ReadingWorker

LEMMA CandidateInsertQuiet ==
    ASSUME Base, NEW w \in Worker, CandidateInsert(w)
    PROVE  Quiet
<1> DEFINE f == flow[w]
           d == Head(f.left)
           near == DedupMatches(f.principal, d.body, {"active", "candidate"}, {})
           reason == IF f.birthplace = "seed" THEN "seed-child" ELSE "extracted"
           row == Root(f.principal, d.label, d.body, "candidate", NoOrigin, f.parent, reason)
<1>1. f.at = "embed"
  BY DEF CandidateInsert
<1>2. /\ f \in Loop /\ DraftRefers(heads, f) /\ f.left \in Seq(Candidate)
      /\ f.principal \in Principal /\ f.left # <<>> /\ f.parent \in RevUid \cup {NoParent}
  BY <1>1, LoopFacts DEF Drafting, DraftRefers, Loop
<1>3. d \in Candidate /\ Tail(f.left) \in Seq(Candidate)
  BY <1>2
<1>4. d.label \in Label /\ d.body \in Body
  BY <1>3, PlainLabels DEF Candidate
<1>5. UNCHANGED <<edges, cards, decisions, req, shown>> /\ lock' \subseteq Principal
  BY BaseFacts DEF CandidateInsert
<1>6. CASE /\ flow' = [flow EXCEPT ![w] = [f EXCEPT !.at = "drafts", !.left = Tail(@)]]
           /\ UNCHANGED <<heads, history>>
  <2> DEFINE g == [f EXCEPT !.at = "drafts", !.left = Tail(@)]
  <2>1. g \in Loop /\ g.at = "drafts" /\ g.parent = f.parent /\ g.principal = f.principal
    <3>. HIDE DEF f
    <3>. QED  BY <1>2, <1>3 DEF Loop
  <2>. HIDE DEF f, g
  <2>2. g \in Flow /\ FlowRefers(heads, g)
    BY <1>2, <2>1, LoopMoves
  <2>. QED  BY <1>5, <1>6, <2>2, ReadingWorker DEF g, tables
<1>7. CASE \E m \in Fresh :
            /\ Write(Only(m, row), None)
            /\ flow' = [flow EXCEPT ![w] = [f EXCEPT !.at = "enqueue", !.candidate = m, !.near = near]]
  <2>1. PICK m \in Fresh :
            /\ Write(Only(m, row), None)
            /\ flow' = [flow EXCEPT ![w] = [f EXCEPT !.at = "enqueue", !.candidate = m, !.near = near]]
    BY <1>7
  <2> DEFINE g == [f EXCEPT !.at = "enqueue", !.candidate = m, !.near = near]
  <2>2. m \in Mem /\ near \subseteq Mem
    <3>1. near \subseteq Units
      BY DEF DedupMatches, Owned
    <3>. QED  BY <3>1, BaseFacts DEF Fresh, Rows
  <2>3. /\ g \in Loop /\ g.at = "enqueue" /\ g.parent = f.parent /\ g.principal = f.principal
        /\ g.left = f.left /\ g.candidate = m
    <3>. HIDE DEF f, near
    <3>. QED  BY <1>2, <2>2 DEF Loop
  <2>4. Fit(Only(m, row), None) /\ Calm(Only(m, row), None)
    <3>1. /\ "candidate" \in Status /\ reason \in Reason \ {"reinforced"}
          /\ f.parent # NoParent => /\ Holds(heads, f.parent[1], f.principal)
                                    /\ f.parent[2] <= heads[f.parent[1]].revision
      BY <1>2 DEF Status, Reason, DraftRefers
    <3>. HIDE DEF f, d, reason
    <3>. QED  BY <1>2, <1>4, <3>1, BaseFacts, LoneChildFit
  <2>5. Holds(heads', m, f.principal) /\ Local(heads', m)
    BY <2>1, <2>4, BaseFacts, LoneRootRow DEF Local
  <2>. HIDE DEF f, g, row, near
  <2>6. Evolves /\ Inv'
    <3>1. Evolves
      BY <2>1, <2>4, CalmWrite DEF Base
    <3>2. Inv'
      BY <1>5, <2>1, <2>4, <3>1, Before, WritingStep DEF Base, Evolves
    <3>. QED  BY <3>1, <3>2
  <2>7. DraftRefers(heads', f)
    <3>1. f.at \notin Curating /\ f \in Flow /\ FlowRefers(heads, f)
      BY <1>1, <1>2 DEF Curating, Flow, FlowRefers
    <3>2. FlowRefers(heads', f)
      BY <2>6, <3>1, BaseFacts, FlowStays
    <3>. QED  BY <1>1, <3>2 DEF FlowRefers, Drafting
  <2>8. g \in Flow /\ FlowRefers(heads', g)
    BY <1>2, <2>3, <2>5, <2>7, LoopMoves
  <2>. QED  BY <1>5, <2>1, <2>4, <2>8, WritingWorker DEF g
<1>. QED  BY <1>6, <1>7 DEF CandidateInsert, Continue

(* Steps that put a card in the queue, and move on.                        *)
LEMMA CardingWorker ==
    ASSUME Base, NEW w \in Worker, NEW g \in Flow, FlowRefers(heads, g), NEW c, NewCard(c),
           flow' = [flow EXCEPT ![w] = g], cards' = Append(cards, c),
           UNCHANGED <<heads, history, edges, decisions, lock, req, shown>>
    PROVE  Quiet
<1>1. Inv'
  BY Before, ReadOnlyInv DEF Base
<1>2. Evolves /\ Gentle
  BY StillGentle DEF Base
<1>3. Relating /\ Undecided
  BY DEF Relating, Undecided, NewCard
<1>. QED  BY <1>1, <1>2, <1>3, WorkerMoves DEF Quiet

LEMMA CardInsertQuiet ==
    ASSUME Base, NEW w \in Worker, CardInsert(w)
    PROVE  Quiet
<1> DEFINE f == flow[w]
           d == Head(f.left)
           c == [candidate |-> f.candidate, principal |-> f.principal,
                 birthplace |-> f.birthplace, batch |-> f.batch, source |-> f.source,
                 judged |-> 0, verdict |-> d.verdict, targets |-> d.targets,
                 state |-> "pending"]
           g == [f EXCEPT !.at = "drafts", !.left = Tail(@), !.made = @ \cup {f.candidate}]
<1>1. f.at = "card"
  BY DEF CardInsert
<1>2. /\ f \in Loop /\ DraftRefers(heads, f) /\ f.left \in Seq(Candidate)
      /\ f.left # <<>> /\ Holds(heads, f.candidate, f.principal) /\ Local(heads, f.candidate)
  BY <1>1, LoopFacts DEF Drafting, DraftRefers
<1>3. d \in Candidate /\ Tail(f.left) \in Seq(Candidate)
  BY <1>2
<1>4. f.candidate \in Mem
  BY <1>2, BaseFacts DEF Holds, Rows, Units
<1>5. /\ flow' = [flow EXCEPT ![w] = g] /\ cards' = Append(cards, c)
      /\ UNCHANGED <<heads, history, edges, decisions, lock, req, shown>>
  BY DEF CardInsert, Continue
<1>. HIDE DEF f, d
<1>6. g \in Loop /\ g.at = "drafts" /\ g.parent = f.parent /\ g.principal = f.principal
  BY <1>2, <1>3, <1>4 DEF Loop
<1>7. /\ c \in Card /\ c.state = "pending" /\ c.birthplace \in {"thread", "seed"}
      /\ c.candidate = f.candidate /\ c.principal = f.principal
  BY <1>2, <1>3, <1>4 DEF Loop, Card, Candidate, Birthplace
<1>. HIDE DEF g, c
<1>8. NewCard(c)
  BY <1>2, <1>7 DEF NewCard, CardRefers
<1>9. g \in Flow /\ FlowRefers(heads, g)
  BY <1>2, <1>6, LoopMoves
<1>. QED  BY <1>5, <1>8, <1>9, CardingWorker

LEMMA HeadChanged ==
    ASSUME NEW h \in UnitRow, NEW s \in Status
    PROVE  /\ [h EXCEPT !.status = s] \in UnitRow
           /\ [h EXCEPT !.status = s].principal = h.principal
           /\ [h EXCEPT !.status = s].origin = h.origin
           /\ [h EXCEPT !.status = s].reinforcements = h.reinforcements
           /\ [h EXCEPT !.status = s].status = s
           /\ [h EXCEPT !.status = s].body = h.body
           /\ [h EXCEPT !.status = s].label = h.label
BY DEF UnitRow

LEMMA DiscardQuiet ==
    ASSUME Base, NEW w \in Worker, Discard(w)
    PROVE  Quiet
<1> DEFINE m == flow[w].candidate
           old == heads[m]
           h == [old EXCEPT !.status = "tombstoned"]
<1>1. flow[w].at = "discard"
  BY DEF Discard
<1>2. Holds(heads, m, flow[w].principal) /\ Local(heads, m)
  BY <1>1, LoopFacts DEF Drafting, DraftRefers
<1>3. m \in Units /\ old \in UnitRow
  BY <1>2, BaseFacts DEF Holds, Units, Rows
<1>4. /\ h \in UnitRow /\ h.principal = old.principal /\ h.origin = old.origin
      /\ h.reinforcements = old.reinforcements /\ h.status = "tombstoned"
  <2>. HIDE DEF old
  <2>. QED  BY <1>3, HeadChanged DEF Status
<1>5. /\ Write(None, Only(m, Change(h, "invalid-target")))
      /\ flow' = [flow EXCEPT ![w] = Idle]
      /\ UNCHANGED <<edges, cards, decisions, lock, req, shown>>
  BY DEF Discard, End, Continue
<1>6. "invalid-target" \in Reason \ Replacing /\ "invalid-target" # "reinforced"
  BY DEF Reason, Replacing
<1>. HIDE DEF h, m
<1>7. /\ Fit(None, Only(m, Change(h, "invalid-target")))
      /\ Calm(None, Only(m, Change(h, "invalid-target")))
  BY <1>2, <1>3, <1>4, <1>6, LoneChangeFit, LoneChangeCalm
<1>. QED  BY <1>5, <1>7, IdleFlow, BaseFacts, WritingWorker

LEMMA LoopEndQuiet ==
    ASSUME Base, NEW w \in Worker, LoopEnd(w)
    PROVE  Quiet
<1> DEFINE f == flow[w]
           new == IF f.birthplace = "seed" THEN Siblings(f.made) ELSE {}
<1>1. f.at = "drafts"
  BY DEF LoopEnd
<1>2. f.made \subseteq Mem
  BY <1>1, LoopFacts DEF Drafting, Loop
<1>3. new \subseteq Edge /\ \A e \in new : e.type = "relates_to"
  <2>. HIDE DEF f
  <2>1. Siblings(f.made) \subseteq Edge
    BY <1>2 DEF Siblings, Edge, EdgeType
  <2>. QED  BY <2>1, SiblingsRelate
<1>4. /\ edges' = edges \cup new /\ flow' = [flow EXCEPT ![w] = Idle]
      /\ UNCHANGED <<heads, history, cards, decisions, lock, req, shown>>
  BY DEF LoopEnd, End, Continue
<1>. HIDE DEF new
<1>5. Inv'
  BY <1>3, <1>4, BaseFacts, ReadOnlyInv
<1>6. Evolves /\ Gentle
  BY <1>4, StillGentle DEF Base
<1>7. Relating /\ Undecided
  BY <1>3, <1>4 DEF Relating, Undecided
<1>. QED  BY <1>4, <1>5, <1>6, <1>7, IdleFlow, WorkerMoves DEF Quiet

LEMMA WorkerCrashQuiet ==
    ASSUME Base, NEW w \in Worker, WorkerCrash(w)
    PROVE  Quiet
<1>1. /\ UNCHANGED <<tables, req, shown>> /\ flow' = [flow EXCEPT ![w] = Idle]
      /\ lock' \subseteq Principal
  BY BaseFacts DEF WorkerCrash, End, Continue
<1>. QED  BY <1>1, IdleFlow, ReadingWorker

LEMMA CurationFacts ==
    ASSUME Base, NEW w \in Worker, flow[w].at \in Curating
    PROVE  /\ flow[w] \in Curation /\ CurationRefers(heads, flow[w])
           /\ flow[w].principal \in Principal /\ flow[w].repair.action \in Verdict
<1>1. flow[w] \in Curation /\ CurationRefers(heads, flow[w])
  BY BaseFacts, FlowKinds DEF FlowRefers
<1>. QED  BY <1>1 DEF Curation

LEMMA CurationMoves ==
    ASSUME NEW hs, NEW g \in Curation, CurationRefers(hs, g)
    PROVE  g \in Flow /\ FlowRefers(hs, g)
BY DEF Flow, FlowRefers, Curation, Drafting, Curating

LEMMA CuratorDiagnoseQuiet ==
    ASSUME Base, NEW w \in Worker, NEW p \in Principal, NEW repair \in Repairs,
           NEW subject, NEW others, CuratorDiagnose(w, p, repair, subject, others)
    PROVE  Quiet
<1> DEFINE g == [at |-> "diagnosed", principal |-> p, repair |-> repair,
                 subject |-> subject, others |-> others, candidate |-> Keep, judged |-> 0]
<1>1. /\ repair \in [action : Verdict, label : Name \X {0}, body : Body]
  BY QueueAssumption
<1>2. subject \in Mem /\ others \subseteq Mem /\ Unstaged(heads, subject, p)
  BY BaseFacts DEF CuratorDiagnose, Active, Owned, Holds, Unstaged, Units, Rows
<1>3. flow' = [flow EXCEPT ![w] = g] /\ UNCHANGED <<tables, lock, req, shown>>
  BY DEF CuratorDiagnose, Begin, memoryVars
<1>4. g \in Curation /\ g.at = "diagnosed" /\ g.subject = subject /\ g.principal = p
  BY <1>1, <1>2 DEF Curation
<1>. HIDE DEF g
<1>5. CurationRefers(heads, g)
  BY <1>2, <1>4 DEF CurationRefers
<1>6. g \in Flow /\ FlowRefers(heads, g)
  BY <1>4, <1>5, CurationMoves
<1>. QED  BY <1>3, <1>6, BaseFacts, ReadingWorker

LEMMA InheritedTyped ==
    ASSUME NEW m PROVE Inherited(m) \in Batch \cup {NoOrigin}
BY DEF Inherited

LEMMA CuratorCandidateQuiet ==
    ASSUME Base, NEW w \in Worker, CuratorCandidate(w)
    PROVE  Quiet
<1> DEFINE f == flow[w]
           row == Root(f.principal, f.repair.label, f.repair.body, "candidate",
                       Inherited(f.subject), NoParent, "proposed")
<1>1. f.at = "diagnosed" /\ UNCHANGED <<edges, cards, decisions, lock, req, shown>>
  BY DEF CuratorCandidate
<1>2. /\ f \in Curation /\ CurationRefers(heads, f) /\ f.principal \in Principal
  BY <1>1, CurationFacts DEF Curating
<1>3. f.repair.label \in Label /\ f.repair.body \in Body
  BY <1>2, PlainLabels DEF Curation
<1>4. CASE flow' = [flow EXCEPT ![w] = Idle] /\ UNCHANGED <<heads, history>>
  BY <1>1, <1>4, BaseFacts, IdleFlow, ReadingWorker DEF tables
<1>5. CASE \E m \in Fresh :
            /\ Write(Only(m, row), None)
            /\ flow' = [flow EXCEPT ![w] = [f EXCEPT !.at = "proposed", !.candidate = m]]
  <2>1. PICK m \in Fresh :
            /\ Write(Only(m, row), None)
            /\ flow' = [flow EXCEPT ![w] = [f EXCEPT !.at = "proposed", !.candidate = m]]
    BY <1>5
  <2> DEFINE g == [f EXCEPT !.at = "proposed", !.candidate = m]
  <2>2. m \in Mem
    BY DEF Fresh
  <2>3. /\ g \in Curation /\ g.at = "proposed" /\ g.candidate = m
        /\ g.subject = f.subject /\ g.principal = f.principal
    <3>. HIDE DEF f
    <3>. QED  BY <1>2, <2>2 DEF Curation
  <2>4. Fit(Only(m, row), None) /\ Calm(Only(m, row), None)
    <3>1. /\ "candidate" \in Status /\ "proposed" \in Reason \ {"reinforced"}
          /\ NoParent \in RevUid \cup {NoParent}
          /\ Inherited(f.subject) \in Batch \cup {NoOrigin}
      BY InheritedTyped DEF Status, Reason
    <3>. HIDE DEF f
    <3>. QED  BY <1>2, <1>3, <3>1, BaseFacts, LoneChildFit
  <2>5. Unstaged(heads', m, f.principal) /\ Local(heads', m)
    BY <2>1, <2>4, BaseFacts, LoneRootRow, InheritedTyped DEF Local, Unstaged
  <2>. HIDE DEF f, g, row
  <2>6. Evolves
    BY <2>1, <2>4, CalmWrite DEF Base
  <2>7. Unstaged(heads', f.subject, f.principal)
    BY <1>2, <2>6, UnstagedStays DEF CurationRefers
  <2>8. CurationRefers(heads', g)
    BY <2>3, <2>5, <2>7 DEF CurationRefers
  <2>9. g \in Flow /\ FlowRefers(heads', g)
    BY <2>3, <2>8, CurationMoves
  <2>. QED  BY <1>1, <2>1, <2>4, <2>9, BaseFacts, WritingWorker DEF g
<1>. QED  BY <1>4, <1>5 DEF CuratorCandidate, Continue, End

LEMMA CuratorJudgeQuiet ==
    ASSUME Base, NEW w \in Worker, CuratorJudge(w)
    PROVE  Quiet
<1> DEFINE f == flow[w]
           m == IF f.at = "proposed" THEN f.candidate ELSE f.subject
           n == heads[m].revision
           g == [f EXCEPT !.at = "judged", !.candidate = m, !.judged = n]
<1>1. /\ f.at \in {"proposed", "diagnosed"}
      /\ f.at = "diagnosed" => f.repair.action \notin Replacing
  BY DEF CuratorJudge
<1>2. f \in Curation /\ CurationRefers(heads, f)
  BY <1>1, CurationFacts DEF Curating
<1>3. /\ Unstaged(heads, m, f.principal) /\ Holds(heads, m, f.principal)
      /\ f.repair.action \in Replacing => Local(heads, m)
  BY <1>1, <1>2 DEF CurationRefers, Unstaged
<1>4. m \in Mem /\ n \in Nat
  <2>1. m \in Units
    BY <1>3 DEF Holds, Units
  <2>. HIDE DEF m
  <2>. QED  BY <2>1, BaseFacts DEF Rows, UnitRow
<1>5. flow' = [flow EXCEPT ![w] = g] /\ UNCHANGED <<tables, lock, req, shown>>
  BY DEF CuratorJudge, Continue, memoryVars
<1>. HIDE DEF f, m, n
<1>6. /\ g \in Curation /\ g.at = "judged" /\ g.candidate = m
      /\ g.subject = f.subject /\ g.principal = f.principal /\ g.repair = f.repair
  BY <1>2, <1>4 DEF Curation
<1>. HIDE DEF g
<1>7. CurationRefers(heads, g)
  BY <1>2, <1>3, <1>6 DEF CurationRefers
<1>8. g \in Flow /\ FlowRefers(heads, g)
  BY <1>6, <1>7, CurationMoves
<1>. QED  BY <1>5, <1>8, BaseFacts, ReadingWorker

LEMMA CuratorCardQuiet ==
    ASSUME Base, NEW w \in Worker, CuratorCard(w)
    PROVE  Quiet
<1> DEFINE f == flow[w]
           action == f.repair.action
           named == CASE action \in Replacing -> {f.subject} \cup f.others
                      [] action = "contradict" -> f.others
                      [] OTHER -> {}
           c == [candidate |-> f.candidate, principal |-> f.principal,
                 birthplace |-> "curator", batch |-> Keep, source |-> Keep,
                 judged |-> f.judged, verdict |-> action, targets |-> named,
                 state |-> "pending"]
<1>1. f.at = "judged"
  BY DEF CuratorCard
<1>2. /\ f \in Curation /\ CurationRefers(heads, f) /\ action \in Verdict
      /\ f.principal \in Principal
  BY <1>1, CurationFacts DEF Curating
<1>3. /\ Unstaged(heads, f.candidate, f.principal) /\ Holds(heads, f.candidate, f.principal)
      /\ action \in Replacing => Local(heads, f.candidate)
  BY <1>1, <1>2 DEF CurationRefers, Unstaged
<1>4. f.candidate \in Mem /\ f.judged \in Nat /\ f.subject \in Mem /\ f.others \subseteq Mem
  BY <1>2, <1>3, BaseFacts DEF Holds, Rows, Units, Curation
<1>5. named \subseteq Mem
  <2>. HIDE DEF f, action
  <2>. QED  BY <1>4
<1>6. /\ flow' = [flow EXCEPT ![w] = Idle] /\ cards' = Append(cards, c)
      /\ UNCHANGED <<heads, history, edges, decisions, lock, req, shown>>
  BY DEF CuratorCard, End, Continue
<1>. HIDE DEF f, action, named
<1>7. /\ c \in Card /\ c.state = "pending" /\ c.birthplace = "curator" /\ c.verdict = action
      /\ c.candidate = f.candidate /\ c.principal = f.principal
  BY <1>2, <1>4, <1>5 DEF Card, Birthplace
<1>. HIDE DEF c
<1>8. NewCard(c)
  BY <1>3, <1>7 DEF NewCard, CardRefers
<1>. QED  BY <1>6, <1>8, IdleFlow, CardingWorker

LEMMA WorkerQuiet ==
    ASSUME Base, NEW w \in Worker, WorkerNext(w)
    PROVE  Quiet
BY ExtractQuiet, SeedQuiet, SeedSourceQuiet, DraftCheckQuiet, CandidateInsertQuiet,
   EnqueueCheckQuiet, CardInsertQuiet, DiscardQuiet, LoopEndQuiet, CuratorDiagnoseQuiet,
   CuratorCandidateQuiet, CuratorJudgeQuiet, CuratorCardQuiet, WorkerCrashQuiet
   DEF WorkerNext

-----------------------------------------------------------------------------
(* Decisions.  What deciding the cards of S may make of memory m.          *)
Outcome(m, status, reason, S, signal) ==
    /\ \/ status = heads[m].status
       \/ /\ status = "tombstoned"
          /\ \/ heads[m].status \in {"active", "candidate"}
             \/ \E i \in S : cards[i].birthplace = "curator" /\ cards[i].candidate = m
       \/ /\ status = "active" /\ heads[m].status = "candidate" /\ signal # "deny"
          /\ \E i \in S : /\ cards[i].candidate = m
                          /\ cards[i].birthplace = "curator" => cards[i].verdict \in Replacing
    /\ reason \in Replacing /\ heads[m].status = "active"
       => signal # "deny" /\ \E i \in S : m \in Retired(i)

Settles(S, signal) ==
    /\ Inv' /\ Evolves
    /\ \A m \in Units' \ Units :
        /\ heads'[m].origin \in Batch \cup {NoOrigin} /\ heads'[m].status = "active"
        /\ history'[m][1].reason \in Births
    /\ \A m \in Units : heads'[m].revision > heads[m].revision =>
        /\ heads'[m].revision \in DOMAIN history'[m]
        /\ Outcome(m, heads'[m].status, history'[m][heads'[m].revision].reason, S, signal)

(* What an approval of card i leaves behind.                               *)
Enacted(i) ==
    /\ VerdictEdges(i) \subseteq edges'
    /\ Retired(i) # {} => heads'[cards[i].candidate].status = "active"
    /\ \A t \in Retired(i) :
        \E k \in DOMAIN history'[t] : history'[t][k].reason = cards[i].verdict
    /\ cards[i].birthplace = "curator" /\ cards[i].verdict # "contradict" =>
        /\ cards[i].judged + 1 \in DOMAIN history'[cards[i].candidate]
        /\ history'[cards[i].candidate][cards[i].judged + 1].reason
              = CuratorReason(cards[i].verdict)

Decisive(S, signal) ==
    /\ S \subseteq DOMAIN cards /\ S \cap Decided = {} /\ signal \in Signal
    /\ Record(S, signal) /\ UNCHANGED flow
    /\ Settles(S, signal)
    /\ edges \subseteq edges'
    /\ \A e \in edges' \ edges :
        \/ e.type = "relates_to"
        \/ signal # "deny" /\ \E i \in S : e \in VerdictEdges(i)
    /\ signal # "deny" => \A i \in S : Enacted(i)

LEMMA DecisionWrite ==
    ASSUME Base, NEW S, NEW signal, NEW ins, NEW upd,
           Fit(ins, upd), Owning(ins, upd), Write(ins, upd),
           \A m \in DOMAIN ins :
              /\ ins[m].head.origin \in Batch \cup {NoOrigin} /\ ins[m].head.status = "active"
              /\ ins[m].reason \in Births,
           \A m \in DOMAIN upd : Outcome(m, upd[m].head.status, upd[m].reason, S, signal),
           UNCHANGED <<req, shown, lock>>, edges' \subseteq Edge
    PROVE  Settles(S, signal)
<1>0. Rows /\ LineageComplete /\ GoodInserts(ins) /\ GoodUpdates(upd)
  BY BaseFacts DEF Fit
<1>1. Evolves
  BY WriteEvolves DEF Base
<1>2. Inv'
  BY <1>1, Before, WritingStep DEF Base, Evolves
<1>3. ASSUME NEW m \in Units' \ Units
      PROVE  /\ heads'[m].origin \in Batch \cup {NoOrigin} /\ heads'[m].status = "active"
             /\ history'[m][1].reason \in Births
  <2>1. m \in DOMAIN ins
    BY WriteUnits
  <2>2. heads'[m] = ins[m].head /\ history'[m][1].reason = ins[m].reason
    BY <1>0, <2>1, InsertedRow
  <2>. QED  BY <2>1, <2>2
<1>4. ASSUME NEW m \in Units, heads'[m].revision > heads[m].revision
      PROVE  /\ heads'[m].revision \in DOMAIN history'[m]
             /\ Outcome(m, heads'[m].status, history'[m][heads'[m].revision].reason, S, signal)
  <2>0. heads[m].revision \in Nat
    BY <1>0 DEF Rows, UnitRow
  <2>1. m \in DOMAIN upd
    BY <1>0, <1>4, <2>0, UntouchedRow
  <2>2. /\ heads'[m].revision = heads[m].revision + 1
        /\ heads'[m].status = upd[m].head.status
        /\ DOMAIN history'[m] = 1 .. heads[m].revision + 1
        /\ history'[m][heads[m].revision + 1].reason = upd[m].reason
    BY <1>0, <2>1, UpdatedRow
  <2>3. Outcome(m, heads'[m].status, history'[m][heads'[m].revision].reason, S, signal)
    BY <2>1, <2>2
  <2>. QED  BY <2>0, <2>2, <2>3
<1>. QED  BY <1>1, <1>2, <1>3, <1>4 DEF Settles

LEMMA StillSettles ==
    ASSUME Base, NEW S, NEW signal, UNCHANGED <<heads, history, req, shown, lock>>,
           edges' \subseteq Edge
    PROVE  Settles(S, signal)
<1>1. Inv'
  BY Before, ReadOnlyInv DEF Base
<1>2. Evolves
  BY StillEvolves DEF Base
<1>3. Units' = Units
  BY DEF Units
<1>4. \A m \in Units : heads[m].revision \in Nat
  BY Before DEF Base, Rows, UnitRow
<1>. QED  BY <1>1, <1>2, <1>3, <1>4 DEF Settles

LEMMA VerdictEdgesTyped ==
    ASSUME Base, NEW i \in DOMAIN cards
    PROVE  VerdictEdges(i) \subseteq Edge
<1>1. cards[i] \in Card
  BY BaseFacts
<1>2. cards[i].candidate \in Mem /\ cards[i].targets \subseteq Mem
  BY <1>1 DEF Card
<1>3. Implicated(i) \subseteq Mem
  BY <1>2 DEF Implicated
<1>4. ASSUME NEW t \in Implicated(i) PROVE EdgeFor(cards[i].verdict) \in EdgeType
  BY DEF Implicated, EdgeFor, EdgeType, Replacing
<1>. QED  BY <1>2, <1>3, <1>4 DEF VerdictEdges, Edge

(* A target that stands is retired by one card of the set only.            *)
LEMMA TargetsOnce ==
    ASSUME Base, NEW S, S \subseteq DOMAIN cards, TargetsStand(S), NEW i \in S,
           NEW t \in Retired(i)
    PROVE  /\ t \in Active /\ cards[i].verdict \in Replacing
           /\ heads[t].principal = heads[cards[i].candidate].principal
           /\ \A j \in S : t \in Retired(j) => j = i
           /\ (CHOOSE j \in S : t \in Retired(j)) = i
<1>1. \A j \in S : \A u \in Retired(j) : u \in Implicated(j) /\ cards[j].verdict \in Replacing
  BY DEF Retired, Implicated
<1>2. \A j \in S : j \in Nat
  BY BaseFacts
<1>3. /\ t \in Active /\ heads[t].principal = heads[cards[i].candidate].principal
      /\ \A j \in S : j < i => t \notin Retired(j)
  BY <1>1 DEF TargetsStand
<1>4. \A j \in S : t \in Retired(j) => ~(i < j)
  BY <1>1 DEF TargetsStand
<1>5. \A j \in S : t \in Retired(j) => j = i
  BY <1>2, <1>3, <1>4
<1>. QED  BY <1>1, <1>3, <1>5

LEMMA CandidateFacts ==
    ASSUME Base, NEW i \in DOMAIN cards
    PROVE  /\ cards[i] \in Card /\ cards[i].candidate \in Units
           /\ heads[cards[i].candidate] \in UnitRow
           /\ heads[cards[i].candidate].revision \in Nat \ {0}
<1>1. cards[i] \in Card /\ Holds(heads, cards[i].candidate, cards[i].principal)
  BY DEF Base, CardsRefer, CardRefers
<1>2. cards[i].candidate \in Units
  BY <1>1 DEF Holds, Units
<1>3. heads[cards[i].candidate] \in UnitRow
  BY <1>2, BaseFacts DEF Rows
<1>. QED  BY <1>1, <1>2, <1>3 DEF UnitRow

LEMMA RejectCardsDecides ==
    ASSUME Base, NEW S, S \subseteq DOMAIN cards,
           \A i \in S : heads[cards[i].candidate].status = "candidate",
           RejectCards(S), UNCHANGED <<req, shown, lock>>
    PROVE  Settles(S, "deny") /\ edges' = edges
<1> DEFINE upd == [m \in CandidateOf(S) |->
                      Change([heads[m] EXCEPT !.status = "tombstoned"], "rejected")]
<1>1. Write(None, upd) /\ edges' = edges
  BY DEF RejectCards
<1>2. ASSUME NEW m \in CandidateOf(S)
      PROVE  /\ m \in Units /\ heads[m] \in UnitRow /\ heads[m].status = "candidate"
             /\ upd[m].head \in UnitRow
             /\ upd[m].head.principal = heads[m].principal
             /\ upd[m].head.origin = heads[m].origin
             /\ upd[m].head.reinforcements = heads[m].reinforcements
             /\ upd[m].head.status = "tombstoned" /\ upd[m].reason = "rejected"
  <2>1. m \in Units /\ heads[m] \in UnitRow /\ heads[m].status = "candidate"
    BY CandidateFacts DEF CandidateOf
  <2> DEFINE h == heads[m]
  <2>2. upd[m].head = [h EXCEPT !.status = "tombstoned"] /\ upd[m].reason = "rejected"
    BY DEF Change
  <2>3. h \in UnitRow /\ "tombstoned" \in Status
    BY <2>1 DEF Status
  <2>. HIDE DEF h, upd
  <2>4. /\ upd[m].head \in UnitRow /\ upd[m].head.principal = h.principal
        /\ upd[m].head.origin = h.origin /\ upd[m].head.status = "tombstoned"
        /\ upd[m].head.reinforcements = h.reinforcements
    BY <2>2, <2>3, HeadChanged
  <2>. QED  BY <2>1, <2>2, <2>4 DEF h
<1>3. DOMAIN upd = CandidateOf(S) /\ DOMAIN None = {}
  BY DEF None
<1>. HIDE DEF upd
<1>4. "rejected" \in Reason /\ "rejected" \notin Replacing /\ "rejected" # "reinforced"
  BY DEF Reason, Replacing
<1>5. Fit(None, upd)
  BY <1>2, <1>3, <1>4, UpdatesFit DEF GoodUpdates, Counted
<1>6. Owning(None, upd)
  BY <1>2, <1>3 DEF Owning
<1>7. \A m \in DOMAIN upd : Outcome(m, upd[m].head.status, upd[m].reason, S, "deny")
  BY <1>2, <1>3, <1>4 DEF Outcome
<1>. QED  BY <1>1, <1>3, <1>5, <1>6, <1>7, BaseFacts, DecisionWrite

(* Approving the cards of S.                                               *)
LEMMA EnactCardsDecides ==
    ASSUME Base, NEW S, S \subseteq DOMAIN cards, NEW signal, signal # "deny",
           \A i \in S : heads[cards[i].candidate].status = "candidate",
           \A i \in S : cards[i].birthplace # "curator",
           EnactCards(S), UNCHANGED <<req, shown, lock>>
    PROVE  /\ Settles(S, signal) /\ edges' = edges \cup UNION {VerdictEdges(i) : i \in S}
           /\ \A i \in S : Enacted(i)
<1> DEFINE retired == UNION {Retired(i) : i \in S}
<1>1. TargetsStand(S) /\ edges' = edges \cup UNION {VerdictEdges(i) : i \in S}
  BY DEF EnactCards
<1>2. PICK label \in ApprovalLabels(S) :
          Write(None, [m \in retired \cup CandidateOf(S) |->
              IF m \in CandidateOf(S)
              THEN Change([heads[m] EXCEPT !.status = "active",
                                           !.label = label[CardOf(m, S)]], "approved")
              ELSE Change([heads[m] EXCEPT !.status = "tombstoned"],
                          cards[CHOOSE i \in S : m \in Retired(i)].verdict)])
  BY DEF EnactCards
<1> DEFINE upd == [m \in retired \cup CandidateOf(S) |->
              IF m \in CandidateOf(S)
              THEN Change([heads[m] EXCEPT !.status = "active",
                                           !.label = label[CardOf(m, S)]], "approved")
              ELSE Change([heads[m] EXCEPT !.status = "tombstoned"],
                          cards[CHOOSE i \in S : m \in Retired(i)].verdict)]
<1>3. ASSUME NEW m \in CandidateOf(S)
      PROVE  /\ m \in Units /\ heads[m].status = "candidate"
             /\ upd[m].head \in UnitRow
             /\ upd[m].head.principal = heads[m].principal
             /\ upd[m].head.origin = heads[m].origin
             /\ upd[m].head.reinforcements = heads[m].reinforcements
             /\ upd[m].head.status = "active" /\ upd[m].reason = "approved"
  <2>1. m \in Units /\ heads[m] \in UnitRow /\ heads[m].status = "candidate"
    BY CandidateFacts DEF CandidateOf
  <2>2. CardOf(m, S) \in S
    BY DEF CandidateOf, CardOf
  <2>3. label \in [S -> Label]
    BY DEF ApprovalLabels
  <2> DEFINE h == heads[m]
             l == label[CardOf(m, S)]
  <2>4. h \in UnitRow /\ l \in Label /\ "active" \in Status
    BY <2>1, <2>2, <2>3 DEF Status
  <2>5. upd[m].head = [h EXCEPT !.status = "active", !.label = l] /\ upd[m].reason = "approved"
    BY DEF Change
  <2>. HIDE DEF h, l, upd
  <2>6. /\ upd[m].head \in UnitRow /\ upd[m].head.principal = h.principal
        /\ upd[m].head.origin = h.origin /\ upd[m].head.status = "active"
        /\ upd[m].head.reinforcements = h.reinforcements
    BY <2>4, <2>5 DEF UnitRow
  <2>. QED  BY <2>1, <2>5, <2>6 DEF h
<1>4. ASSUME NEW i \in S, NEW m \in Retired(i)
      PROVE  /\ m \in Units /\ heads[m].status = "active" /\ m \notin CandidateOf(S)
             /\ upd[m].head \in UnitRow
             /\ upd[m].head.principal = heads[m].principal
             /\ upd[m].head.origin = heads[m].origin
             /\ upd[m].head.reinforcements = heads[m].reinforcements
             /\ upd[m].head.status = "tombstoned" /\ upd[m].reason = cards[i].verdict
             /\ cards[i].verdict \in Replacing
  <2>1. /\ m \in Active /\ cards[i].verdict \in Replacing
        /\ (CHOOSE j \in S : m \in Retired(j)) = i
    BY <1>1, TargetsOnce
  <2>2. m \in Units /\ heads[m].status = "active" /\ heads[m] \in UnitRow
    BY <2>1, BaseFacts DEF Active, Rows
  <2>3. m \notin CandidateOf(S) /\ m \in retired
    BY <2>2, <1>3
  <2> DEFINE h == heads[m]
  <2>4. upd[m].head = [h EXCEPT !.status = "tombstoned"] /\ upd[m].reason = cards[i].verdict
    BY <2>1, <2>3 DEF Change
  <2>5. h \in UnitRow /\ "tombstoned" \in Status
    BY <2>2 DEF Status
  <2>. HIDE DEF h, upd
  <2>6. /\ upd[m].head \in UnitRow /\ upd[m].head.principal = h.principal
        /\ upd[m].head.origin = h.origin /\ upd[m].head.status = "tombstoned"
        /\ upd[m].head.reinforcements = h.reinforcements
    BY <2>4, <2>5, HeadChanged
  <2>. QED  BY <2>1, <2>2, <2>3, <2>4, <2>6 DEF h
<1>5. /\ DOMAIN upd = retired \cup CandidateOf(S) /\ DOMAIN None = {} /\ Write(None, upd)
  BY <1>2 DEF None
<1>6. \A m \in DOMAIN upd : m \in CandidateOf(S) \/ \E i \in S : m \in Retired(i)
  BY <1>5
<1>7. CandidateOf(S) \subseteq DOMAIN upd /\ \A i \in S : Retired(i) \subseteq DOMAIN upd
  BY <1>5
<1>. HIDE DEF upd, retired
<1>8. "approved" \in Reason /\ Replacing \subseteq Reason /\ "approved" # "reinforced"
      /\ "approved" \notin Replacing /\ "reinforced" \notin Replacing
  BY DEF Reason, Replacing
<1>9. GoodUpdates(upd) /\ Counted(upd)
  BY <1>3, <1>4, <1>6, <1>8 DEF GoodUpdates, Counted
<1>10. Fit(None, upd) /\ Owning(None, upd)
  BY <1>3, <1>4, <1>5, <1>6, <1>9, UpdatesFit DEF Owning
<1>11. ASSUME NEW m \in DOMAIN upd
       PROVE  Outcome(m, upd[m].head.status, upd[m].reason, S, signal)
  <2>1. CASE m \in CandidateOf(S)
    <3>1. \E i \in S : cards[i].candidate = m /\ cards[i].birthplace # "curator"
      BY <2>1 DEF CandidateOf
    <3>. QED  BY <2>1, <3>1, <1>3, <1>8 DEF Outcome
  <2>2. CASE \E i \in S : m \in Retired(i)
    BY <2>2, <1>4 DEF Outcome
  <2>. QED  BY <1>6, <2>1, <2>2
<1>12. UNION {VerdictEdges(i) : i \in S} \subseteq Edge
  BY VerdictEdgesTyped
<1>13. Settles(S, signal)
  BY <1>1, <1>5, <1>10, <1>11, <1>12, BaseFacts, DecisionWrite
<1>14. ASSUME NEW i \in S PROVE Enacted(i)
  <2>1. VerdictEdges(i) \subseteq edges'
    BY <1>1
  <2>2. heads'[cards[i].candidate].status = "active"
    <3> DEFINE m == cards[i].candidate
    <3>1. m \in CandidateOf(S)
      BY DEF CandidateOf
    <3>. HIDE DEF m
    <3>2. heads'[m].status = upd[m].head.status
      BY <1>5, <1>7, <1>10, <3>1, BaseFacts, UpdatedRow DEF Fit
    <3>. QED  BY <1>3, <3>1, <3>2 DEF m
  <2>3. ASSUME NEW t \in Retired(i)
        PROVE  \E k \in DOMAIN history'[t] : history'[t][k].reason = cards[i].verdict
    <3>1. t \in DOMAIN upd /\ upd[t].reason = cards[i].verdict
      BY <1>4, <1>7
    <3>2. /\ heads[t].revision \in Nat
          /\ DOMAIN history'[t] = 1 .. heads[t].revision + 1
          /\ history'[t][heads[t].revision + 1].reason = upd[t].reason
      BY <1>5, <1>10, <3>1, BaseFacts, UpdatedRow DEF Fit
    <3>3. heads[t].revision + 1 \in DOMAIN history'[t]
      BY <3>2
    <3>. QED  BY <3>1, <3>2, <3>3
  <2>. QED  BY <2>1, <2>2, <2>3 DEF Enacted
<1>. QED  BY <1>1, <1>13, <1>14

LEMMA DecideRowsDecisive ==
    ASSUME Base, NEW S, S \subseteq DOMAIN cards, NEW signal \in Signal,
           \A i \in S : cards[i].birthplace # "curator", DecideRows(S, signal)
    PROVE  Decisive(S, signal)
<1>1. /\ S \cap Decided = {} /\ Record(S, signal) /\ UNCHANGED <<lock, req, shown, flow>>
      /\ \A i \in S : heads[cards[i].candidate].status = "candidate"
  BY DEF DecideRows, StillCandidates
<1>2. CASE signal = "deny" /\ RejectCards(S)
  <2>1. Settles(S, signal) /\ edges' = edges
    BY <1>1, <1>2, RejectCardsDecides
  <2>. QED  BY <1>1, <1>2, <2>1 DEF Decisive
<1>3. CASE signal # "deny" /\ EnactCards(S)
  <2>1. /\ Settles(S, signal) /\ edges' = edges \cup UNION {VerdictEdges(i) : i \in S}
        /\ \A i \in S : Enacted(i)
    BY <1>1, <1>3, EnactCardsDecides
  <2>. QED  BY <1>1, <1>3, <2>1 DEF Decisive
<1>. QED  BY <1>2, <1>3 DEF DecideRows

LEMMA CuratorDecidedFacts ==
    ASSUME Base, NEW i \in DOMAIN cards, NEW signal \in {"approve", "deny"},
           CuratorDecided(i, signal)
    PROVE  /\ {i} \subseteq DOMAIN cards /\ {i} \cap Decided = {} /\ signal \in Signal
           /\ Record({i}, signal) /\ UNCHANGED <<lock, req, shown, flow>>
           /\ cards[i].birthplace = "curator"
           /\ heads[cards[i].candidate].revision = cards[i].judged
BY DEF CuratorDecided, CuratorCurrent, Signal

LEMMA CuratorDenyDecisive ==
    ASSUME Base, NEW i \in DOMAIN cards, CuratorDeny(i)
    PROVE  Decisive({i}, "deny")
<1> DEFINE m == cards[i].candidate
           old == heads[m]
           h == [old EXCEPT !.status = "tombstoned"]
<1>1. /\ {i} \subseteq DOMAIN cards /\ {i} \cap Decided = {} /\ "deny" \in Signal
      /\ Record({i}, "deny") /\ UNCHANGED <<lock, req, shown, flow>>
  BY CuratorDecidedFacts DEF CuratorDeny
<1>2. edges' = edges
  BY DEF CuratorDeny
<1>3. CASE UNCHANGED <<heads, history>>
  <2>1. Settles({i}, "deny")
    BY <1>1, <1>2, <1>3, BaseFacts, StillSettles
  <2>. QED  BY <1>1, <1>2, <2>1 DEF Decisive
<1>4. CASE /\ heads[m].status = "candidate"
           /\ Write(None, Only(m, Change(h, "rejected")))
  <2>1. m \in Units /\ old \in UnitRow
    BY CandidateFacts
  <2>2. /\ h \in UnitRow /\ h.principal = old.principal /\ h.origin = old.origin
        /\ h.reinforcements = old.reinforcements /\ h.status = "tombstoned"
    <3>. HIDE DEF old
    <3>. QED  BY <2>1, HeadChanged DEF Status
  <2> DEFINE upd == Only(m, Change(h, "rejected"))
  <2>3. "rejected" \in Reason /\ "rejected" \notin Replacing /\ "rejected" # "reinforced"
    BY DEF Reason, Replacing
  <2>4. DOMAIN upd = {m} /\ upd[m].head = h /\ upd[m].reason = "rejected" /\ DOMAIN None = {}
    BY DEF Only, Change, None
  <2>. HIDE DEF h, m
  <2>5. Fit(None, upd)
    BY <2>1, <2>2, <2>3, LoneChangeFit
  <2>. HIDE DEF upd
  <2>6. Owning(None, upd)
    BY <2>2, <2>4 DEF Owning
  <2>7. \A x \in DOMAIN upd : Outcome(x, upd[x].head.status, upd[x].reason, {i}, "deny")
    BY <1>4, <2>2, <2>3, <2>4 DEF Outcome
  <2>8. Settles({i}, "deny")
    BY <1>1, <1>2, <1>4, <2>4, <2>5, <2>6, <2>7, BaseFacts, DecisionWrite DEF upd
  <2>. QED  BY <1>1, <1>2, <2>8 DEF Decisive
<1>. QED  BY <1>3, <1>4 DEF CuratorDeny

(* Decisions that write the candidate's head only, and no edge.            *)
LEMMA CuratorChangeDecisive ==
    ASSUME Base, NEW i \in DOMAIN cards, CuratorDecided(i, "approve"),
           NEW h \in UnitRow, NEW reason \in Reason \ Replacing, reason # "reinforced",
           h.principal = heads[cards[i].candidate].principal,
           h.origin = heads[cards[i].candidate].origin,
           h.reinforcements = heads[cards[i].candidate].reinforcements,
           h.status \in {"tombstoned", heads[cards[i].candidate].status},
           cards[i].verdict \notin Replacing \cup {"contradict"},
           reason = CuratorReason(cards[i].verdict),
           Write(None, Only(cards[i].candidate, Change(h, reason))), edges' = edges
    PROVE  Decisive({i}, "approve")
<1> DEFINE m == cards[i].candidate
           upd == Only(m, Change(h, reason))
<1>1. /\ {i} \subseteq DOMAIN cards /\ {i} \cap Decided = {} /\ "approve" \in Signal
      /\ Record({i}, "approve") /\ UNCHANGED <<lock, req, shown, flow>>
      /\ cards[i].birthplace = "curator" /\ heads[m].revision = cards[i].judged
  BY CuratorDecidedFacts
<1>2. m \in Units
  BY CandidateFacts
<1>3. DOMAIN upd = {m} /\ upd[m].head = h /\ upd[m].reason = reason /\ DOMAIN None = {}
  BY DEF Only, Change, None
<1>4. Write(None, upd)
  OBVIOUS
<1>5. Fit(None, upd)
  BY <1>2, LoneChangeFit
<1>6. \A x \in DOMAIN upd : Outcome(x, upd[x].head.status, upd[x].reason, {i}, "approve")
  BY <1>1, <1>3 DEF Outcome
<1>7. Owning(None, upd)
  BY <1>3 DEF Owning
<1>. HIDE DEF m, upd
<1>8. Settles({i}, "approve")
  BY <1>1, <1>3, <1>4, <1>5, <1>6, <1>7, BaseFacts, DecisionWrite
<1>9. /\ heads[m].revision \in Nat /\ DOMAIN history'[m] = 1 .. heads[m].revision + 1
      /\ history'[m][heads[m].revision + 1].reason = upd[m].reason
  BY <1>3, <1>4, <1>5, BaseFacts, UpdatedRow DEF Fit
<1>10. VerdictEdges(i) = {} /\ Retired(i) = {}
  BY DEF VerdictEdges, Implicated, Retired
<1>11. /\ cards[i].judged + 1 \in DOMAIN history'[m]
       /\ history'[m][cards[i].judged + 1].reason = CuratorReason(cards[i].verdict)
  BY <1>1, <1>3, <1>9
<1>12. Enacted(i)
  BY <1>10, <1>11 DEF Enacted, m
<1>. QED  BY <1>1, <1>8, <1>12 DEF Decisive

LEMMA CuratorRetireDecisive ==
    ASSUME Base, NEW i \in DOMAIN cards, CuratorRetire(i)
    PROVE  Decisive({i}, "approve")
<1> DEFINE m == cards[i].candidate
           old == heads[m]
           h == [old EXCEPT !.status = "tombstoned"]
<1>1. /\ CuratorDecided(i, "approve") /\ cards[i].verdict = "retire"
      /\ Write(None, Only(m, Change(h, "retire"))) /\ edges' = edges
  BY DEF CuratorRetire
<1>2. old \in UnitRow
  BY CandidateFacts
<1>3. /\ h \in UnitRow /\ h.principal = old.principal /\ h.origin = old.origin
      /\ h.reinforcements = old.reinforcements /\ h.status = "tombstoned"
  <2>. HIDE DEF old
  <2>. QED  BY <1>2, HeadChanged DEF Status
<1>4. /\ "retire" \in Reason \ Replacing /\ "retire" # "reinforced"
      /\ cards[i].verdict \notin Replacing \cup {"contradict"}
      /\ "retire" = CuratorReason(cards[i].verdict)
  BY <1>1 DEF Reason, Replacing, CuratorReason
<1>. HIDE DEF h
<1>. QED  BY <1>1, <1>3, <1>4, CuratorChangeDecisive

LEMMA CuratorKeywordsDecisive ==
    ASSUME Base, NEW i \in DOMAIN cards, CuratorKeywords(i)
    PROVE  Decisive({i}, "approve")
<1> DEFINE h == heads[cards[i].candidate]
<1>1. /\ CuratorDecided(i, "approve") /\ cards[i].verdict = "keyword_repair"
      /\ Write(None, Only(cards[i].candidate, Change(h, "keyword-repair"))) /\ edges' = edges
  BY DEF CuratorKeywords
<1>2. h \in UnitRow
  BY CandidateFacts
<1>3. /\ "keyword-repair" \in Reason \ Replacing /\ "keyword-repair" # "reinforced"
      /\ cards[i].verdict \notin Replacing \cup {"contradict"}
      /\ "keyword-repair" = CuratorReason(cards[i].verdict)
  BY <1>1 DEF Reason, Replacing, CuratorReason
<1>. QED  BY <1>1, <1>2, <1>3, CuratorChangeDecisive

LEMMA CuratorContradictDecisive ==
    ASSUME Base, NEW i \in DOMAIN cards, CuratorContradict(i)
    PROVE  Decisive({i}, "approve")
<1>1. /\ CuratorDecided(i, "approve") /\ cards[i].verdict = "contradict"
      /\ edges' = edges \cup VerdictEdges(i) /\ UNCHANGED <<heads, history>>
  BY DEF CuratorContradict
<1>2. /\ {i} \subseteq DOMAIN cards /\ {i} \cap Decided = {} /\ "approve" \in Signal
      /\ Record({i}, "approve") /\ UNCHANGED <<lock, req, shown, flow>>
  BY <1>1, CuratorDecidedFacts
<1>3. edges' \subseteq Edge
  BY <1>1, BaseFacts, VerdictEdgesTyped
<1>4. Settles({i}, "approve")
  BY <1>1, <1>2, <1>3, StillSettles
<1>5. Retired(i) = {}
  BY <1>1 DEF Retired, Replacing
<1>6. Enacted(i)
  BY <1>1, <1>5 DEF Enacted
<1>. QED  BY <1>1, <1>2, <1>4, <1>6 DEF Decisive

LEMMA ActivatedTyped ==
    ASSUME NEW m, heads[m] \in UnitRow, NEW amended \in Amendments \cup {Keep}
    PROVE  /\ Activated(m, amended) \in UnitRow
           /\ Activated(m, amended).principal = heads[m].principal
           /\ Activated(m, amended).origin = heads[m].origin
           /\ Activated(m, amended).reinforcements = heads[m].reinforcements
           /\ Activated(m, amended).status = "active"
<1> DEFINE h == heads[m]
           b == IF amended = Keep THEN h.body ELSE amended
<1>1. h \in UnitRow /\ b \in Body /\ "active" \in Status
  BY QueueAssumption DEF UnitRow, Status
<1>2. Activated(m, amended) = [h EXCEPT !.status = "active", !.body = b]
  BY DEF Activated, UnitRow
<1>. HIDE DEF b, h
<1>3. /\ Activated(m, amended) \in UnitRow
      /\ Activated(m, amended).principal = h.principal
      /\ Activated(m, amended).origin = h.origin
      /\ Activated(m, amended).reinforcements = h.reinforcements
      /\ Activated(m, amended).status = "active"
  BY <1>1, <1>2 DEF UnitRow
<1>. QED  BY <1>3 DEF h

LEMMA CuratorReplaceDecisive ==
    ASSUME Base, NEW i \in DOMAIN cards, NEW amended \in Amendments \cup {Keep},
           CuratorReplace(i, amended)
    PROVE  Decisive({i}, "approve")
<1> DEFINE m == cards[i].candidate
           upd == [n \in {m} \cup Retired(i) |->
                     IF n = m THEN Change(Activated(m, amended), "activate")
                     ELSE Change([heads[n] EXCEPT !.status = "tombstoned"], cards[i].verdict)]
<1>1. /\ CuratorDecided(i, "approve") /\ cards[i].verdict \in Replacing
      /\ heads[m].status = "candidate" /\ TargetsStand({i})
      /\ Write(None, upd) /\ edges' = edges \cup VerdictEdges(i)
  BY DEF CuratorReplace
<1>2. /\ {i} \subseteq DOMAIN cards /\ {i} \cap Decided = {} /\ "approve" \in Signal
      /\ Record({i}, "approve") /\ UNCHANGED <<lock, req, shown, flow>>
      /\ cards[i].birthplace = "curator" /\ heads[m].revision = cards[i].judged
  BY <1>1, CuratorDecidedFacts
<1>3. m \in Units /\ heads[m] \in UnitRow
  BY CandidateFacts
<1>4. /\ upd[m].head \in UnitRow /\ upd[m].head.principal = heads[m].principal
      /\ upd[m].head.origin = heads[m].origin
      /\ upd[m].head.reinforcements = heads[m].reinforcements
      /\ upd[m].head.status = "active" /\ upd[m].reason = "activate"
  <2>1. upd[m].head = Activated(m, amended) /\ upd[m].reason = "activate"
    BY DEF Change
  <2>. HIDE DEF upd, m
  <2>. QED  BY <1>3, <2>1, ActivatedTyped
<1>5. ASSUME NEW t \in Retired(i)
      PROVE  /\ t \in Units /\ heads[t].status = "active" /\ t # m
             /\ upd[t].head \in UnitRow
             /\ upd[t].head.principal = heads[t].principal
             /\ upd[t].head.origin = heads[t].origin
             /\ upd[t].head.reinforcements = heads[t].reinforcements
             /\ upd[t].head.status = "tombstoned" /\ upd[t].reason = cards[i].verdict
  <2>1. t \in Active
    BY <1>1, <1>2, TargetsOnce
  <2>2. t \in Units /\ heads[t].status = "active" /\ heads[t] \in UnitRow /\ t # m
    BY <1>1, <2>1, BaseFacts DEF Active, Rows
  <2> DEFINE h == heads[t]
  <2>3. upd[t].head = [h EXCEPT !.status = "tombstoned"] /\ upd[t].reason = cards[i].verdict
    BY <2>2 DEF Change
  <2>4. h \in UnitRow /\ "tombstoned" \in Status
    BY <2>2 DEF Status
  <2>. HIDE DEF h, upd, m
  <2>5. /\ upd[t].head \in UnitRow /\ upd[t].head.principal = h.principal
        /\ upd[t].head.origin = h.origin /\ upd[t].head.status = "tombstoned"
        /\ upd[t].head.reinforcements = h.reinforcements
    BY <2>3, <2>4, HeadChanged
  <2>. QED  BY <2>2, <2>3, <2>5 DEF h
<1>6. DOMAIN upd = {m} \cup Retired(i) /\ DOMAIN None = {}
  BY DEF None
<1>. HIDE DEF upd, m
<1>7. /\ "activate" \in Reason /\ Replacing \subseteq Reason /\ "activate" # "reinforced"
      /\ "activate" \notin Replacing /\ "reinforced" \notin Replacing
      /\ CuratorReason(cards[i].verdict) = "activate" /\ cards[i].verdict # "contradict"
  BY <1>1 DEF Reason, Replacing, CuratorReason
<1>8. GoodUpdates(upd) /\ Counted(upd)
  BY <1>1, <1>3, <1>4, <1>5, <1>6, <1>7 DEF GoodUpdates, Counted
<1>9. Fit(None, upd) /\ Owning(None, upd)
  BY <1>4, <1>5, <1>6, <1>8, UpdatesFit DEF Owning
<1>10. Outcome(m, upd[m].head.status, upd[m].reason, {i}, "approve")
  BY <1>1, <1>4, <1>7 DEF Outcome, m
<1>11. \A t \in Retired(i) : Outcome(t, upd[t].head.status, upd[t].reason, {i}, "approve")
  BY <1>5 DEF Outcome
<1>12. edges' \subseteq Edge
  BY <1>1, BaseFacts, VerdictEdgesTyped
<1>13. Settles({i}, "approve")
  BY <1>1, <1>2, <1>6, <1>9, <1>10, <1>11, <1>12, DecisionWrite
<1>14. /\ heads'[m].status = upd[m].head.status
       /\ heads[m].revision \in Nat /\ DOMAIN history'[m] = 1 .. heads[m].revision + 1
       /\ history'[m][heads[m].revision + 1].reason = upd[m].reason
  BY <1>1, <1>6, <1>9, BaseFacts, UpdatedRow DEF Fit
<1>15. ASSUME NEW t \in Retired(i)
       PROVE  \E k \in DOMAIN history'[t] : history'[t][k].reason = cards[i].verdict
  <2>1. /\ heads[t].revision \in Nat
        /\ DOMAIN history'[t] = 1 .. heads[t].revision + 1
        /\ history'[t][heads[t].revision + 1].reason = upd[t].reason
    BY <1>1, <1>6, <1>9, BaseFacts, UpdatedRow DEF Fit
  <2>2. heads[t].revision + 1 \in DOMAIN history'[t]
    BY <2>1
  <2>. QED  BY <1>5, <2>1, <2>2
<1>16. /\ cards[i].judged + 1 \in DOMAIN history'[m]
       /\ history'[m][cards[i].judged + 1].reason = CuratorReason(cards[i].verdict)
  BY <1>2, <1>4, <1>7, <1>14
<1>17. heads'[m].status = "active"
  BY <1>4, <1>14
<1>18. Enacted(i)
  BY <1>1, <1>15, <1>16, <1>17 DEF Enacted, m
<1>. QED  BY <1>1, <1>2, <1>13, <1>18 DEF Decisive

LEMMA CuratorSplitDecisive ==
    ASSUME Base, NEW i \in DOMAIN cards, NEW left \in Drafts, NEW right \in Drafts,
           CuratorSplit(i, left, right)
    PROVE  Decisive({i}, "approve")
<1> DEFINE m == cards[i].candidate
           up == <<m, heads[m].revision + 1>>
           child(d) == Root(heads[m].principal, d.label, d.body, "active", Inherited(m), up,
                            "curator-child")
           old == heads[m]
           h == [old EXCEPT !.status = "tombstoned"]
           upd == Only(m, Change(h, "split-source"))
<1>1. CuratorDecided(i, "approve") /\ cards[i].verdict = "split" /\ m \in Active
  BY DEF CuratorSplit
<1>2. PICK x \in Fresh, y \in Fresh :
          /\ x # y
          /\ Write([n \in {x, y} |-> child(IF n = x THEN left ELSE right)], upd)
          /\ edges' = edges \cup Siblings({x, y})
  BY DEF CuratorSplit
<1> DEFINE ins == [n \in {x, y} |-> child(IF n = x THEN left ELSE right)]
<1>3. /\ {i} \subseteq DOMAIN cards /\ {i} \cap Decided = {} /\ "approve" \in Signal
      /\ Record({i}, "approve") /\ UNCHANGED <<lock, req, shown, flow>>
      /\ cards[i].birthplace = "curator" /\ heads[m].revision = cards[i].judged
  BY <1>1, CuratorDecidedFacts
<1>4. /\ m \in Units /\ m \in Mem /\ old \in UnitRow /\ heads[m].status = "active"
      /\ heads[m].revision \in Nat
  BY <1>1, CandidateFacts, BaseFacts DEF Active, Rows
<1>5. /\ h \in UnitRow /\ h.principal = old.principal /\ h.origin = old.origin
      /\ h.reinforcements = old.reinforcements /\ h.status = "tombstoned"
  <2>. HIDE DEF old
  <2>. QED  BY <1>4, HeadChanged DEF Status
<1>6. DOMAIN upd = {m} /\ upd[m].head = h /\ upd[m].reason = "split-source"
  BY DEF Only, Change
<1>7. ASSUME NEW n \in {x, y}
      PROVE  /\ ins[n].head \in UnitRow /\ ins[n].head.revision = 1
             /\ ins[n].head.reinforcements = 0 /\ ins[n].head.status = "active"
             /\ ins[n].head.principal = heads[m].principal
             /\ ins[n].head.origin \in Batch \cup {NoOrigin}
             /\ ins[n].parent = up /\ ins[n].reason = "curator-child"
  <2> DEFINE d == IF n = x THEN left ELSE right
             o == Inherited(m)
             p == heads[m].principal
  <2>1. d \in Draft
    BY DraftsAssumption
  <2>2. d.label \in Label /\ d.body \in Body
    BY <2>1, PlainLabels DEF Draft
  <2>3. o \in Batch \cup {NoOrigin} /\ o \in Origin \cup {NoOrigin}
    BY InheritedTyped, QueueAssumption
  <2>4. p \in Principal
    BY <1>4 DEF UnitRow
  <2>5. ins[n] = Root(p, d.label, d.body, "active", o, up, "curator-child")
    OBVIOUS
  <2>. HIDE DEF d, o, p, ins, up
  <2>6. /\ ins[n].head \in UnitRow /\ ins[n].head.revision = 1
        /\ ins[n].head.reinforcements = 0 /\ ins[n].head.status = "active"
        /\ ins[n].head.principal = p /\ ins[n].head.origin = o
        /\ ins[n].parent = up /\ ins[n].reason = "curator-child"
    BY <2>2, <2>3, <2>4, <2>5 DEF Root, UnitRow, Status
  <2>. QED  BY <2>3, <2>6 DEF p
<1>8. DOMAIN ins = {x, y} /\ x \notin Units /\ y \notin Units /\ Write(ins, upd)
  BY <1>2 DEF Fresh
<1>9. up \in RevUid /\ up[1] = m /\ up[2] = heads[m].revision + 1
  BY <1>4 DEF RevUid
<1>. HIDE DEF ins, upd, h, up, m
<1>10. /\ HeadsAfter(ins, upd)[m].revision = heads[m].revision + 1
       /\ HeadsAfter(ins, upd)[m].principal = heads[m].principal
  <2>1. HeadsAfter(ins, upd)[m] = [h EXCEPT !.revision = heads[m].revision + 1]
    BY <1>4, <1>6, <1>8 DEF HeadsAfter
  <2>. QED  BY <1>5, <2>1 DEF UnitRow
<1>11. /\ {"split-source", "curator-child"} \subseteq Reason
       /\ "split-source" # "reinforced" /\ "curator-child" # "reinforced"
       /\ "split-source" \notin Replacing /\ "curator-child" \in Births
       /\ cards[i].verdict \notin Replacing \cup {"contradict"}
       /\ CuratorReason(cards[i].verdict) = "split-source"
  BY <1>1 DEF Reason, Replacing, Births, CuratorReason
<1>12. Fit(ins, upd)
  <2>1. GoodInserts(ins) /\ Uncounted(ins)
    BY <1>7, <1>8, <1>9, <1>11 DEF GoodInserts, Uncounted
  <2>2. GoodUpdates(upd) /\ Counted(upd)
    BY <1>4, <1>5, <1>6, <1>11 DEF GoodUpdates, Counted
  <2>3. Descending(ins, upd)
    <3>1. up[2] \in 1 .. HeadsAfter(ins, upd)[m].revision
      BY <1>4, <1>9, <1>10
    <3>. QED  BY <1>4, <1>7, <1>8, <1>9, <3>1 DEF Descending
  <2>. QED  BY <2>1, <2>2, <2>3 DEF Fit
<1>13. Owning(ins, upd)
  BY <1>5, <1>6, <1>7, <1>8, <1>9, <1>10 DEF Owning
<1>14. \A n \in DOMAIN upd : Outcome(n, upd[n].head.status, upd[n].reason, {i}, "approve")
  BY <1>4, <1>5, <1>6, <1>11 DEF Outcome
<1>15. edges' \subseteq Edge /\ Siblings({x, y}) \subseteq Edge
  <2>1. Siblings({x, y}) \subseteq Edge
    BY DEF Siblings, Edge, EdgeType, Fresh
  <2>. QED  BY <1>2, <2>1, BaseFacts
<1>16. Settles({i}, "approve")
  BY <1>3, <1>7, <1>8, <1>11, <1>12, <1>13, <1>14, <1>15, DecisionWrite
<1>17. /\ DOMAIN history'[m] = 1 .. heads[m].revision + 1
       /\ history'[m][heads[m].revision + 1].reason = upd[m].reason
  BY <1>6, <1>8, <1>12, BaseFacts, UpdatedRow DEF Fit
<1>18. /\ cards[i].judged + 1 \in DOMAIN history'[m]
       /\ history'[m][cards[i].judged + 1].reason = CuratorReason(cards[i].verdict)
  BY <1>3, <1>4, <1>6, <1>11, <1>17
<1>19. VerdictEdges(i) = {} /\ Retired(i) = {}
  BY <1>11 DEF VerdictEdges, Implicated, Retired
<1>20. Enacted(i)
  BY <1>18, <1>19 DEF Enacted, m
<1>21. edges \subseteq edges' /\ \A e \in edges' \ edges : e.type = "relates_to"
  BY <1>2, SiblingsRelate
<1>. QED  BY <1>3, <1>16, <1>20, <1>21 DEF Decisive

-----------------------------------------------------------------------------
(* Every step of the queue decides nothing or decides some cards.          *)
LEMMA DecideDecisive ==
    ASSUME Base, DecideNext
    PROVE  \E S \in SUBSET DOMAIN cards, signal \in Signal : Decisive(S, signal)
<1>1. CASE \E i \in DOMAIN cards, signal \in Signal : Decide(i, signal)
  <2>1. PICK i \in DOMAIN cards, signal \in Signal : Decide(i, signal)
    BY <1>1
  <2>2. DecideRows({i}, signal) /\ \A j \in {i} : cards[j].birthplace # "curator"
    BY <2>1 DEF Decide
  <2>3. {i} \in SUBSET DOMAIN cards
    OBVIOUS
  <2>4. Decisive({i}, signal)
    BY <2>2, <2>3, DecideRowsDecisive
  <2>. QED  BY <2>3, <2>4
<1>2. CASE \E b \in Batch, signal \in Signal : DecideBatch(b, signal)
  <2>1. PICK b \in Batch, signal \in Signal : DecideBatch(b, signal)
    BY <1>2
  <2> DEFINE S == {i \in BatchRows(b) : cards[i].state = "pending"}
  <2>2. /\ DecideRows(S, signal) /\ S \in SUBSET DOMAIN cards
        /\ \A j \in S : cards[j].birthplace # "curator"
    BY <2>1 DEF DecideBatch, BatchRows
  <2>. HIDE DEF S
  <2>3. Decisive(S, signal)
    BY <2>2, DecideRowsDecisive
  <2>. QED  BY <2>2, <2>3
<1>3. CASE \E i \in DOMAIN cards :
          \/ CuratorDeny(i)
          \/ \E a \in Amendments \cup {Keep} : CuratorReplace(i, a)
          \/ CuratorContradict(i)
          \/ CuratorRetire(i)
          \/ CuratorKeywords(i)
          \/ \E d, e \in Drafts : CuratorSplit(i, d, e)
  <2>1. PICK i \in DOMAIN cards :
          \/ CuratorDeny(i)
          \/ \E a \in Amendments \cup {Keep} : CuratorReplace(i, a)
          \/ CuratorContradict(i)
          \/ CuratorRetire(i)
          \/ CuratorKeywords(i)
          \/ \E d, e \in Drafts : CuratorSplit(i, d, e)
    BY <1>3
  <2>2. Decisive({i}, "deny") \/ Decisive({i}, "approve")
    BY <2>1, CuratorDenyDecisive, CuratorReplaceDecisive, CuratorContradictDecisive,
       CuratorRetireDecisive, CuratorKeywordsDecisive, CuratorSplitDecisive
  <2>3. {i} \in SUBSET DOMAIN cards /\ {"deny", "approve"} \subseteq Signal
    BY DEF Signal
  <2>. QED  BY <2>2, <2>3
<1>. QED  BY <1>1, <1>2, <1>3 DEF DecideNext

LEMMA HandlerQuiet ==
    ASSUME Base, NEW c \in Client, HandlerNext(c), UNCHANGED flow
    PROVE  Quiet /\ NoProposal
<1>1. /\ Inv' /\ Evolves /\ Gentle /\ NoProposal /\ Relating
      /\ UNCHANGED <<cards, decisions>>
  BY HandlerGentle DEF Base
<1>2. flow' \in [Worker -> Flow] /\ WorkersRefer'
  BY <1>1, WorkersStay
<1>. QED  BY <1>1, <1>2 DEF Quiet, Undecided

LEMMA StutterQuiet ==
    ASSUME Base, UNCHANGED queueVars
    PROVE  Quiet /\ NoProposal
<1>1. UNCHANGED <<heads, history, edges, cards, decisions, lock, req, shown, flow>>
  BY DEF queueVars, memoryVars, tables
<1>2. Inv'
  BY <1>1, Before, ReadOnlyInv DEF Base
<1>3. Evolves /\ Gentle /\ NoProposal
  BY <1>1, StillGentle, StillNoProposal DEF Base
<1>4. flow' \in [Worker -> Flow] /\ WorkersRefer'
  BY <1>1, <1>2, <1>3, WorkersStay
<1>. QED  BY <1>1, <1>2, <1>3, <1>4 DEF Quiet, Undecided, Relating

LEMMA QueueStepKinds ==
    ASSUME Base, [QueueNext]_queueVars
    PROVE  Quiet \/ \E S \in SUBSET DOMAIN cards, signal \in Signal : Decisive(S, signal)
BY HandlerQuiet, StutterQuiet, WorkerQuiet, DecideDecisive DEF QueueNext

(* What Record does to the queue's two tables.                             *)
LEMMA Recorded ==
    ASSUME Base, NEW S \in SUBSET DOMAIN cards, NEW signal \in Signal, Record(S, signal)
    PROVE  /\ cards' \in Seq(Card) /\ DOMAIN cards' = DOMAIN cards
           /\ decisions' \subseteq Decision
           /\ \A i \in DOMAIN cards :
                /\ cards'[i].candidate = cards[i].candidate
                /\ cards'[i].principal = cards[i].principal
                /\ cards'[i].birthplace = cards[i].birthplace
                /\ cards'[i].batch = cards[i].batch
                /\ cards'[i].judged = cards[i].judged
                /\ cards'[i].verdict = cards[i].verdict
                /\ cards'[i].targets = cards[i].targets
                /\ cards'[i].state = IF i \in S THEN StateAfter(signal) ELSE cards[i].state
<1>1. /\ cards \in Seq(Card) /\ DOMAIN cards = 1 .. Len(cards) /\ Len(cards) \in Nat
  BY DEF Base
<1>2. /\ DOMAIN cards' = DOMAIN cards
      /\ \A i \in DOMAIN cards : cards'[i] = IF i \in S
                                             THEN [cards[i] EXCEPT !.state = StateAfter(signal)]
                                             ELSE cards[i]
      /\ cards' = [i \in 1 .. Len(cards) |-> cards'[i]]
  BY <1>1 DEF Record
<1>3. StateAfter(signal) \in {"approved", "rejected"}
  BY DEF StateAfter
<1>4. ASSUME NEW i \in DOMAIN cards
      PROVE  /\ cards'[i] \in Card
             /\ cards'[i].candidate = cards[i].candidate
             /\ cards'[i].principal = cards[i].principal
             /\ cards'[i].birthplace = cards[i].birthplace
             /\ cards'[i].batch = cards[i].batch
             /\ cards'[i].judged = cards[i].judged
             /\ cards'[i].verdict = cards[i].verdict
             /\ cards'[i].targets = cards[i].targets
             /\ cards'[i].state = IF i \in S THEN StateAfter(signal) ELSE cards[i].state
  <2> DEFINE c == cards[i]
             s == StateAfter(signal)
  <2>1. c \in Card /\ s \in {"approved", "rejected"}
    BY <1>1, <1>3
  <2>2. cards'[i] = IF i \in S THEN [c EXCEPT !.state = s] ELSE c
    BY <1>2
  <2>. HIDE DEF c, s
  <2>3. /\ cards'[i] \in Card
        /\ cards'[i].candidate = c.candidate /\ cards'[i].principal = c.principal
        /\ cards'[i].birthplace = c.birthplace /\ cards'[i].batch = c.batch
        /\ cards'[i].judged = c.judged /\ cards'[i].verdict = c.verdict
        /\ cards'[i].targets = c.targets
        /\ cards'[i].state = IF i \in S THEN s ELSE c.state
    BY <2>1, <2>2 DEF Card
  <2>. QED  BY <2>3 DEF c, s
<1>5. cards' \in Seq(Card)
  <2>1. cards' \in [1 .. Len(cards) -> Card]
    BY <1>1, <1>2, <1>4
  <2>. QED  BY <1>1, <2>1
<1>6. decisions' \subseteq Decision
  <2>1. \A i \in S : i \in Nat \ {0}
    BY <1>1
  <2>. QED  BY <2>1 DEF Record, Decision, Base
<1>. QED  BY <1>2, <1>4, <1>5, <1>6

LEMMA DecisiveBase ==
    ASSUME Base, NEW S \in SUBSET DOMAIN cards, NEW signal \in Signal, Decisive(S, signal)
    PROVE  Base'
<1>1. Inv' /\ Evolves /\ Record(S, signal) /\ UNCHANGED flow
  BY DEF Decisive, Settles
<1>2. flow' \in [Worker -> Flow] /\ WorkersRefer'
  BY <1>1, WorkersStay
<1>3. /\ cards' \in Seq(Card) /\ DOMAIN cards' = DOMAIN cards
      /\ decisions' \subseteq Decision
      /\ \A i \in DOMAIN cards : /\ cards'[i].candidate = cards[i].candidate
                                 /\ cards'[i].principal = cards[i].principal
                                 /\ cards'[i].birthplace = cards[i].birthplace
                                 /\ cards'[i].verdict = cards[i].verdict
  BY <1>1, Recorded
<1>4. \A i \in DOMAIN cards' : CardRefers(heads', cards'[i])
  <2>1. \A i \in DOMAIN cards : CardRefers(heads', cards[i])
    BY <1>1, CardStays DEF Base, CardsRefer
  <2>. QED  BY <1>3, <2>1 DEF CardRefers
<1>5. CardsRefer'
  BY <1>4 DEF CardsRefer
<1>6. Kinship' /\ LabelIndex'
  BY <1>1 DEF Evolves
<1>. QED  BY <1>1, <1>2, <1>3, <1>5, <1>6 DEF Base

LEMMA QuietBase ==
    ASSUME Base, Quiet PROVE Base'
BY BaseKept DEF Quiet

LEMMA InitBase ==
    ASSUME QueueInit PROVE Base
<1>1. Init /\ flow = [w \in Worker |-> Idle]
  BY DEF QueueInit
<1>2. /\ heads = [m \in {} |-> m] /\ cards = <<>> /\ decisions = {}
  BY <1>1 DEF Init, EmptyTables, None
<1>3. Kinship /\ LabelIndex
  BY <1>2 DEF Kinship, LabelIndex, ActiveLabelIndex, Units
<1>4. cards \in Seq(Card) /\ DOMAIN cards = {}
  BY <1>2
<1>5. flow \in [Worker -> Flow] /\ WorkersRefer
  BY <1>1, IdleFlow DEF WorkersRefer
<1>. QED  BY <1>1, <1>2, <1>3, <1>4, <1>5, InitInv DEF Base, CardsRefer

-----------------------------------------------------------------------------
(* Cards and their decisions.                                              *)
Signals(i) == {d.signal : d \in {d \in decisions : d.item = i}}

Matched(i) ==
    /\ cards[i].state = "pending" => Signals(i) = {}
    /\ cards[i].state = "approved" => Signals(i) \in {{"approve"}, {"passive"}}
    /\ cards[i].state = "rejected" => Signals(i) = {"deny"}

LEMMA MatchedCards ==
    ASSUME cards \in Seq(Card)
    PROVE  DecisionsMatchCards <=> Decided \subseteq DOMAIN cards /\ \A i \in DOMAIN cards : Matched(i)
<1>1. \A c \in Card : c.state \in {"pending", "approved", "rejected"}
  BY DEF Card
<1>2. ASSUME NEW i \in DOMAIN cards PROVE cards[i].state \in {"pending", "approved", "rejected"}
  <2>1. cards[i] \in Card
    OBVIOUS
  <2>. QED  BY <1>1, <2>1
<1>3. ASSUME NEW i \in DOMAIN cards
      PROVE  Matched(i) <=>
              CASE cards[i].state = "pending" -> Signals(i) = {}
                [] cards[i].state = "approved" -> Signals(i) \in {{"approve"}, {"passive"}}
                [] cards[i].state = "rejected" -> Signals(i) = {"deny"}
  BY <1>2 DEF Matched
<1>. QED  BY <1>3 DEF DecisionsMatchCards, Signals

LEMMA MatchedNext ==
    ASSUME cards' \in Seq(Card), Decided' \subseteq DOMAIN cards',
           \A i \in DOMAIN cards' : Matched(i)'
    PROVE  DecisionsMatchCards'
<1>1. \A c \in Card : c.state \in {"pending", "approved", "rejected"}
  BY DEF Card
<1>2. ASSUME NEW i \in DOMAIN cards' PROVE cards'[i].state \in {"pending", "approved", "rejected"}
  <2>1. cards'[i] \in Card
    OBVIOUS
  <2>. QED  BY <1>1, <2>1
<1>3. ASSUME NEW i \in DOMAIN cards'
      PROVE  CASE cards'[i].state = "pending" -> Signals(i)' = {}
               [] cards'[i].state = "approved" -> Signals(i)' \in {{"approve"}, {"passive"}}
               [] cards'[i].state = "rejected" -> Signals(i)' = {"deny"}
  BY <1>2 DEF Matched
<1>. QED  BY <1>3 DEF DecisionsMatchCards, Signals

(* Decisions element by element.                                           *)
Logged(S, signal) == decisions' = decisions \cup {[item |-> i, signal |-> signal] : i \in S}

LEMMA DecidedItems ==
    ASSUME NEW d \in decisions PROVE d.item \in Decided
BY DEF Decided

LEMMA NoSignals ==
    ASSUME NEW i, i \notin Decided PROVE Signals(i) = {}
<1>1. \A d \in decisions : d.item # i
  BY DecidedItems
<1>2. {d \in decisions : d.item = i} = {}
  BY <1>1
<1>. QED  BY <1>2 DEF Signals

LEMMA SignalsAfter ==
    ASSUME NEW S, NEW signal, Logged(S, signal), NEW i
    PROVE  Signals(i)' = Signals(i) \cup (IF i \in S THEN {signal} ELSE {})
<1> DEFINE new == {[item |-> j, signal |-> signal] : j \in S}
<1>1. \A d \in new : d.item \in S /\ d.signal = signal
  OBVIOUS
<1>2. i \in S => \E d \in new : d.item = i
  <2>1. i \in S => [item |-> i, signal |-> signal] \in new
    OBVIOUS
  <2>2. [item |-> i, signal |-> signal].item = i
    OBVIOUS
  <2>. HIDE DEF new
  <2>. QED  BY <2>1, <2>2
<1>3. decisions' = decisions \cup new
  BY DEF Logged
<1>. HIDE DEF new
<1>4. {d \in decisions' : d.item = i} = {d \in decisions : d.item = i} \cup {d \in new : d.item = i}
  BY <1>3
<1>5. {d.signal : d \in {d \in new : d.item = i}} = IF i \in S THEN {signal} ELSE {}
  BY <1>1, <1>2
<1>. QED  BY <1>4, <1>5 DEF Signals

LEMMA DecidedAfter ==
    ASSUME NEW S, NEW signal, Logged(S, signal)
    PROVE  Decided' = Decided \cup S
<1> DEFINE new == {[item |-> j, signal |-> signal] : j \in S}
<1>1. \A d \in new : d.item \in S
  OBVIOUS
<1>2. \A j \in S : [item |-> j, signal |-> signal] \in new /\ [item |-> j, signal |-> signal].item = j
  OBVIOUS
<1>3. decisions' = decisions \cup new
  BY DEF Logged
<1>. HIDE DEF new
<1>4. \A j \in S : \E d \in new : d.item = j
  BY <1>2
<1>5. {d.item : d \in new} = S
  BY <1>1, <1>4
<1>. QED  BY <1>3, <1>5 DEF Decided

LEMMA QuietMatch ==
    ASSUME Base, DecisionsMatchCards, Quiet
    PROVE  DecisionsMatchCards'
<1>1. /\ cards' \in Seq(Card) /\ DOMAIN cards \subseteq DOMAIN cards'
      /\ \A i \in DOMAIN cards : cards'[i] = cards[i]
      /\ \A i \in DOMAIN cards' \ DOMAIN cards : NewCard(cards'[i])
      /\ decisions' = decisions
  BY CardsGrow DEF Base, Quiet, Undecided
<1>2. Decided \subseteq DOMAIN cards /\ \A i \in DOMAIN cards : Matched(i)
  BY MatchedCards DEF Base
<1>3. Decided' = Decided
  BY <1>1 DEF Decided
<1>4. ASSUME NEW i \in DOMAIN cards' PROVE Matched(i)'
  <2>0. Signals(i)' = Signals(i)
    BY <1>1 DEF Signals
  <2>1. CASE i \in DOMAIN cards
    BY <1>1, <1>2, <2>0, <2>1 DEF Matched
  <2>2. CASE i \notin DOMAIN cards
    <3>1. Signals(i) = {}
      BY <1>2, <2>2, NoSignals
    <3>2. cards'[i].state = "pending"
      BY <1>1, <2>2 DEF NewCard
    <3>. QED  BY <2>0, <3>1, <3>2 DEF Matched
  <2>. QED  BY <2>1, <2>2
<1>5. \A i \in DOMAIN cards' : Matched(i)'
  BY <1>4
<1>6. Decided' \subseteq DOMAIN cards'
  BY <1>1, <1>2, <1>3
<1>. QED  BY <1>1, <1>5, <1>6, MatchedNext

LEMMA DecisiveMatch ==
    ASSUME Base, DecisionsMatchCards, NEW S \in SUBSET DOMAIN cards, NEW signal \in Signal,
           Decisive(S, signal)
    PROVE  DecisionsMatchCards'
<1>1. /\ cards' \in Seq(Card) /\ DOMAIN cards' = DOMAIN cards
      /\ \A i \in DOMAIN cards :
            cards'[i].state = IF i \in S THEN StateAfter(signal) ELSE cards[i].state
  BY Recorded DEF Decisive
<1>2. Decided \subseteq DOMAIN cards /\ \A i \in DOMAIN cards : Matched(i)
  BY MatchedCards DEF Base
<1>3. Logged(S, signal) /\ S \cap Decided = {}
  BY DEF Decisive, Record, Logged
<1>4. Decided' \subseteq DOMAIN cards'
  BY <1>1, <1>2, <1>3, DecidedAfter
<1>5. ASSUME NEW i \in DOMAIN cards' PROVE Matched(i)'
  <2>0. Signals(i)' = Signals(i) \cup (IF i \in S THEN {signal} ELSE {})
    BY <1>3, SignalsAfter
  <2>1. CASE i \in S
    <3>1. Signals(i) = {}
      BY <1>3, <2>1, NoSignals
    <3>2. Signals(i)' = {signal}
      BY <2>0, <2>1, <3>1
    <3>. QED  BY <1>1, <2>1, <3>2 DEF Matched, StateAfter, Signal
  <2>2. CASE i \notin S
    <3>1. Signals(i)' = Signals(i)
      BY <2>0, <2>2
    <3>. QED  BY <1>1, <1>2, <2>2, <3>1 DEF Matched
  <2>. QED  BY <2>1, <2>2
<1>. QED  BY <1>1, <1>4, <1>5, MatchedNext

-----------------------------------------------------------------------------
(* What every step, of the queue or of what is built on it, does to cards, *)
(* edges and the corpus: cards keep what they say, an approval stands and  *)
(* is enacted when it is given, a verdict's edge comes with its approval,  *)
(* and a memory turns active by its owner's hand or by an approval.        *)
SameCard(c, d) ==
    /\ d.candidate = c.candidate /\ d.principal = c.principal
    /\ d.birthplace = c.birthplace /\ d.batch = c.batch
    /\ d.judged = c.judged /\ d.verdict = c.verdict /\ d.targets = c.targets

Progress ==
    /\ DOMAIN cards \subseteq DOMAIN cards'
    /\ \A i \in DOMAIN cards :
        /\ SameCard(cards[i], cards'[i])
        /\ cards[i].state = "approved" => cards'[i].state = "approved"
        /\ cards[i].state # "approved" /\ cards'[i].state = "approved" => Enacted(i)
    /\ \A i \in DOMAIN cards' \ DOMAIN cards : cards'[i].state = "pending"
    /\ edges \subseteq edges'
    /\ \A e \in edges' \ edges :
        \/ e.type = "relates_to"
        \/ \E i \in DOMAIN cards : e \in VerdictEdges(i) /\ cards'[i].state = "approved"
    /\ \A m \in Active' :
        \/ m \in Active
        \/ m \notin Units /\ history'[m][1].reason \in Births
        \/ m \in Units /\ \E k \in DOMAIN history'[m] : history'[m][k].reason = "patched"
        \/ m \in Units /\ \E i \in DOMAIN cards :
              cards[i].candidate = m /\ cards'[i].state = "approved"

LEMMA UnitFacts ==
    ASSUME Base, NEW m \in Units
    PROVE  /\ heads[m] \in UnitRow /\ heads[m].revision \in Nat \ {0} /\ m \in Mem
           /\ DOMAIN history[m] = 1 .. heads[m].revision /\ 1 \in DOMAIN history[m]
<1>1. heads[m] \in UnitRow /\ m \in Mem /\ history[m] \in Seq(Revision)
  BY BaseFacts DEF Rows
<1>2. heads[m].revision \in Nat \ {0} /\ Len(history[m]) = heads[m].revision
  BY <1>1, BaseFacts DEF UnitRow, LineageComplete
<1>. QED  BY <1>1, <1>2

LEMMA QuietProgress ==
    ASSUME Base, Quiet
    PROVE  Progress
<1>1. /\ DOMAIN cards \subseteq DOMAIN cards'
      /\ \A i \in DOMAIN cards : cards'[i] = cards[i]
      /\ \A i \in DOMAIN cards' \ DOMAIN cards : NewCard(cards'[i])
  BY CardsGrow DEF Base, Quiet
<1>2. edges \subseteq edges' /\ \A e \in edges' \ edges : e.type = "relates_to"
  BY DEF Quiet, Relating
<1>3. ASSUME NEW m \in Active'
      PROVE  \/ m \in Active
             \/ m \notin Units /\ history'[m][1].reason \in Births
             \/ m \in Units /\ \E k \in DOMAIN history'[m] : history'[m][k].reason = "patched"
  <2>1. m \in Units' /\ heads'[m].status = "active"
    BY <1>3 DEF Active
  <2>2. CASE m \notin Units
    BY <2>1, <2>2 DEF Quiet, Gentle
  <2>3. CASE m \in Units /\ heads'[m].revision = heads[m].revision
    BY <2>1, <2>3 DEF Quiet, Evolves, Active
  <2>4. CASE m \in Units /\ heads'[m].revision # heads[m].revision
    <3>1. heads[m].revision \in Nat /\ heads'[m].revision >= heads[m].revision
          /\ heads'[m].revision \in Nat
      <4>1. Base' /\ m \in Units'
        BY <2>1, QuietBase
      <4>2. heads'[m].revision \in Nat
        BY <4>1 DEF Base, Inv, MemoryTypes, MemoryTypeOK, UnitRow
      <4>. QED  BY <2>4, <4>2, UnitFacts DEF Quiet, Evolves
    <3>2. heads'[m].revision > heads[m].revision
      BY <2>4, <3>1
    <3>3. /\ heads'[m].revision \in DOMAIN history'[m]
          /\ \/ heads'[m].status \in {heads[m].status, "tombstoned"}
             \/ history'[m][heads'[m].revision].reason = "patched"
      BY <2>4, <3>2 DEF Quiet, Gentle
    <3>. QED  BY <2>1, <2>4, <3>3 DEF Active
  <2>. QED  BY <2>2, <2>3, <2>4
<1>. QED  BY <1>1, <1>2, <1>3 DEF Progress, SameCard, NewCard

LEMMA DecidedCards ==
    ASSUME Base, DecisionsMatchCards, NEW i \in DOMAIN cards, i \notin Decided
    PROVE  cards[i].state = "pending"
<1>1. Matched(i) /\ Signals(i) = {}
  BY MatchedCards, NoSignals DEF Base
<1>2. \A c \in Card : c.state \in {"pending", "approved", "rejected"}
  BY DEF Card
<1>3. cards[i].state \in {"pending", "approved", "rejected"}
  BY <1>2, CandidateFacts
<1>. QED  BY <1>1, <1>3 DEF Matched

LEMMA DecisiveProgress ==
    ASSUME Base, DecisionsMatchCards, NEW S \in SUBSET DOMAIN cards, NEW signal \in Signal,
           Decisive(S, signal)
    PROVE  Progress
<1>1. /\ DOMAIN cards' = DOMAIN cards
      /\ \A i \in DOMAIN cards :
            /\ SameCard(cards[i], cards'[i])
            /\ cards'[i].state = IF i \in S THEN StateAfter(signal) ELSE cards[i].state
  <2>1. Record(S, signal)
    BY DEF Decisive
  <2>2. /\ DOMAIN cards' = DOMAIN cards
        /\ \A i \in DOMAIN cards :
              cards'[i].state = IF i \in S THEN StateAfter(signal) ELSE cards[i].state
    BY <2>1, Recorded, Zenon
  <2>3. ASSUME NEW i \in DOMAIN cards PROVE SameCard(cards[i], cards'[i])
    <3>1. /\ cards'[i].candidate = cards[i].candidate /\ cards'[i].principal = cards[i].principal
          /\ cards'[i].birthplace = cards[i].birthplace /\ cards'[i].verdict = cards[i].verdict
          /\ cards'[i].targets = cards[i].targets /\ cards'[i].judged = cards[i].judged
          /\ cards'[i].batch = cards[i].batch
      BY <2>1, Recorded
    <3>. QED  BY <3>1 DEF SameCard
  <2>. QED  BY <2>2, <2>3
<1>2. \A i \in S : cards[i].state = "pending"
  BY DecidedCards DEF Decisive
<1>3. \A i \in S : cards'[i].state = "approved" <=> signal # "deny"
  BY <1>1 DEF StateAfter
<1>4. \A i \in DOMAIN cards :
        /\ cards[i].state = "approved" => cards'[i].state = "approved"
        /\ cards[i].state # "approved" /\ cards'[i].state = "approved" => Enacted(i)
  <2>1. signal # "deny" => \A i \in S : Enacted(i)
    BY DEF Decisive
  <2>. QED  BY <1>1, <1>2, <1>3, <2>1
<1>5. /\ edges \subseteq edges'
      /\ \A e \in edges' \ edges :
            \/ e.type = "relates_to"
            \/ \E i \in DOMAIN cards : e \in VerdictEdges(i) /\ cards'[i].state = "approved"
  BY <1>3 DEF Decisive
<1>6. ASSUME NEW m \in Active'
      PROVE  \/ m \in Active
             \/ m \notin Units /\ history'[m][1].reason \in Births
             \/ m \in Units /\ \E i \in DOMAIN cards :
                   cards[i].candidate = m /\ cards'[i].state = "approved"
  <2>1. m \in Units' /\ heads'[m].status = "active"
    BY <1>6 DEF Active
  <2>2. CASE m \notin Units
    BY <2>1, <2>2 DEF Decisive, Settles
  <2>3. CASE m \in Units /\ heads'[m].revision = heads[m].revision
    BY <2>1, <2>3 DEF Decisive, Settles, Evolves, Active
  <2>4. CASE m \in Units /\ heads'[m].revision # heads[m].revision
    <3>1. heads'[m].revision > heads[m].revision
      <4>1. Base' /\ m \in Units'
        BY <2>1, DecisiveBase
      <4>2. heads'[m].revision \in Nat
        BY <4>1 DEF Base, Inv, MemoryTypes, MemoryTypeOK, UnitRow
      <4>3. heads'[m].revision >= heads[m].revision
        BY <2>4 DEF Decisive, Settles, Evolves
      <4>. QED  BY <2>4, <4>2, <4>3, UnitFacts
    <3>2. Outcome(m, heads'[m].status, history'[m][heads'[m].revision].reason, S, signal)
      BY <2>4, <3>1 DEF Decisive, Settles
    <3>. QED  BY <1>3, <2>1, <2>4, <3>2 DEF Active, Outcome
  <2>. QED  BY <2>2, <2>3, <2>4
<1>. QED  BY <1>1, <1>4, <1>5, <1>6 DEF Progress

(* The invariants that hold because every step is Progress.                *)
LEMMA RowsStay ==
    ASSUME Evolves, NEW m \in Units, NEW k \in DOMAIN history[m]
    PROVE  k \in DOMAIN history'[m] /\ history'[m][k] = history[m][k]
BY DEF Evolves

LEMMA ConsentKept ==
    ASSUME Base, Evolves, Progress, ConsentPrecedesActivation
    PROVE  ConsentPrecedesActivation'
<1>. SUFFICES ASSUME NEW m \in Active'
              PROVE  \/ history'[m][1].reason \in Births
                     \/ \E k \in DOMAIN history'[m] : history'[m][k].reason = "patched"
                     \/ \E i \in DOMAIN cards' :
                           cards'[i].candidate = m /\ cards'[i].state = "approved"
  BY DEF ConsentPrecedesActivation, Births
<1>0. \A i \in DOMAIN cards : i \in DOMAIN cards' /\ cards'[i].candidate = cards[i].candidate
  BY DEF Progress, SameCard
<1>1. CASE m \in Active
  <2>0. m \in Units
    BY <1>1 DEF Active
  <2>1. \/ history[m][1].reason \in Births
        \/ \E k \in DOMAIN history[m] : history[m][k].reason = "patched"
        \/ \E i \in DOMAIN cards : cards[i].candidate = m /\ cards[i].state = "approved"
    BY <1>1 DEF ConsentPrecedesActivation, Births
  <2>2. CASE history[m][1].reason \in Births
    BY <2>0, <2>2, UnitFacts, RowsStay
  <2>3. CASE \E k \in DOMAIN history[m] : history[m][k].reason = "patched"
    BY <2>0, <2>3, RowsStay
  <2>4. CASE \E i \in DOMAIN cards : cards[i].candidate = m /\ cards[i].state = "approved"
    BY <1>0, <2>4 DEF Progress
  <2>. QED  BY <2>1, <2>2, <2>3, <2>4
<1>2. CASE m \notin Active
  <2>1. \/ history'[m][1].reason \in Births
        \/ \E k \in DOMAIN history'[m] : history'[m][k].reason = "patched"
        \/ \E i \in DOMAIN cards : cards[i].candidate = m /\ cards'[i].state = "approved"
    BY <1>2 DEF Progress
  <2>. QED  BY <1>0, <2>1
<1>. QED  BY <1>1, <1>2

LEMMA JudgedKept ==
    ASSUME Base, Evolves, Progress, CuratorActsOnJudged
    PROVE  CuratorActsOnJudged'
<1>. SUFFICES ASSUME NEW i \in DOMAIN cards',
                     cards'[i].birthplace = "curator", cards'[i].state = "approved",
                     cards'[i].verdict # "contradict"
              PROVE  /\ cards'[i].judged + 1 \in DOMAIN history'[cards'[i].candidate]
                     /\ history'[cards'[i].candidate][cards'[i].judged + 1].reason
                           = CuratorReason(cards'[i].verdict)
  BY DEF CuratorActsOnJudged
<1>1. i \in DOMAIN cards /\ SameCard(cards[i], cards'[i])
  BY DEF Progress
<1> DEFINE m == cards[i].candidate
           k == cards[i].judged + 1
<1>2. /\ cards'[i].candidate = m /\ cards'[i].judged + 1 = k
      /\ cards'[i].verdict = cards[i].verdict
      /\ cards[i].birthplace = "curator" /\ cards[i].verdict # "contradict"
  BY <1>1 DEF SameCard
<1>3. k \in DOMAIN history'[m] /\ history'[m][k].reason = CuratorReason(cards[i].verdict)
  <2>1. CASE cards[i].state = "approved"
    <3>1. k \in DOMAIN history[m] /\ history[m][k].reason = CuratorReason(cards[i].verdict)
      BY <1>1, <1>2, <2>1 DEF CuratorActsOnJudged
    <3>2. m \in Units
      BY <1>1, CandidateFacts
    <3>. QED  BY <3>1, <3>2, RowsStay
  <2>2. CASE cards[i].state # "approved"
    <3>1. Enacted(i)
      BY <1>1, <2>2 DEF Progress
    <3>. QED  BY <1>2, <3>1 DEF Enacted
  <2>. QED  BY <2>1, <2>2
<1>. QED  BY <1>2, <1>3

(* VerdictsEnacted card by card and edge by edge.                          *)
Kept(i, t) ==
    /\ \E e \in edges : /\ e.from = cards[i].candidate /\ e.to = t
                        /\ e.type = EdgeFor(cards[i].verdict)
    /\ cards[i].verdict \in Replacing
       => \E k \in DOMAIN history[t] : history[t][k].reason = cards[i].verdict

LEMMA VerdictsParts ==
    VerdictsEnacted <=>
    /\ \A i \in DOMAIN cards :
        cards[i].state = "approved" /\ cards[i].verdict \in Replacing \cup {"contradict"}
        => \A t \in cards[i].targets : Kept(i, t)
    /\ \A e \in edges : e.type # "relates_to" =>
        \E i \in DOMAIN cards :
            /\ cards[i].verdict \in Replacing \cup {"contradict"} /\ cards[i].candidate = e.from
            /\ cards[i].state = "approved" /\ e.to \in cards[i].targets
            /\ e.type = EdgeFor(cards[i].verdict)
BY DEF VerdictsEnacted, Promised, Kept

LEMMA VerdictsKept ==
    ASSUME Base, Evolves, Progress, VerdictsEnacted
    PROVE  VerdictsEnacted'
<1>0. \A i \in DOMAIN cards :
        /\ i \in DOMAIN cards' /\ cards'[i].candidate = cards[i].candidate
        /\ cards'[i].verdict = cards[i].verdict /\ cards'[i].targets = cards[i].targets
  BY DEF Progress, SameCard
<1>1. ASSUME NEW i \in DOMAIN cards', cards'[i].state = "approved",
             cards'[i].verdict \in Replacing \cup {"contradict"}, NEW t \in cards'[i].targets
      PROVE  Kept(i, t)'
  <2>1. i \in DOMAIN cards
    BY <1>1 DEF Progress
  <2>2. cards[i].verdict \in Replacing \cup {"contradict"} /\ t \in cards[i].targets /\ t \in Mem
    <3>1. cards[i] \in Card
      BY <2>1, CandidateFacts
    <3>2. cards[i].targets \subseteq Mem
      BY <3>1 DEF Card
    <3>. QED  BY <1>0, <1>1, <2>1, <3>2
  <2>3. CASE cards[i].state = "approved"
    <3>1. Kept(i, t)
      BY <2>1, <2>2, <2>3, VerdictsParts
    <3>2. \A k \in DOMAIN history[t] : k \in DOMAIN history'[t] /\ history'[t][k] = history[t][k]
      <4>1. CASE t \in Units
        BY <4>1, RowsStay
      <4>2. CASE t \notin Units
        BY <2>2, <4>2, BaseFacts DEF LineageComplete
      <4>. QED  BY <4>1, <4>2
    <3>3. edges \subseteq edges'
      BY DEF Progress
    <3>. QED  BY <1>0, <2>1, <3>1, <3>2, <3>3 DEF Kept
  <2>4. CASE cards[i].state # "approved"
    <3>1. Enacted(i)
      BY <1>1, <2>1, <2>4 DEF Progress
    <3> DEFINE e == [from |-> cards[i].candidate, to |-> t, type |-> EdgeFor(cards[i].verdict)]
    <3>2. e \in VerdictEdges(i)
      BY <2>2 DEF VerdictEdges, Implicated
    <3>3. e \in edges'
      BY <3>1, <3>2 DEF Enacted
    <3>4. /\ e.from = cards[i].candidate /\ e.to = t /\ e.type = EdgeFor(cards[i].verdict)
      OBVIOUS
    <3>. HIDE DEF e
    <3>5. cards[i].verdict \in Replacing
          => \E k \in DOMAIN history'[t] : history'[t][k].reason = cards[i].verdict
      BY <2>2, <3>1 DEF Enacted, Retired
    <3>. QED  BY <1>0, <2>1, <3>3, <3>4, <3>5 DEF Kept
  <2>. QED  BY <2>3, <2>4
<1>2. ASSUME NEW e \in edges', e.type # "relates_to"
      PROVE  \E i \in DOMAIN cards' :
                /\ cards'[i].verdict \in Replacing \cup {"contradict"}
                /\ cards'[i].candidate = e.from /\ cards'[i].state = "approved"
                /\ e.to \in cards'[i].targets /\ e.type = EdgeFor(cards'[i].verdict)
  <2>1. CASE e \in edges
    <3>1. PICK i \in DOMAIN cards :
              /\ cards[i].verdict \in Replacing \cup {"contradict"}
              /\ cards[i].candidate = e.from /\ cards[i].state = "approved"
              /\ e.to \in cards[i].targets /\ e.type = EdgeFor(cards[i].verdict)
      BY <1>2, <2>1, VerdictsParts
    <3>2. cards'[i].state = "approved"
      BY <3>1 DEF Progress
    <3>. QED  BY <1>0, <3>1, <3>2
  <2>2. CASE e \notin edges
    <3>1. PICK i \in DOMAIN cards : e \in VerdictEdges(i) /\ cards'[i].state = "approved"
      BY <1>2, <2>2 DEF Progress
    <3>2. PICK t \in Implicated(i) :
              e = [from |-> cards[i].candidate, to |-> t, type |-> EdgeFor(cards[i].verdict)]
      BY <3>1 DEF VerdictEdges
    <3>3. e.from = cards[i].candidate /\ e.to = t /\ e.type = EdgeFor(cards[i].verdict)
      BY <3>2
    <3>4. cards[i].verdict \in Replacing \cup {"contradict"} /\ t \in cards[i].targets
      BY <3>2 DEF Implicated
    <3>. QED  BY <1>0, <3>1, <3>3, <3>4
  <2>. QED  BY <2>1, <2>2
<1>. QED  BY <1>1, <1>2 DEF VerdictsEnacted, Promised, Kept

(* The step that retires a memory in favour of another.                    *)
LEMMA QuietReplaces ==
    ASSUME Base, Quiet PROVE ReplacedAtOnce
<1>. SUFFICES ASSUME NEW m \in Active, heads'[m].revision > heads[m].revision,
                     heads'[m].status = "tombstoned", RetiredBy(m) \in Replacing
              PROVE  FALSE
  BY DEF ReplacedAtOnce
<1>1. m \in Units
  BY DEF Active
<1>. QED  BY <1>1 DEF Quiet, Gentle, RetiredBy

LEMMA DecisiveReplaces ==
    ASSUME Base, DecisionsMatchCards, NEW S \in SUBSET DOMAIN cards, NEW signal \in Signal,
           Decisive(S, signal)
    PROVE  ReplacedAtOnce
<1>. SUFFICES ASSUME NEW m \in Active, heads'[m].revision > heads[m].revision,
                     heads'[m].status = "tombstoned", RetiredBy(m) \in Replacing
              PROVE  \E i \in DOMAIN cards :
                        /\ m \in cards[i].targets
                        /\ cards[i].state = "pending" /\ cards'[i].state = "approved"
                        /\ heads'[cards[i].candidate].status = "active"
  BY DEF ReplacedAtOnce
<1>1. m \in Units /\ heads[m].status = "active"
  BY DEF Active
<1>2. Outcome(m, heads'[m].status, RetiredBy(m), S, signal)
  BY <1>1 DEF Decisive, Settles, RetiredBy
<1>3. signal # "deny" /\ \E i \in S : m \in Retired(i)
  BY <1>1, <1>2 DEF Outcome
<1>4. PICK i \in S : m \in Retired(i)
  BY <1>3
<1>5. Enacted(i) /\ Retired(i) # {}
  BY <1>3, <1>4 DEF Decisive
<1>6. heads'[cards[i].candidate].status = "active"
  BY <1>5 DEF Enacted
<1>7. m \in cards[i].targets
  BY <1>4 DEF Retired
<1>8. cards[i].state = "pending"
  BY DecidedCards DEF Decisive
<1>9. cards'[i].state = "approved"
  <2>0. Record(S, signal) /\ i \in DOMAIN cards
    BY DEF Decisive
  <2>1. cards'[i].state = StateAfter(signal)
    BY <2>0, Recorded
  <2>. QED  BY <1>3, <2>1 DEF StateAfter
<1>. QED  BY <1>6, <1>7, <1>8, <1>9

(* A row whose status moved is at a later revision.                        *)
LEMMA MovedStatus ==
    ASSUME Base, Inv', Evolves, NEW m \in Units, heads'[m].status # heads[m].status
    PROVE  heads'[m].revision > heads[m].revision
<1>1. m \in Units'
  BY DEF Evolves
<1>2. heads'[m].revision \in Nat
  BY <1>1 DEF Inv, MemoryTypes, MemoryTypeOK, UnitRow
<1>. QED  BY <1>2, UnitFacts DEF Evolves

(* A memory turns active only by a birth, a PATCH or an approval.          *)
LEMMA QuietConsents ==
    ASSUME Base, Quiet PROVE ConsentGiven
<1>. SUFFICES ASSUME NEW m \in Active' \ Active
              PROVE  \/ m \notin Units /\ history'[m][1].reason \in Births
                     \/ m \in Units /\ history'[m][heads'[m].revision].reason = "patched"
  BY DEF ConsentGiven, Births
<1>1. m \in Units' /\ heads'[m].status = "active"
  BY DEF Active
<1>2. CASE m \notin Units
  BY <1>1, <1>2 DEF Quiet, Gentle
<1>3. CASE m \in Units
  <2>1. heads[m].status # "active"
    BY <1>3 DEF Active
  <2>2. heads'[m].revision > heads[m].revision
    BY <1>1, <1>3, <2>1, MovedStatus DEF Quiet, Base
  <2>. QED  BY <1>1, <1>3, <2>1, <2>2 DEF Quiet, Gentle
<1>. QED  BY <1>2, <1>3

LEMMA DecisiveConsents ==
    ASSUME Base, DecisionsMatchCards, NEW S \in SUBSET DOMAIN cards, NEW signal \in Signal,
           Decisive(S, signal)
    PROVE  ConsentGiven
<1>. SUFFICES ASSUME NEW m \in Active' \ Active
              PROVE  \/ m \notin Units /\ history'[m][1].reason \in Births
                     \/ /\ m \in Units /\ heads[m].status = "candidate"
                        /\ \E i \in DOMAIN cards :
                              /\ cards[i].candidate = m
                              /\ cards[i].state = "pending" /\ cards'[i].state = "approved"
  BY DEF ConsentGiven, Births
<1>1. m \in Units' /\ heads'[m].status = "active" /\ Inv' /\ Evolves
  BY DEF Active, Decisive, Settles
<1>2. CASE m \notin Units
  BY <1>1, <1>2 DEF Decisive, Settles
<1>3. CASE m \in Units
  <2>1. heads[m].status # "active"
    BY <1>3 DEF Active
  <2>2. heads'[m].revision > heads[m].revision
    BY <1>1, <1>3, <2>1, MovedStatus
  <2>3. Outcome(m, heads'[m].status, history'[m][heads'[m].revision].reason, S, signal)
    BY <1>3, <2>2 DEF Decisive, Settles
  <2>4. /\ heads[m].status = "candidate" /\ signal # "deny"
        /\ \E i \in S : cards[i].candidate = m
    BY <1>1, <2>1, <2>3 DEF Outcome
  <2>5. PICK i \in S : cards[i].candidate = m
    BY <2>4
  <2>6. cards[i].state = "pending"
    BY DecidedCards DEF Decisive
  <2>7. Record(S, signal) /\ i \in DOMAIN cards
    BY DEF Decisive
  <2>8. cards'[i].state = StateAfter(signal)
    BY <2>7, Recorded
  <2>. QED  BY <1>3, <2>4, <2>5, <2>6, <2>7, <2>8 DEF StateAfter
<1>. QED  BY <1>2, <1>3

-----------------------------------------------------------------------------
(* The archive of an owner in a state where Base holds.                    *)
LEMMA ArchiveImports ==
    ASSUME Base, Decided \subseteq DOMAIN cards, NEW p
    PROVE  Importable(Export(p))
<1> DEFINE a == Export(p)
<1>1. /\ a.memories = Owned(p)
      /\ a.revisions = UNION {{m} \X DOMAIN history[m] : m \in Owned(p)}
      /\ a.edges = {x \in edges : x.from \in Owned(p) /\ x.to \in Owned(p)}
      /\ a.queue = {i \in DOMAIN cards : cards[i].principal = p}
      /\ a.decisions = {d \in decisions : cards[d.item].principal = p}
      /\ a.principal = p
  BY DEF Export, ExportedDecisions
<1>. HIDE DEF a
<1>2. \A m \in Owned(p) : m \in Units /\ heads[m].principal = p
  BY DEF Owned
<1>3. ASSUME NEW r \in a.revisions
      PROVE  LET up == history[r[1]][r[2]].parent IN
             r[1] \in a.memories /\ (up = NoParent \/ up \in a.revisions)
  <2>1. PICK m \in Owned(p) : r \in {m} \X DOMAIN history[m]
    BY <1>1, <1>3
  <2> DEFINE k == r[2]
             up == history[m][k].parent
  <2>2. r[1] = m /\ k \in DOMAIN history[m] /\ m \in Units
    BY <1>2, <2>1
  <2>. HIDE DEF k
  <2>3. DOMAIN history[m] = 1 .. heads[m].revision /\ heads[m].revision \in Nat \ {0}
    BY <2>2, UnitFacts
  <2>4. CASE k > 1
    <3>1. up = <<m, k - 1>>
      BY <2>2, <2>4, BaseFacts DEF LineageComplete
    <3>2. k - 1 \in DOMAIN history[m]
      BY <2>2, <2>3, <2>4
    <3>3. up \in {m} \X DOMAIN history[m]
      BY <3>1, <3>2
    <3>. QED  BY <1>1, <2>1, <2>2, <3>3 DEF k
  <2>5. CASE k = 1 /\ up # NoParent
    <3>1. /\ up[1] \in Units /\ up[2] \in DOMAIN history[up[1]]
          /\ heads[up[1]].principal = heads[m].principal
      BY <2>2, <2>5 DEF Base, Inv, RootsDescend, Kinship
    <3>2. up \in RevUid
      <4>1. history[m] \in Seq(Revision) /\ history[m][k] \in Revision
        BY <2>2, BaseFacts, UnitFacts DEF Rows
      <4>2. \A row \in Revision : row.parent \in RevUid \cup {NoParent}
        BY DEF Revision
      <4>. QED  BY <2>5, <4>1, <4>2
    <3>3. up = <<up[1], up[2]>>
      BY <3>2 DEF RevUid
    <3>4. up[1] \in Owned(p)
      BY <1>2, <2>1, <3>1 DEF Owned
    <3>5. up \in {up[1]} \X DOMAIN history[up[1]]
      BY <3>1, <3>3
    <3>. QED  BY <1>1, <2>1, <2>2, <3>4, <3>5 DEF k
  <2>6. CASE k = 1 /\ up = NoParent
    BY <1>1, <2>1, <2>2, <2>6 DEF k
  <2>. QED  BY <2>2, <2>3, <2>4, <2>5, <2>6
<1>4. \A x \in a.edges : x.from \in a.memories /\ x.to \in a.memories
  BY <1>1
<1>5. \A i \in a.queue : cards[i].candidate \in a.memories
  BY <1>1 DEF Base, CardsRefer, CardRefers, Holds, Owned, Units
<1>6. \A d \in a.decisions : d.item \in a.queue
  <2>1. \A d \in decisions : d.item \in DOMAIN cards
    BY DecidedItems
  <2>. QED  BY <1>1, <2>1
<1>7. ActiveLabelIndex([m \in a.memories |-> heads[m]])
  <2> DEFINE hs == [m \in a.memories |-> heads[m]]
  <2>1. DOMAIN hs = Owned(p) /\ \A m \in Owned(p) : hs[m] = heads[m]
    BY <1>1
  <2>. HIDE DEF hs
  <2>2. ActiveLabelIndex(hs)
    BY <1>2, <2>1 DEF Base, LabelIndex, ActiveLabelIndex, Units
  <2>. QED  BY <2>2 DEF hs
<1>8. /\ \A m \in a.memories : heads[m].principal = a.principal
      /\ \A i \in a.queue : cards[i].principal = a.principal
  BY <1>1, <1>2
<1>9. Importable(a)
  BY <1>3, <1>4, <1>5, <1>6, <1>7, <1>8 DEF Importable
<1>. QED  BY <1>9 DEF a

-----------------------------------------------------------------------------
QueueInv ==
    /\ Base /\ DecisionsMatchCards /\ ConsentPrecedesActivation
    /\ VerdictsEnacted /\ CuratorActsOnJudged

LEMMA QueueInvInit ==
    ASSUME QueueInit PROVE QueueInv
<1>1. Base
  BY InitBase
<1>2. Active = {} /\ cards = <<>> /\ decisions = {} /\ edges = {}
  BY DEF QueueInit, Init, EmptyTables, None, Active, Units
<1>3. DOMAIN cards = {} /\ Decided = {}
  BY <1>2 DEF Decided
<1>. QED  BY <1>1, <1>2, <1>3 DEF QueueInv, DecisionsMatchCards, ConsentPrecedesActivation,
             VerdictsEnacted, CuratorActsOnJudged

LEMMA QueueInvStep ==
    ASSUME QueueInv, [QueueNext]_queueVars
    PROVE  QueueInv' /\ ReplacedAtOnce /\ ConsentGiven
<1>0. Base /\ DecisionsMatchCards
  BY DEF QueueInv
<1>1. Base' /\ DecisionsMatchCards' /\ Evolves /\ Progress
      /\ ReplacedAtOnce /\ ConsentGiven
  <2>1. CASE Quiet
    BY <1>0, <2>1, QuietBase, QuietMatch, QuietProgress, QuietReplaces, QuietConsents
       DEF Quiet
  <2>2. CASE \E S \in SUBSET DOMAIN cards, signal \in Signal : Decisive(S, signal)
    <3>1. PICK S \in SUBSET DOMAIN cards, signal \in Signal : Decisive(S, signal)
      BY <2>2
    <3>2. Evolves
      BY <3>1 DEF Decisive, Settles
    <3>. QED  BY <1>0, <3>1, <3>2, DecisiveBase, DecisiveMatch, DecisiveProgress,
                 DecisiveReplaces, DecisiveConsents
  <2>. QED  BY <1>0, <2>1, <2>2, QueueStepKinds
<1>. QED  BY <1>1, ConsentKept, VerdictsKept, JudgedKept DEF QueueInv

LEMMA QueueInvHolds ==
    QueueSpec => []QueueInv
<1>1. QueueInit => QueueInv
  BY QueueInvInit
<1>2. QueueInv /\ [QueueNext]_queueVars => QueueInv'
  BY QueueInvStep
<1>. QED  BY <1>1, <1>2, PTL DEF QueueSpec

(* Whatever the clients, workers and decisions do, the tables of the palace*)
(* and of the queue keep their column types, and what a worker carries from*)
(* one transaction to the next stays well formed.                          *)
THEOREM QueueTypesHold == QueueSpec => []QueueTypes
<1>1. QueueInv => QueueTypes
  BY DEF QueueInv, Base, Inv, QueueTypes
<1>. QED  BY <1>1, QueueInvHolds, PTL

(* _decide_row and decide_batch: at every moment a pending card has no     *)
(* decision and a decided one exactly one, of the kind its state says.     *)
THEOREM DecisionsMatchCardsHolds == QueueSpec => []DecisionsMatchCards
<1>1. QueueInv => DecisionsMatchCards
  BY DEF QueueInv
<1>. QED  BY <1>1, QueueInvHolds, PTL

(* Consent: no retry, batch, crash or race of the queue's pipelines makes a*)
(* memory active that its owner neither wrote, nor patched, nor approved   *)
(* (_enact_targets, _decide_curator_row).                                  *)
THEOREM ConsentPrecedesActivationHolds == QueueSpec => []ConsentPrecedesActivation
<1>1. QueueInv => ConsentPrecedesActivation
  BY DEF QueueInv
<1>. QED  BY <1>1, QueueInvHolds, PTL

(* Step by step, and for every PATCH that lands while a card waits: what   *)
(* turns active is born so, patched so, or approved by a pending card while*)
(* it is still a candidate (_decide_row, _decide_curator_row).             *)
THEOREM OnlyConsentActivatesHolds == QueueSpec => OnlyConsentActivates
<1>1. QueueInv /\ [QueueNext]_queueVars => [ConsentGiven]_queueVars
  BY QueueInvStep
<1>. QED  BY <1>1, QueueInvHolds, PTL DEF QueueSpec, OnlyConsentActivates

(* _enact_targets: an approved verdict has its edges and has retired its   *)
(* targets under its name, and no verdict edge is without an approved card.*)
THEOREM VerdictsEnactedHolds == QueueSpec => []VerdictsEnacted
<1>1. QueueInv => VerdictsEnacted
  BY DEF QueueInv
<1>. QED  BY <1>1, QueueInvHolds, PTL

(* _decide_curator_row: an approved curator card was enacted on the very   *)
(* revision the curator judged.                                            *)
THEOREM CuratorActsOnJudgedHolds == QueueSpec => []CuratorActsOnJudged
<1>1. QueueInv => CuratorActsOnJudged
  BY DEF QueueInv
<1>. QED  BY <1>1, QueueInvHolds, PTL

(* No decision loses a memory: the step that retires an active one as      *)
(* merged or superseded activates the candidate of a card that was pending *)
(* and named it (_enact_targets, one transaction per decision).            *)
THEOREM NothingLostByVerdictHolds == QueueSpec => NothingLostByVerdict
<1>1. QueueInv /\ [QueueNext]_queueVars => [ReplacedAtOnce]_queueVars
  BY QueueInvStep
<1>. QED  BY <1>1, QueueInvHolds, PTL DEF QueueSpec, NothingLostByVerdict

(* export and import_archive: an archive taken in any state, between any   *)
(* two transactions of any worker, refers to no row it does not hold.      *)
THEOREM EveryArchiveImportsHolds == QueueSpec => []EveryArchiveImports
<1>1. QueueInv => EveryArchiveImports
  BY ArchiveImports DEF QueueInv, EveryArchiveImports, DecisionsMatchCards
<1>. QED  BY <1>1, QueueInvHolds, PTL

-----------------------------------------------------------------------------
(* Queue-aware dedup.  Old candidates stay as they are or stop being       *)
(* newborn; what has to be shown of a step is what its new cards, its      *)
(* worker's next stage and its new candidate do to the blocked ones.       *)
Steady ==
    /\ \A i \in DOMAIN cards' : cards'[i].birthplace \in {"thread", "seed"} =>
        \/ /\ i \in DOMAIN cards /\ cards[i].birthplace = cards'[i].birthplace
           /\ cards[i].candidate = cards'[i].candidate
        \/ \E w \in Worker : flow[w].at = "card" /\ flow[w].candidate = cards'[i].candidate
    /\ \A w \in Worker :
        /\ flow'[w].at \in Carrying /\ flow'[w].candidate \in Units =>
            /\ flow[w].at \in Carrying /\ flow'[w].candidate = flow[w].candidate
            /\ Head(flow'[w].left).targets = Head(flow[w].left).targets
        /\ flow'[w].at = "card" => Head(flow'[w].left).targets \subseteq Units \ Newborn
        /\ flow'[w].at \in Curating =>
            {flow'[w].subject} \cup flow'[w].others \subseteq Units \ Newborn

Admits == \A x \in Newborn' \ Units, n \in Newborn' : Twins(x, n)' => Blocked(x, n)'

LEMMA NewbornOld ==
    ASSUME Base, Base', Evolves, NEW m \in Newborn', m \in Units
    PROVE  m \in Newborn /\ heads'[m] = heads[m]
<1>1. m \in Units' /\ heads'[m].revision = 1 /\ heads'[m].status = "candidate"
  BY DEF Newborn
<1>2. heads[m].revision \in Nat \ {0} /\ heads'[m].revision >= heads[m].revision
  BY UnitFacts DEF Evolves
<1>3. heads'[m] = heads[m]
  BY <1>1, <1>2 DEF Evolves
<1>. QED  BY <1>1, <1>3 DEF Newborn

LEMMA TwinsSymmetric ==
    ASSUME Base', NEW m \in Units', NEW n \in Units', Twins(m, n)'
    PROVE  Twins(n, m)'
<1>1. heads'[m].body \in Body /\ heads'[n].body \in Body
  BY DEF Base, Inv, MemoryTypes, MemoryTypeOK, UnitRow
<1>. QED  BY <1>1, BandAssumption DEF Twins

LEMMA BlockedStays ==
    ASSUME Base, CopiesBlocked, Steady, NEW m \in Newborn, NEW n \in Newborn, Blocked(m, n)
    PROVE  Blocked(m, n)'
<1>0. m \in Units
  BY DEF Newborn
<1>1. ASSUME NEW i \in DOMAIN cards', cards'[i].candidate = m,
             cards'[i].birthplace \in {"thread", "seed"}
      PROVE  FALSE
  <2>1. CASE /\ i \in DOMAIN cards /\ cards[i].birthplace = cards'[i].birthplace
             /\ cards[i].candidate = cards'[i].candidate
    BY <1>1, <2>1 DEF Blocked
  <2>2. CASE \E w \in Worker : flow[w].at = "card" /\ flow[w].candidate = cards'[i].candidate
    <3>1. PICK w \in Worker : flow[w].at = "card" /\ flow[w].candidate = m
      BY <1>1, <2>2
    <3>2. n \in Head(flow[w].left).targets
      BY <3>1 DEF Blocked, Carrying
    <3>3. Head(flow[w].left).targets \subseteq Units \ Newborn
      BY <3>1 DEF CopiesBlocked
    <3>. QED  BY <3>2, <3>3
  <2>. QED  BY <1>1, <2>1, <2>2 DEF Steady
<1>2. ASSUME NEW w \in Worker, flow'[w].at \in Carrying, flow'[w].candidate = m
      PROVE  n \in Head(flow'[w].left).targets
  BY <1>0, <1>2 DEF Steady, Blocked
<1>. QED  BY <1>1, <1>2 DEF Blocked

LEMMA CopiesKept ==
    ASSUME Base, Base', Evolves, CopiesBlocked, Steady, Admits
    PROVE  CopiesBlocked'
<1>1. ASSUME NEW m \in Newborn', NEW n \in Newborn', Twins(m, n)'
      PROVE  Blocked(m, n)' \/ Blocked(n, m)'
  <2>0. m \in Units' /\ n \in Units'
    BY DEF Newborn
  <2>1. CASE m \notin Units
    BY <1>1, <2>1 DEF Admits
  <2>2. CASE n \notin Units
    BY <1>1, <2>0, <2>2, TwinsSymmetric DEF Admits
  <2>3. CASE m \in Units /\ n \in Units
    <3>1. /\ m \in Newborn /\ n \in Newborn
          /\ heads'[m] = heads[m] /\ heads'[n] = heads[n]
      BY <2>3, NewbornOld
    <3>2. Twins(m, n)
      BY <1>1, <3>1 DEF Twins
    <3>3. Blocked(m, n) \/ Blocked(n, m)
      BY <3>1, <3>2 DEF CopiesBlocked
    <3>. QED  BY <3>1, <3>3, BlockedStays
  <2>. QED  BY <2>1, <2>2, <2>3
<1>2. Units \ Newborn \subseteq (Units \ Newborn)'
  BY NewbornOld DEF Evolves
<1>3. ASSUME NEW w \in Worker
      PROVE  /\ flow'[w].at = "card" => Head(flow'[w].left).targets \subseteq (Units \ Newborn)'
             /\ flow'[w].at \in Curating =>
                   {flow'[w].subject} \cup flow'[w].others \subseteq (Units \ Newborn)'
  BY <1>2 DEF Steady
<1>. QED  BY <1>1, <1>3 DEF CopiesBlocked

(* No candidate is admitted.                                               *)
LEMMA NoneAdmitted ==
    ASSUME NoProposal PROVE Admits
BY DEF NoProposal, Admits, Newborn

LEMMA StillAdmits ==
    ASSUME UNCHANGED heads PROVE Admits
BY DEF Admits, Newborn, Units

(* No worker moves and no card is new.                                     *)
LEMMA StillSteady ==
    ASSUME CopiesBlocked, UNCHANGED flow, DOMAIN cards' = DOMAIN cards,
           \A i \in DOMAIN cards : /\ cards'[i].birthplace = cards[i].birthplace
                                   /\ cards'[i].candidate = cards[i].candidate
    PROVE  Steady
BY DEF Steady, CopiesBlocked

(* One worker moves on to stage g.                                         *)
Moving(w, g) ==
    /\ flow' = [flow EXCEPT ![w] = g]
    /\ g.at \in Carrying /\ g.candidate \in Units =>
        /\ flow[w].at \in Carrying /\ g.candidate = flow[w].candidate
        /\ Head(g.left).targets = Head(flow[w].left).targets
    /\ g.at = "card" => Head(g.left).targets \subseteq Units \ Newborn
    /\ g.at \in Curating => {g.subject} \cup g.others \subseteq Units \ Newborn

LEMMA MovingSteady ==
    ASSUME Base, CopiesBlocked, NEW w \in Worker, NEW g, Moving(w, g),
           \A i \in DOMAIN cards' : cards'[i].birthplace \in {"thread", "seed"} =>
                \/ i \in DOMAIN cards /\ cards'[i] = cards[i]
                \/ flow[w].at = "card" /\ flow[w].candidate = cards'[i].candidate
    PROVE  Steady
<1>1. \A v \in Worker : flow'[v] = IF v = w THEN g ELSE flow[v]
  BY DEF Moving, Base
<1>2. ASSUME NEW v \in Worker
      PROVE  /\ flow'[v].at \in Carrying /\ flow'[v].candidate \in Units =>
                /\ flow[v].at \in Carrying /\ flow'[v].candidate = flow[v].candidate
                /\ Head(flow'[v].left).targets = Head(flow[v].left).targets
             /\ flow'[v].at = "card" => Head(flow'[v].left).targets \subseteq Units \ Newborn
             /\ flow'[v].at \in Curating =>
                   {flow'[v].subject} \cup flow'[v].others \subseteq Units \ Newborn
  <2>1. CASE v = w
    BY <1>1, <2>1 DEF Moving
  <2>2. CASE v # w
    <3>1. flow'[v] = flow[v]
      BY <1>1, <2>2
    <3>. QED  BY <3>1 DEF CopiesBlocked
  <2>. QED  BY <2>1, <2>2
<1>. QED  BY <1>2 DEF Steady

LEMMA WorkerCopies ==
    ASSUME Base, CopiesBlocked, Quiet, Admits, NEW w \in Worker, NEW g, Moving(w, g),
           UNCHANGED cards
    PROVE  CopiesBlocked'
<1>1. Steady
  BY MovingSteady
<1>. QED  BY <1>1, CopiesKept, QuietBase DEF Quiet

LEMMA EasyMove ==
    ASSUME NEW w, NEW g, flow' = [flow EXCEPT ![w] = g],
           g.at \in {"idle", "source", "drafts", "embed"}
    PROVE  Moving(w, g)
BY DEF Moving, Carrying, Curating

LEMMA ExtractCopies ==
    ASSUME Base, CopiesBlocked, NEW w \in Worker, NEW p \in Principal, NEW d \in Proposals,
           NEW T, Extract(w, p, d, T)
    PROVE  CopiesBlocked'
<1> DEFINE g == LoopStart("drafts", p, "thread", Keep, Keep, <<Implicate(d, T)>>)
<1>1. g.at = "drafts"
  BY DEF LoopStart
<1>2. flow' = [flow EXCEPT ![w] = g] /\ UNCHANGED <<heads, cards>>
  BY DEF Extract, Begin, memoryVars, tables
<1>. HIDE DEF g
<1>. QED  BY <1>1, <1>2, ExtractQuiet, EasyMove, StillAdmits, WorkerCopies

LEMMA SeedCopies ==
    ASSUME Base, CopiesBlocked, NEW w \in Worker, NEW p \in Principal, NEW doc \in Documents,
           NEW implicated, Seed(w, p, doc, implicated)
    PROVE  CopiesBlocked'
<1> DEFINE left == [k \in DOMAIN doc.children |-> Implicate(doc.children[k], implicated[k])]
           g == LoopStart("source", p, "seed", doc.batch, doc.source, left)
<1>1. g.at = "source"
  BY DEF LoopStart
<1>2. flow' = [flow EXCEPT ![w] = g] /\ UNCHANGED <<heads, cards>>
  BY DEF Seed, Begin, memoryVars, tables
<1>. HIDE DEF g
<1>. QED  BY <1>1, <1>2, SeedQuiet, EasyMove, StillAdmits, WorkerCopies

LEMMA SeedSourceCopies ==
    ASSUME Base, CopiesBlocked, NEW w \in Worker, SeedSource(w)
    PROVE  CopiesBlocked'
<1> DEFINE f == flow[w]
<1>1. PICK m \in Fresh :
          /\ Write(Only(m, Root(f.principal, <<SourceName, 0>>, f.source, "tombstoned",
                                f.batch, NoParent, "seed-source")), None)
          /\ flow' = [flow EXCEPT ![w] = [f EXCEPT !.at = "drafts", !.parent = SourceRow(m)]]
  BY DEF SeedSource, Continue
<1> DEFINE g == [f EXCEPT !.at = "drafts", !.parent = SourceRow(m)]
           ins == Only(m, Root(f.principal, <<SourceName, 0>>, f.source, "tombstoned",
                               f.batch, NoParent, "seed-source"))
<1>2. g.at = "drafts"
  <2>1. f.at = "source"
    BY DEF SeedSource
  <2>2. f \in Loop
    BY <2>1, LoopFacts DEF Drafting
  <2>. HIDE DEF f
  <2>. QED  BY <2>2 DEF Loop
<1>3. NoProposal
  <2>1. DOMAIN ins = {m} /\ ins[m].head.status = "tombstoned" /\ m \in Mem
    BY DEF Only, Root, Fresh
  <2>2. Write(ins, None)
    BY <1>1
  <2>. HIDE DEF ins
  <2>3. Units' = Units \cup {m} /\ heads'[m] = ins[m].head
    BY <2>1, <2>2 DEF Write, HeadsAfter, Units
  <2>. QED  BY <2>1, <2>3 DEF NoProposal
<1>4. UNCHANGED cards
  BY DEF SeedSource
<1>. HIDE DEF g
<1>. QED  BY <1>1, <1>2, <1>3, <1>4, SeedSourceQuiet, EasyMove, NoneAdmitted, WorkerCopies DEF g

LEMMA DraftCheckCopies ==
    ASSUME Base, CopiesBlocked, NEW w \in Worker, DraftCheck(w)
    PROVE  CopiesBlocked'
<1> DEFINE f == flow[w]
<1>1. f.at = "drafts" /\ UNCHANGED <<heads, cards>>
  BY DEF DraftCheck, tables
<1>2. f \in Loop
  BY <1>1, LoopFacts DEF Drafting
<1>3. [f EXCEPT !.left = Tail(@)].at = "drafts" /\ [f EXCEPT !.at = "embed"].at = "embed"
  <2>. HIDE DEF f
  <2>. QED  BY <1>1, <1>2 DEF Loop
<1>4. PICK g : flow' = [flow EXCEPT ![w] = g] /\ g.at \in {"drafts", "embed"}
  BY <1>3 DEF DraftCheck, Continue
<1>. QED  BY <1>1, <1>4, DraftCheckQuiet, EasyMove, StillAdmits, WorkerCopies

LEMMA EnqueueCheckCopies ==
    ASSUME Base, CopiesBlocked, NEW w \in Worker, EnqueueCheck(w)
    PROVE  CopiesBlocked'
<1> DEFINE f == flow[w]
           at == IF Head(f.left).targets \subseteq f.near \cap Active THEN "card" ELSE "discard"
           g == [f EXCEPT !.at = at]
<1>1. f.at = "enqueue" /\ UNCHANGED <<heads, cards>> /\ flow' = [flow EXCEPT ![w] = g]
  BY DEF EnqueueCheck, Continue, memoryVars, tables
<1>2. f \in Loop
  BY <1>1, LoopFacts DEF Drafting
<1>3. at = "card" => Head(f.left).targets \subseteq Units \ Newborn
  BY DEF Active, Newborn
<1>4. at \in {"card", "discard"}
  OBVIOUS
<1>5. g.at = at /\ g.left = f.left /\ g.candidate = f.candidate
  <2>. HIDE DEF f, at
  <2>. QED  BY <1>2, <1>4 DEF Loop
<1>. HIDE DEF g, at
<1>6. Moving(w, g)
  BY <1>1, <1>3, <1>4, <1>5 DEF Moving, Carrying, Curating
<1>. QED  BY <1>1, <1>6, EnqueueCheckQuiet, StillAdmits, WorkerCopies

LEMMA CardInsertCopies ==
    ASSUME Base, CopiesBlocked, NEW w \in Worker, CardInsert(w)
    PROVE  CopiesBlocked'
<1> DEFINE f == flow[w]
           g == [f EXCEPT !.at = "drafts", !.left = Tail(@), !.made = @ \cup {f.candidate}]
<1>1. f.at = "card" /\ UNCHANGED heads /\ flow' = [flow EXCEPT ![w] = g]
  BY DEF CardInsert, Continue
<1>2. f \in Loop
  BY <1>1, LoopFacts DEF Drafting
<1>3. g.at = "drafts"
  <2>. HIDE DEF f
  <2>. QED  BY <1>2 DEF Loop
<1>4. \A i \in DOMAIN cards' : (i \in DOMAIN cards /\ cards'[i] = cards[i])
                               \/ cards'[i].candidate = f.candidate
  <2>1. PICK c : cards' = Append(cards, c) /\ c.candidate = f.candidate
    BY DEF CardInsert
  <2>2. cards \in Seq(Card)
    BY BaseFacts
  <2>3. \A i \in DOMAIN cards' : (i \in DOMAIN cards /\ cards'[i] = cards[i]) \/ cards'[i] = c
    BY <2>1, <2>2
  <2>. QED  BY <2>1, <2>3
<1>. HIDE DEF g
<1>5. Quiet
  BY CardInsertQuiet
<1>6. Moving(w, g)
  BY <1>1, <1>3, EasyMove
<1>7. Steady
  BY <1>1, <1>4, <1>6, MovingSteady
<1>. QED  BY <1>1, <1>5, <1>7, StillAdmits, CopiesKept, QuietBase DEF Quiet

LEMMA DiscardCopies ==
    ASSUME Base, CopiesBlocked, NEW w \in Worker, Discard(w)
    PROVE  CopiesBlocked'
<1>1. flow' = [flow EXCEPT ![w] = Idle] /\ UNCHANGED cards
  BY DEF Discard, End, Continue
<1>2. Units' = Units
  BY DEF Discard, Write, HeadsAfter, None, Units
<1>3. Admits
  BY <1>2 DEF Admits, Newborn
<1>. QED  BY <1>1, <1>3, DiscardQuiet, IdleFlow, EasyMove, WorkerCopies

LEMMA EndingCopies ==
    ASSUME Base, CopiesBlocked, Quiet, NEW w \in Worker, flow' = [flow EXCEPT ![w] = Idle],
           UNCHANGED <<heads, cards>>
    PROVE  CopiesBlocked'
BY IdleFlow, EasyMove, StillAdmits, WorkerCopies

LEMMA LoopEndCopies ==
    ASSUME Base, CopiesBlocked, NEW w \in Worker, LoopEnd(w)
    PROVE  CopiesBlocked'
BY LoopEndQuiet, EndingCopies DEF LoopEnd, End, Continue

LEMMA WorkerCrashCopies ==
    ASSUME Base, CopiesBlocked, NEW w \in Worker, WorkerCrash(w)
    PROVE  CopiesBlocked'
BY WorkerCrashQuiet, EndingCopies DEF WorkerCrash, End, Continue, tables

LEMMA CuratorDiagnoseCopies ==
    ASSUME Base, CopiesBlocked, NEW w \in Worker, NEW p \in Principal, NEW repair \in Repairs,
           NEW subject, NEW others, CuratorDiagnose(w, p, repair, subject, others)
    PROVE  CopiesBlocked'
<1> DEFINE g == [at |-> "diagnosed", principal |-> p, repair |-> repair,
                 subject |-> subject, others |-> others, candidate |-> Keep, judged |-> 0]
<1>1. flow' = [flow EXCEPT ![w] = g] /\ UNCHANGED <<heads, cards>>
  BY DEF CuratorDiagnose, Begin, memoryVars, tables
<1>2. {subject} \cup others \subseteq Units \ Newborn
  BY DEF CuratorDiagnose, Active, Newborn
<1>3. g.at = "diagnosed" /\ g.subject = subject /\ g.others = others
  OBVIOUS
<1>. HIDE DEF g
<1>4. Moving(w, g)
  BY <1>1, <1>2, <1>3 DEF Moving, Carrying, Curating
<1>. QED  BY <1>1, <1>4, CuratorDiagnoseQuiet, StillAdmits, WorkerCopies

LEMMA CuratorJudgeCopies ==
    ASSUME Base, CopiesBlocked, NEW w \in Worker, CuratorJudge(w)
    PROVE  CopiesBlocked'
<1> DEFINE f == flow[w]
           m == IF f.at = "proposed" THEN f.candidate ELSE f.subject
           n == heads[m].revision
           g == [f EXCEPT !.at = "judged", !.candidate = m, !.judged = n]
<1>1. /\ f.at \in {"proposed", "diagnosed"} /\ UNCHANGED <<heads, cards>>
      /\ flow' = [flow EXCEPT ![w] = g]
  BY DEF CuratorJudge, Continue, memoryVars, tables
<1>2. f \in Curation
  BY <1>1, CurationFacts DEF Curating
<1>3. {f.subject} \cup f.others \subseteq Units \ Newborn
  BY <1>1 DEF CopiesBlocked, Curating
<1>4. g.at = "judged" /\ g.subject = f.subject /\ g.others = f.others
  <2>. HIDE DEF f, m, n
  <2>. QED  BY <1>2 DEF Curation
<1>. HIDE DEF g
<1>5. Moving(w, g)
  BY <1>1, <1>3, <1>4 DEF Moving, Carrying, Curating
<1>. QED  BY <1>1, <1>5, CuratorJudgeQuiet, StillAdmits, WorkerCopies

LEMMA CuratorCardCopies ==
    ASSUME Base, CopiesBlocked, NEW w \in Worker, CuratorCard(w)
    PROVE  CopiesBlocked'
<1>1. flow' = [flow EXCEPT ![w] = Idle] /\ UNCHANGED heads
  BY DEF CuratorCard, End, Continue
<1>2. \A i \in DOMAIN cards' : (i \in DOMAIN cards /\ cards'[i] = cards[i])
                               \/ cards'[i].birthplace = "curator"
  <2>1. PICK c : cards' = Append(cards, c) /\ c.birthplace = "curator"
    BY DEF CuratorCard
  <2>2. cards \in Seq(Card)
    BY BaseFacts
  <2>3. \A i \in DOMAIN cards' : (i \in DOMAIN cards /\ cards'[i] = cards[i]) \/ cards'[i] = c
    BY <2>1, <2>2
  <2>. QED  BY <2>1, <2>3
<1>3. Moving(w, Idle)
  BY <1>1, IdleFlow, EasyMove
<1>4. Steady
  BY <1>2, <1>3, MovingSteady
<1>5. Quiet
  BY CuratorCardQuiet
<1>. QED  BY <1>1, <1>4, <1>5, StillAdmits, CopiesKept, QuietBase DEF Quiet

(* The root x is inserted as a candidate, and n, newborn too, is a copy.   *)
LEMMA FoundByDedup ==
    ASSUME Base, NEW x \in Fresh, NEW p \in Principal, NEW b \in Body,
           heads'[x].principal = p, heads'[x].body = b, Units' = Units \cup {x},
           \A m \in Units : heads'[m] = heads[m],
           NEW n \in Newborn', Twins(x, n)', NEW excluded, n \notin excluded
    PROVE  n \in Duplicates(p, b, DedupMatches(p, b, {"active", "candidate"}, excluded))
<1>1. n # x /\ n \in Units
  BY DEF Twins, Newborn
<1>2. /\ heads'[n] = heads[n] /\ heads[n].status = "candidate" /\ heads[n].principal = p
      /\ Band[<<b, heads[n].body>>] = "duplicate"
  BY <1>1 DEF Twins, Newborn
<1>. QED  BY <1>1, <1>2 DEF Duplicates, DedupMatches, Owned

LEMMA CandidateInsertCopies ==
    ASSUME Base, CopiesBlocked, NEW w \in Worker, CandidateInsert(w)
    PROVE  CopiesBlocked'
<1> DEFINE f == flow[w]
           d == Head(f.left)
           near == DedupMatches(f.principal, d.body, {"active", "candidate"}, {})
           replaced == IF d.verdict \in Replacing THEN d.targets ELSE {}
           reason == IF f.birthplace = "seed" THEN "seed-child" ELSE "extracted"
           row == Root(f.principal, d.label, d.body, "candidate", NoOrigin, f.parent, reason)
<1>0. Quiet /\ UNCHANGED cards
  BY CandidateInsertQuiet DEF CandidateInsert
<1>1. f.at = "embed"
  BY DEF CandidateInsert
<1>2. /\ f \in Loop /\ DraftRefers(heads, f) /\ f.left \in Seq(Candidate)
      /\ f.principal \in Principal /\ f.left # <<>> /\ f.parent \in RevUid \cup {NoParent}
  BY <1>1, LoopFacts DEF Drafting, DraftRefers, Loop
<1>3. d \in Candidate
  BY <1>2
<1>4. d.label \in Label /\ d.body \in Body
  BY <1>3, PlainLabels DEF Candidate
<1>5. CASE /\ flow' = [flow EXCEPT ![w] = [f EXCEPT !.at = "drafts", !.left = Tail(@)]]
           /\ UNCHANGED heads
  <2> DEFINE g == [f EXCEPT !.at = "drafts", !.left = Tail(@)]
  <2>1. g.at = "drafts"
    <3>. HIDE DEF f
    <3>. QED  BY <1>2 DEF Loop
  <2>2. flow' = [flow EXCEPT ![w] = g]
    BY <1>5
  <2>. HIDE DEF g
  <2>. QED  BY <1>0, <1>5, <2>1, <2>2, EasyMove, StillAdmits, WorkerCopies
<1>6. CASE /\ Duplicates(f.principal, d.body, near) \subseteq replaced
           /\ \E m \in Fresh :
                /\ Write(Only(m, row), None)
                /\ flow' = [flow EXCEPT ![w] = [f EXCEPT !.at = "enqueue", !.candidate = m, !.near = near]]
  <2>1. PICK m \in Fresh :
            /\ Write(Only(m, row), None)
            /\ flow' = [flow EXCEPT ![w] = [f EXCEPT !.at = "enqueue", !.candidate = m, !.near = near]]
    BY <1>6
  <2> DEFINE g == [f EXCEPT !.at = "enqueue", !.candidate = m, !.near = near]
  <2>2. g.at = "enqueue" /\ g.left = f.left /\ g.candidate = m
    <3>. HIDE DEF f, near
    <3>. QED  BY <1>2 DEF Loop
  <2>3. Fit(Only(m, row), None)
    <3>1. /\ "candidate" \in Status /\ reason \in Reason \ {"reinforced"}
          /\ f.parent # NoParent => /\ Holds(heads, f.parent[1], f.principal)
                                    /\ f.parent[2] <= heads[f.parent[1]].revision
      BY <1>2 DEF Status, Reason, DraftRefers
    <3>. HIDE DEF f, d, reason
    <3>. QED  BY <1>2, <1>4, <3>1, BaseFacts, LoneChildFit
  <2>4. /\ Units' = Units \cup {m} /\ heads'[m].principal = f.principal
        /\ heads'[m].body = d.body /\ \A n \in Units : heads'[n] = heads[n]
    BY <2>1, <2>3, BaseFacts, LoneRootRow
  <2>5. flow' = [flow EXCEPT ![w] = g] /\ m \notin Units
    BY <2>1 DEF Fresh
  <2>. HIDE DEF g, row
  <2>6. Moving(w, g)
    BY <2>2, <2>5 DEF Moving, Carrying, Curating
  <2>7. ASSUME NEW n \in Newborn', Twins(m, n)'
        PROVE  Blocked(m, n)'
    <3>1. n \in Duplicates(f.principal, d.body, near)
      BY <1>2, <1>4, <2>4, <2>7, FoundByDedup
    <3>2. n \in d.targets
      BY <1>6, <3>1
    <3>3. ASSUME NEW i \in DOMAIN cards' PROVE cards'[i].candidate # m
      BY <1>0, <2>5, <3>3, CandidateFacts
    <3>4. ASSUME NEW v \in Worker, flow'[v].at \in Carrying, flow'[v].candidate = m
          PROVE  n \in Head(flow'[v].left).targets
      <4>1. flow'[v] = IF v = w THEN g ELSE flow[v]
        BY <2>5 DEF Base
      <4>2. CASE v = w
        BY <2>2, <3>2, <4>1, <4>2
      <4>3. CASE v # w
        <5>1. flow[v].at \in Carrying /\ flow[v].candidate = m
          BY <3>4, <4>1, <4>3
        <5>2. flow[v].candidate \in Units
          BY <5>1, LoopFacts DEF Carrying, Drafting, DraftRefers, Holds, Units
        <5>. QED  BY <2>5, <5>1, <5>2
      <4>. QED  BY <4>2, <4>3
    <3>. QED  BY <3>3, <3>4 DEF Blocked
  <2>8. Admits
    BY <2>4, <2>7 DEF Admits, Newborn
  <2>. QED  BY <1>0, <2>6, <2>8, WorkerCopies
<1>. QED  BY <1>5, <1>6 DEF CandidateInsert, Continue

LEMMA CuratorCandidateCopies ==
    ASSUME Base, CopiesBlocked, NEW w \in Worker, CuratorCandidate(w)
    PROVE  CopiesBlocked'
<1> DEFINE f == flow[w]
           spared == {f.subject} \cup f.others
           near == DedupMatches(f.principal, f.repair.body, {"active", "candidate"}, spared)
           row == Root(f.principal, f.repair.label, f.repair.body, "candidate",
                       Inherited(f.subject), NoParent, "proposed")
<1>0. Quiet /\ UNCHANGED cards
  BY CuratorCandidateQuiet DEF CuratorCandidate
<1>1. f.at = "diagnosed"
  BY DEF CuratorCandidate
<1>2. f \in Curation /\ f.principal \in Principal
  BY <1>1, CurationFacts DEF Curating
<1>3. f.repair.label \in Label /\ f.repair.body \in Body
  BY <1>2, PlainLabels DEF Curation
<1>4. spared \subseteq Units \ Newborn
  BY <1>1 DEF CopiesBlocked, Curating
<1>5. CASE flow' = [flow EXCEPT ![w] = Idle] /\ UNCHANGED heads
  BY <1>0, <1>5, EndingCopies
<1>6. CASE /\ Duplicates(f.principal, f.repair.body, near) = {}
           /\ \E m \in Fresh :
                /\ Write(Only(m, row), None)
                /\ flow' = [flow EXCEPT ![w] = [f EXCEPT !.at = "proposed", !.candidate = m]]
  <2>1. PICK m \in Fresh :
            /\ Write(Only(m, row), None)
            /\ flow' = [flow EXCEPT ![w] = [f EXCEPT !.at = "proposed", !.candidate = m]]
    BY <1>6
  <2> DEFINE g == [f EXCEPT !.at = "proposed", !.candidate = m]
  <2>2. g.at = "proposed" /\ g.subject = f.subject /\ g.others = f.others
    <3>. HIDE DEF f
    <3>. QED  BY <1>2 DEF Curation
  <2>3. Fit(Only(m, row), None)
    <3>1. /\ "candidate" \in Status /\ "proposed" \in Reason \ {"reinforced"}
          /\ NoParent \in RevUid \cup {NoParent}
          /\ Inherited(f.subject) \in Batch \cup {NoOrigin}
      BY InheritedTyped DEF Status, Reason
    <3>. HIDE DEF f
    <3>. QED  BY <1>2, <1>3, <3>1, BaseFacts, LoneChildFit
  <2>4. /\ Units' = Units \cup {m} /\ heads'[m].principal = f.principal
        /\ heads'[m].body = f.repair.body /\ \A n \in Units : heads'[n] = heads[n]
    BY <2>1, <2>3, BaseFacts, LoneRootRow
  <2>5. flow' = [flow EXCEPT ![w] = g] /\ m \notin Units
    BY <2>1 DEF Fresh
  <2>. HIDE DEF g, row
  <2>6. Moving(w, g)
    BY <1>4, <2>2, <2>5 DEF Moving, Carrying, Curating
  <2>7. ASSUME NEW n \in Newborn', Twins(m, n)'
        PROVE  FALSE
    <3>1. n # m /\ n \in Units
      BY <2>4, <2>7 DEF Twins, Newborn
    <3>2. n \in Newborn
      BY <2>4, <2>7, <3>1 DEF Newborn
    <3>3. n \notin spared
      BY <1>4, <3>2
    <3>. HIDE DEF spared
    <3>. QED  BY <1>2, <1>3, <1>6, <2>4, <2>7, <3>3, FoundByDedup
  <2>8. Admits
    BY <2>4, <2>7 DEF Admits, Newborn
  <2>. QED  BY <1>0, <2>6, <2>8, WorkerCopies
<1>. QED  BY <1>5, <1>6 DEF CuratorCandidate, Continue, End

LEMMA CopiesStep ==
    ASSUME Base, CopiesBlocked, [QueueNext]_queueVars
    PROVE  CopiesBlocked'
<1>1. ASSUME NEW w \in Worker, WorkerNext(w) PROVE CopiesBlocked'
  BY <1>1, ExtractCopies, SeedCopies, SeedSourceCopies, DraftCheckCopies,
     CandidateInsertCopies, EnqueueCheckCopies, CardInsertCopies, DiscardCopies,
     LoopEndCopies, CuratorDiagnoseCopies, CuratorCandidateCopies, CuratorJudgeCopies,
     CuratorCardCopies, WorkerCrashCopies DEF WorkerNext
<1>2. ASSUME Quiet, NoProposal, UNCHANGED <<cards, flow>> PROVE CopiesBlocked'
  BY <1>2, NoneAdmitted, StillSteady, CopiesKept, QuietBase DEF Quiet
<1>3. ASSUME NEW c \in Client, HandlerNext(c), UNCHANGED flow PROVE CopiesBlocked'
  <2>1. UNCHANGED cards
    BY <1>3, HandlerGentle DEF Base
  <2>. QED  BY <1>2, <1>3, <2>1, HandlerQuiet
<1>4. ASSUME UNCHANGED queueVars PROVE CopiesBlocked'
  <2>1. UNCHANGED <<cards, flow>>
    BY <1>4 DEF queueVars, memoryVars, tables
  <2>. QED  BY <1>2, <1>4, <2>1, StutterQuiet
<1>5. ASSUME DecideNext PROVE CopiesBlocked'
  <2>1. PICK S \in SUBSET DOMAIN cards, signal \in Signal : Decisive(S, signal)
    BY <1>5, DecideDecisive
  <2>2. /\ Evolves /\ UNCHANGED flow /\ Record(S, signal)
        /\ \A m \in Units' \ Units : heads'[m].status = "active"
    BY <2>1 DEF Decisive, Settles
  <2>3. NoProposal
    BY <2>2 DEF NoProposal
  <2>4. /\ DOMAIN cards' = DOMAIN cards
        /\ \A i \in DOMAIN cards : /\ cards'[i].birthplace = cards[i].birthplace
                                   /\ cards'[i].candidate = cards[i].candidate
    BY <2>2, Recorded
  <2>. QED  BY <2>1, <2>2, <2>3, <2>4, NoneAdmitted, StillSteady, CopiesKept, DecisiveBase
<1>. QED  BY <1>1, <1>3, <1>4, <1>5 DEF QueueNext

LEMMA CopiesBlockedHolds ==
    QueueSpec => [](Base /\ CopiesBlocked)
<1>1. QueueInit => Base /\ CopiesBlocked
  <2>. SUFFICES ASSUME QueueInit PROVE Base /\ CopiesBlocked
    OBVIOUS
  <2>1. Newborn = {}
    BY DEF QueueInit, Init, EmptyTables, None, Newborn, Units
  <2>2. \A w \in Worker : flow[w].at = "idle"
    BY IdleFlow DEF QueueInit
  <2>. QED  BY <2>1, <2>2, InitBase DEF CopiesBlocked, Curating
<1>2. Base /\ CopiesBlocked /\ [QueueNext]_queueVars => (Base /\ CopiesBlocked)'
  <2>. SUFFICES ASSUME Base, CopiesBlocked, [QueueNext]_queueVars
                PROVE  Base' /\ CopiesBlocked'
    OBVIOUS
  <2>. QED  BY CopiesStep, QueueStepKinds, QuietBase, DecisiveBase
<1>. QED  BY <1>1, <1>2, PTL DEF QueueSpec

(* Queue-aware dedup (create_candidate, _enqueue): however extractions,    *)
(* seeds, curators, decisions and crashes interleave, no two pending thread*)
(* or seed cards of one owner offer hard duplicates.  A candidate is let   *)
(* in beside a copy only to replace it, and is discarded, not carded,      *)
(* unless what it replaces is active by then.                              *)
THEOREM QueueHoldsNoCopiesHolds == QueueSpec => []QueueHoldsNoCopies
<1>1. Base /\ CopiesBlocked => QueueHoldsNoCopies
  <2>. SUFFICES ASSUME Base, CopiesBlocked, NEW i \in DOMAIN cards, NEW j \in DOMAIN cards,
                       Offered(i), Offered(j), Twins(cards[i].candidate, cards[j].candidate)
                PROVE  FALSE
    BY DEF QueueHoldsNoCopies
  <2>1. cards[i].candidate \in Newborn /\ cards[j].candidate \in Newborn
    BY CandidateFacts DEF Offered, Newborn
  <2>2. \/ Blocked(cards[i].candidate, cards[j].candidate)
        \/ Blocked(cards[j].candidate, cards[i].candidate)
    BY <2>1 DEF CopiesBlocked
  <2>. QED  BY <2>2 DEF Blocked, Offered
<1>. QED  BY <1>1, CopiesBlockedHolds, PTL

-----------------------------------------------------------------------------
(* The Symphony bridge.  A step of it decides nothing; what it puts in the *)
(* queue are pending symphony cards.                                       *)
LEMMA RunOrigins ==
    ASSUME NEW run \in RunId, NEW path \in Attempt
    PROVE  /\ <<run, path>> \in Origin /\ <<run, path>> \notin Batch \cup {NoOrigin}
BY SymphonyAssumption, OriginAssumption

LEMMA RunsNotLocal ==
    ASSUME NEW run \in RunId, NEW m \in OfRun(run)
    PROVE  /\ m \in Units /\ ~Local(heads, m)
           /\ heads[m].origin[1] = run /\ heads[m].origin[2] \in Attempt
           /\ heads[m].origin = <<run, heads[m].origin[2]>>
BY RunOrigins DEF OfRun, Local

(* The queue's part of a step that leaves decisions and workers alone and  *)
(* draws no edge.                                                          *)
Bridging ==
    /\ Inv' /\ Evolves /\ UNCHANGED <<edges, decisions, flow>>
    /\ cards' \in Seq(Card) /\ DOMAIN cards \subseteq DOMAIN cards'
    /\ \A i \in DOMAIN cards : cards'[i] = cards[i]
    /\ \A i \in DOMAIN cards' \ DOMAIN cards :
        /\ cards'[i].state = "pending" /\ cards'[i].birthplace = "symphony"
        /\ Holds(heads, cards'[i].candidate, cards'[i].principal)
    /\ Active' = Active

LEMMA BridgingBase ==
    ASSUME Base, Bridging PROVE Base'
<1>1. flow' \in [Worker -> Flow] /\ WorkersRefer'
  BY WorkersStay DEF Bridging
<1>2. \A i \in DOMAIN cards' : CardRefers(heads', cards'[i])
  <2>1. \A i \in DOMAIN cards' : CardRefers(heads, cards'[i])
    BY DEF Bridging, Base, CardsRefer, CardRefers
  <2>. QED  BY <2>1, CardStays DEF Bridging
<1>3. CardsRefer'
  BY <1>2 DEF CardsRefer
<1>4. Kinship' /\ LabelIndex' /\ decisions' \subseteq Decision
  BY DEF Bridging, Evolves, Base
<1>. QED  BY <1>1, <1>3, <1>4 DEF Base, Bridging

LEMMA BridgingMatch ==
    ASSUME Base, DecisionsMatchCards, Bridging
    PROVE  DecisionsMatchCards'
<1>1. Decided \subseteq DOMAIN cards /\ \A i \in DOMAIN cards : Matched(i)
  BY MatchedCards DEF Base
<1>2. /\ decisions' = decisions
      /\ cards' \in Seq(Card) /\ DOMAIN cards \subseteq DOMAIN cards'
      /\ \A i \in DOMAIN cards : cards'[i] = cards[i]
      /\ \A i \in DOMAIN cards' \ DOMAIN cards : cards'[i].state = "pending"
  BY DEF Bridging
<1>3. Decided' = Decided
  BY <1>2 DEF Decided
<1>4. ASSUME NEW i \in DOMAIN cards' PROVE Matched(i)'
  <2>0. Signals(i)' = Signals(i)
    BY <1>2 DEF Signals
  <2>1. CASE i \in DOMAIN cards
    BY <1>1, <1>2, <2>0, <2>1 DEF Matched
  <2>2. CASE i \notin DOMAIN cards
    <3>1. Signals(i) = {}
      BY <1>1, <2>2, NoSignals
    <3>2. \A j \in DOMAIN cards' \ DOMAIN cards : cards'[j].state = "pending"
      BY DEF Bridging
    <3>3. cards'[i].state = "pending"
      BY <2>2, <3>2
    <3>. QED  BY <2>0, <3>1, <3>3 DEF Matched
  <2>. QED  BY <2>1, <2>2
<1>5. Decided' \subseteq DOMAIN cards'
  BY <1>1, <1>2, <1>3
<1>. QED  BY <1>2, <1>4, <1>5, MatchedNext

LEMMA BridgingProgress ==
    ASSUME Base, Bridging PROVE Progress
BY DEF Bridging, Progress, SameCard

LEMMA BridgingQueueInv ==
    ASSUME QueueInv, Bridging PROVE QueueInv'
<1>1. Base /\ DecisionsMatchCards /\ Evolves
  BY DEF QueueInv, Bridging
<1>2. Base' /\ DecisionsMatchCards' /\ Progress
  BY <1>1, BridgingBase, BridgingMatch, BridgingProgress
<1>. QED  BY <1>1, <1>2, ConsentKept, VerdictsKept, JudgedKept DEF QueueInv

(* A new memory of an attempt is staged.                                   *)
LEMMA StageBridges ==
    ASSUME Base, NEW m \in Mem, NEW p \in Principal, NEW run \in RunId, NEW path \in Attempt,
           NEW d \in Drafts, Stage(m, p, run, path, d)
    PROVE  /\ Bridging /\ cards' = cards /\ resolutions' = resolutions
           /\ Units' = Units \cup {m} /\ heads'[m].status = "staged"
           /\ \A n \in Units : heads'[n] = heads[n] /\ history'[n] = history[n]
<1> DEFINE ins == Only(m, Root(p, d.label, d.body, "staged", <<run, path>>, NoParent, "staged"))
<1>1. /\ m \in Fresh /\ Write(ins, None)
      /\ UNCHANGED <<edges, cards, decisions, lock, req, shown, flow, resolutions>>
  BY DEF Stage
<1>2. /\ d.label \in Label /\ d.body \in Body /\ "staged" \in Status
      /\ "staged" \in Reason \ {"reinforced"} /\ <<run, path>> \in Origin \cup {NoOrigin}
  BY DraftsAssumption, PlainLabels, RunOrigins DEF Draft, Status, Reason
<1>3. Fit(ins, None)
  BY <1>1, <1>2, BaseFacts, LoneRootFit
<1>4. Owning(ins, None)
  <2>1. DOMAIN ins = {m} /\ ins[m].parent = NoParent /\ DOMAIN None = {}
    BY DEF Only, None, Root
  <2>. HIDE DEF ins
  <2>. QED  BY <2>1 DEF Owning
<1>5. /\ Units' = Units \cup {m} /\ m \in Mem \ Units /\ heads'[m].status = "staged"
      /\ \A n \in Units : heads'[n] = heads[n] /\ history'[n] = history[n]
  BY <1>1, <1>3, BaseFacts, LoneRootRow
<1>. HIDE DEF ins
<1>6. Evolves
  BY <1>1, <1>3, <1>4, WriteEvolves DEF Base
<1>7. Inv'
  BY <1>1, <1>3, <1>5, Before, WritingStep DEF Base
<1>8. Active' = Active
  BY <1>5 DEF Active
<1>. QED  BY <1>1, <1>5, <1>6, <1>7, <1>8 DEF Bridging, Base

(* A step that reads, or takes or gives a lock.                            *)
LEMMA PauseBridges ==
    ASSUME Base, UNCHANGED <<tables, req, shown, flow>>, lock' \subseteq Principal
    PROVE  Bridging
<1>1. UNCHANGED <<heads, history, edges, cards, decisions, req, shown, flow>>
  BY DEF tables
<1>2. Inv'
  BY <1>1, Before, ReadOnlyInv DEF Base
<1>3. Evolves
  BY <1>1, StillGentle DEF Base
<1>4. Active' = Active
  BY <1>1 DEF Active, Units
<1>. QED  BY <1>1, <1>2, <1>3, <1>4 DEF Bridging, Base

(* What a resolution that read these rows makes of them and of the queue.  *)
Closing(p, rows, run, winner, batch) ==
    /\ rows \subseteq StagedOf(run)
    /\ \A m \in rows :
        /\ heads'[m].status = IF Won(m, winner) THEN "candidate" ELSE "tombstoned"
        /\ heads'[m].body = heads[m].body /\ heads'[m].label = heads[m].label
        /\ heads'[m].principal = heads[m].principal /\ heads[m].principal = p
    /\ Units' = Units
    /\ \A m \in Units \ rows : heads'[m] = heads[m]
    /\ \A i \in DOMAIN cards' \ DOMAIN cards :
        /\ cards'[i].candidate \in rows /\ Won(cards'[i].candidate, winner)
        /\ cards'[i].batch = batch
    /\ \A i, j \in DOMAIN cards' \ DOMAIN cards :
        cards'[i].candidate = cards'[j].candidate => i = j
    /\ \A m \in rows : Won(m, winner) =>
        \E i \in DOMAIN cards' \ DOMAIN cards : cards'[i].candidate = m
    /\ run \notin DOMAIN resolutions /\ DOMAIN resolutions' = DOMAIN resolutions \cup {run}
    /\ \A r \in DOMAIN resolutions : resolutions'[r] = resolutions[r]
    /\ resolutions'[run] = ResolutionRow(p, batch, winner)

LEMMA WinnerCardTyped ==
    ASSUME NEW m \in Mem, NEW p \in Principal, NEW batch \in Batch
    PROVE  /\ WinnerCard(m, p, batch) \in Card
           /\ WinnerCard(m, p, batch).candidate = m /\ WinnerCard(m, p, batch).principal = p
           /\ WinnerCard(m, p, batch).state = "pending"
           /\ WinnerCard(m, p, batch).birthplace = "symphony"
           /\ WinnerCard(m, p, batch).batch = batch
BY DEF WinnerCard, Card, Birthplace, Verdict

(* The rows, the cards and the resolution are written together.            *)
LEMMA WritingCloses ==
    ASSUME Base, NEW p \in Principal, NEW run \in RunId, NEW winner \in Attempt,
           NEW batch \in Batch, NEW rows \in SUBSET StagedOf(run),
           \A m \in rows : heads[m].principal = p,
           run \notin DOMAIN resolutions,
           Write(None, [m \in rows |-> Settled(m, winner)]),
           \E order \in Orders({m \in rows : Won(m, winner)}) :
              cards' = cards \o [k \in DOMAIN order |-> WinnerCard(order[k], p, batch)],
           resolutions' = [q \in DOMAIN resolutions \cup {run} |->
              IF q = run THEN ResolutionRow(p, batch, winner) ELSE resolutions[q]],
           lock' \subseteq Principal, UNCHANGED <<edges, decisions, req, shown, flow>>
    PROVE  Bridging /\ Closing(p, rows, run, winner, batch)
<1> DEFINE winners == {m \in rows : Won(m, winner)}
           upd == [m \in rows |-> Settled(m, winner)]
<1>1. Write(None, upd)
  OBVIOUS
<1>2. PICK order \in Orders(winners) :
          cards' = cards \o [k \in DOMAIN order |-> WinnerCard(order[k], p, batch)]
  OBVIOUS
<1>3. ASSUME NEW m \in rows
      PROVE  /\ m \in Units /\ m \in Mem /\ heads[m].status = "staged"
             /\ upd[m].head \in UnitRow
             /\ upd[m].head.principal = heads[m].principal
             /\ upd[m].head.origin = heads[m].origin
             /\ upd[m].head.reinforcements = heads[m].reinforcements
             /\ upd[m].head.body = heads[m].body /\ upd[m].head.label = heads[m].label
             /\ upd[m].head.status = IF Won(m, winner) THEN "candidate" ELSE "tombstoned"
             /\ upd[m].reason \in {"winner", "loser"}
  <2>1. m \in Units /\ m \in Mem /\ heads[m] \in UnitRow /\ heads[m].status = "staged"
    BY BaseFacts DEF Rows, StagedOf, OfRun
  <2> DEFINE h == heads[m]
             s == IF Won(m, winner) THEN "candidate" ELSE "tombstoned"
  <2>2. upd[m].head = [h EXCEPT !.status = s] /\ upd[m].reason \in {"winner", "loser"}
    BY DEF Settled, Change
  <2>3. h \in UnitRow /\ s \in Status
    BY <2>1 DEF Status
  <2>. HIDE DEF h, upd, s
  <2>4. /\ upd[m].head \in UnitRow /\ upd[m].head.principal = h.principal
        /\ upd[m].head.origin = h.origin /\ upd[m].head.status = s
        /\ upd[m].head.reinforcements = h.reinforcements
        /\ upd[m].head.body = h.body /\ upd[m].head.label = h.label
    BY <2>2, <2>3, HeadChanged
  <2>. QED  BY <2>1, <2>2, <2>4 DEF h, s
<1>4. DOMAIN upd = rows /\ DOMAIN None = {}
  BY DEF None
<1>. HIDE DEF upd
<1>5. "winner" \in Reason /\ "loser" \in Reason /\ "winner" # "reinforced" /\ "loser" # "reinforced"
  BY DEF Reason
<1>6. Fit(None, upd) /\ Owning(None, upd)
  <2>1. GoodUpdates(upd) /\ Counted(upd)
    BY <1>3, <1>4, <1>5 DEF GoodUpdates, Counted
  <2>2. \A m \in DOMAIN upd : /\ upd[m].head.principal = heads[m].principal
                              /\ upd[m].head.origin = heads[m].origin
                              /\ upd[m].head.status # "staged"
    BY <1>3, <1>4
  <2>. QED  BY <1>4, <2>1, <2>2, UpdatesFit DEF Owning
<1>7. Evolves
  BY <1>1, <1>6, WriteEvolves DEF Base
<1>8. Units' = Units
  BY <1>1, <1>4, WriteUnits
<1>9. Inv'
  BY <1>1, <1>6, <1>8, Before, WritingStep DEF Base
<1>10. ASSUME NEW m \in rows
       PROVE  /\ heads'[m].status = IF Won(m, winner) THEN "candidate" ELSE "tombstoned"
              /\ heads'[m].body = heads[m].body /\ heads'[m].label = heads[m].label
              /\ heads'[m].principal = heads[m].principal /\ heads[m].principal = p
  <2>1. /\ heads'[m].principal = upd[m].head.principal
        /\ heads'[m].status = upd[m].head.status
        /\ heads'[m].body = upd[m].head.body
        /\ heads'[m].label = upd[m].head.label
    BY <1>1, <1>4, <1>6, BaseFacts, UpdatedRow DEF Fit
  <2>. QED  BY <1>1, <1>3, <2>1
<1>11. \A m \in Units \ rows : heads'[m] = heads[m]
  BY <1>1, <1>4, <1>6, BaseFacts, UntouchedRow DEF Fit
<1>12. Active' = Active
  <2>1. \A m \in rows : heads[m].status # "active" /\ heads'[m].status # "active"
    BY <1>3, <1>10
  <2>. QED  BY <1>8, <1>11, <2>1 DEF Active
<1>13. /\ cards' \in Seq(Card) /\ DOMAIN cards \subseteq DOMAIN cards'
       /\ \A i \in DOMAIN cards : cards'[i] = cards[i]
       /\ \A i \in DOMAIN cards' \ DOMAIN cards :
             \E m \in winners : cards'[i] = WinnerCard(m, p, batch)
       /\ \A m \in winners :
             \E i \in DOMAIN cards' \ DOMAIN cards : cards'[i] = WinnerCard(m, p, batch)
       /\ \A i, j \in DOMAIN cards' \ DOMAIN cards :
             cards'[i].candidate = cards'[j].candidate => i = j
  <2> DEFINE n == Cardinality(winners)
             new == [k \in DOMAIN order |-> WinnerCard(order[k], p, batch)]
  <2>1. winners \subseteq Mem
    BY <1>3
  <2>2. n \in Nat
    BY <2>1, FiniteIds, FS_Subset, FS_CardinalityType
  <2>3. /\ order \in [1 .. n -> winners] /\ DOMAIN order = 1 .. n
        /\ \A m \in winners : \E k \in 1 .. n : order[k] = m
        /\ \A j, k \in 1 .. n : order[j] = order[k] => j = k
    BY DEF Orders, Bijection, Injection, Surjection, IsInjective
  <2>. HIDE DEF n, winners
  <2>4. /\ new \in [1 .. n -> Card]
        /\ \A k \in 1 .. n : new[k] = WinnerCard(order[k], p, batch) /\ order[k] \in winners
    BY <2>1, <2>3, WinnerCardTyped
  <2>5. cards \in Seq(Card) /\ cards' = cards \o new
    BY <1>2 DEF Base
  <2>. HIDE DEF new
  <2>6. /\ cards' \in Seq(Card) /\ DOMAIN cards \subseteq DOMAIN cards'
        /\ \A i \in DOMAIN cards : cards'[i] = cards[i]
        /\ \A i \in DOMAIN cards' \ DOMAIN cards : \E k \in 1 .. n : cards'[i] = new[k]
        /\ \A k \in 1 .. n : \E i \in DOMAIN cards' \ DOMAIN cards : cards'[i] = new[k]
    <3>1. new \in [1 .. n -> Card]
      BY <2>4
    <3>2. Extension(cards, new, n, cards') /\ cards' \in Seq(Card)
      BY <2>2, <2>5, <3>1, ConcatFacts
    <3>. QED  BY <3>2, Zenon DEF Extension
  <2>7. \A i \in DOMAIN cards' \ DOMAIN cards :
           \E m \in winners : cards'[i] = WinnerCard(m, p, batch)
    BY <2>4, <2>6
  <2>8. \A m \in winners :
           \E i \in DOMAIN cards' \ DOMAIN cards : cards'[i] = WinnerCard(m, p, batch)
    <3>. SUFFICES ASSUME NEW m \in winners
                  PROVE  \E i \in DOMAIN cards' \ DOMAIN cards : cards'[i] = WinnerCard(m, p, batch)
      OBVIOUS
    <3>1. PICK k \in 1 .. n : order[k] = m
      BY <2>3
    <3>2. new[k] = WinnerCard(m, p, batch)
      BY <2>4, <3>1
    <3>3. PICK i \in DOMAIN cards' \ DOMAIN cards : cards'[i] = new[k]
      BY <2>6
    <3>. QED  BY <3>2, <3>3
  <2>9. ASSUME NEW i \in DOMAIN cards' \ DOMAIN cards, NEW j \in DOMAIN cards' \ DOMAIN cards,
               cards'[i].candidate = cards'[j].candidate
        PROVE  i = j
    <3> DEFINE l == Len(cards)
    <3>1. /\ l \in Nat /\ DOMAIN cards = 1 .. l /\ DOMAIN cards' = 1 .. l + n
          /\ \A k \in 1 .. l + n : cards'[k] = IF k <= l THEN cards[k] ELSE new[k - l]
      <4>1. new \in [1 .. n -> Card]
        BY <2>4
      <4>2. cards \in Seq(Card)
        BY <2>5
      <4>3. /\ l \in Nat /\ DOMAIN cards = 1 .. l /\ DOMAIN (cards \o new) = 1 .. l + n
            /\ \A k \in 1 .. l + n : (cards \o new)[k] = IF k <= l THEN cards[k] ELSE new[k - l]
        BY <2>2, <4>1, <4>2, ConcatAt
      <4>4. PICK u : u = cards \o new
        OBVIOUS
      <4>5. cards' = u
        BY <2>5, <4>4
      <4>. QED  BY <4>3, <4>4, <4>5
    <3>. HIDE DEF l
    <3>2. /\ i \in 1 .. l + n /\ j \in 1 .. l + n /\ i - l \in 1 .. n /\ j - l \in 1 .. n
          /\ ~(i <= l) /\ ~(j <= l)
      BY <2>2, <2>9, <3>1
    <3>3. cards'[i] = new[i - l] /\ cards'[j] = new[j - l]
      BY <3>1, <3>2
    <3>4. /\ cards'[i] = WinnerCard(order[i - l], p, batch)
          /\ cards'[j] = WinnerCard(order[j - l], p, batch)
      BY <2>4, <3>2, <3>3
    <3>5. order[i - l] = order[j - l]
      BY <2>9, <3>4 DEF WinnerCard
    <3>. QED  BY <2>2, <2>3, <3>1, <3>2, <3>5
  <2>. QED  BY <2>6, <2>7, <2>8, <2>9
<1>14. ASSUME NEW i \in DOMAIN cards' \ DOMAIN cards
       PROVE  /\ cards'[i].candidate \in rows /\ Won(cards'[i].candidate, winner)
              /\ cards'[i].batch = batch
              /\ cards'[i].state = "pending" /\ cards'[i].birthplace = "symphony"
              /\ Holds(heads, cards'[i].candidate, cards'[i].principal)
  <2>1. PICK m \in winners : cards'[i] = WinnerCard(m, p, batch)
    BY <1>13
  <2>2. m \in rows /\ m \in Mem /\ m \in Units /\ heads[m].principal = p
    BY <1>1, <1>3, <2>1
  <2>. QED  BY <2>1, <2>2, WinnerCardTyped DEF Holds, Units
<1>15. \A m \in rows : Won(m, winner) =>
         \E i \in DOMAIN cards' \ DOMAIN cards : cards'[i].candidate = m
  <2>1. ASSUME NEW m \in rows, Won(m, winner)
        PROVE  \E i \in DOMAIN cards' \ DOMAIN cards : cards'[i].candidate = m
    <3>1. PICK i \in DOMAIN cards' \ DOMAIN cards : cards'[i] = WinnerCard(m, p, batch)
      BY <1>13, <2>1
    <3>2. cards'[i].candidate = m
      BY <3>1 DEF WinnerCard
    <3>. QED  BY <3>2
  <2>. QED  BY <2>1
<1>16. /\ DOMAIN resolutions' = DOMAIN resolutions \cup {run}
       /\ \A r \in DOMAIN resolutions : resolutions'[r] = resolutions[r]
       /\ resolutions'[run] = ResolutionRow(p, batch, winner)
  BY <1>1
<1>. QED  BY <1>1, <1>7, <1>8, <1>9, <1>10, <1>11, <1>12, <1>13, <1>14, <1>15, <1>16
          DEF Bridging, Closing

(* What an open resolution carries: rows it read staged, its owner's and   *)
(* of its run, and that are so until somebody writes them.                 *)
ReadFits(hs, p, r) ==
    /\ p \in Principal /\ r.run \in RunId /\ r.winner \in Attempt /\ r.batch \in Batch
    /\ \A m \in DOMAIN r.read :
        /\ m \in DOMAIN hs /\ r.read[m] \in Nat /\ r.read[m] <= hs[m].revision
        /\ hs[m].revision = r.read[m] =>
            /\ hs[m].status = "staged" /\ hs[m].principal = p
            /\ hs[m].origin \in {r.run} \X Attempt

ResolversFit == \A p \in DOMAIN resolving : ReadFits(heads, p, resolving[p])

LEMMA ReadFitsStill ==
    ASSUME Base, Inv', Evolves, NEW p, NEW r, ReadFits(heads, p, r)
    PROVE  ReadFits(heads', p, r)
<1>1. ASSUME NEW m \in DOMAIN r.read
      PROVE  /\ m \in DOMAIN heads' /\ r.read[m] \in Nat /\ r.read[m] <= heads'[m].revision
             /\ heads'[m].revision = r.read[m] =>
                 /\ heads'[m].status = "staged" /\ heads'[m].principal = p
                 /\ heads'[m].origin \in {r.run} \X Attempt
  <2>1. /\ m \in Units /\ r.read[m] \in Nat /\ r.read[m] <= heads[m].revision
        /\ heads[m].revision = r.read[m] =>
            /\ heads[m].status = "staged" /\ heads[m].principal = p
            /\ heads[m].origin \in {r.run} \X Attempt
    BY DEF ReadFits, Units
  <2>2. /\ m \in Units' /\ heads'[m].revision >= heads[m].revision
        /\ heads'[m].revision = heads[m].revision => heads'[m] = heads[m]
    BY <2>1 DEF Evolves
  <2>3. heads[m].revision \in Nat /\ heads'[m].revision \in Nat
    BY <2>1, <2>2, UnitFacts DEF Inv, MemoryTypes, MemoryTypeOK, UnitRow
  <2>. QED  BY <2>1, <2>2, <2>3 DEF Units
<1>. QED  BY <1>1 DEF ReadFits

LEMMA ResolversStay ==
    ASSUME Base, Inv', Evolves, ResolversFit, DOMAIN resolving' \subseteq DOMAIN resolving,
           \A p \in DOMAIN resolving' : resolving'[p] = resolving[p]
    PROVE  ResolversFit'
BY ReadFitsStill DEF ResolversFit

(* The three steps of a resolution.                                        *)
LEMMA ReadBridges ==
    ASSUME Base, ResolversFit, NEW p \in Principal, NEW run \in RunId, NEW winner \in Attempt,
           NEW batch \in Batch, ResolveRead(p, run, winner, batch)
    PROVE  Bridging /\ ResolversFit' /\ UNCHANGED <<heads, resolutions>>
<1> DEFINE rows == StagedOf(run)
           r == [run |-> run, winner |-> winner, batch |-> batch,
                 read |-> [m \in rows |-> heads[m].revision]]
<1>1. /\ \A m \in rows : heads[m].principal = p
      /\ lock' = lock \cup {p} /\ UNCHANGED <<tables, req, shown, flow, resolutions>>
      /\ resolving' = [q \in DOMAIN resolving \cup {p} |-> IF q # p THEN resolving[q] ELSE r]
  BY DEF ResolveRead
<1>2. Bridging /\ UNCHANGED <<heads, resolutions>>
  <2>1. lock' \subseteq Principal
    BY <1>1, Before DEF Base
  <2>. QED  BY <1>1, <2>1, PauseBridges DEF tables
<1>3. ReadFits(heads, p, r)
  <2>1. /\ r.run = run /\ r.winner = winner /\ r.batch = batch
        /\ r.read = [m \in rows |-> heads[m].revision]
    OBVIOUS
  <2>. HIDE DEF r
  <2>2. ASSUME NEW m \in rows
        PROVE  /\ m \in Units /\ heads[m].revision \in Nat /\ heads[m].status = "staged"
               /\ heads[m].origin \in {run} \X Attempt
    BY UnitFacts DEF StagedOf, OfRun
  <2>3. DOMAIN r.read = rows /\ \A m \in rows : r.read[m] = heads[m].revision
    BY <2>1
  <2>. QED  BY <1>1, <2>1, <2>2, <2>3 DEF ReadFits, Units
<1>. HIDE DEF r
<1>4. ResolversFit'
  <2>1. ASSUME NEW q \in DOMAIN resolving' PROVE ReadFits(heads', q, resolving'[q])
    <3>1. UNCHANGED heads
      BY <1>2
    <3>2. CASE q = p
      <4>1. resolving'[q] = r
        BY <1>1, <3>2
      <4>. QED  BY <1>3, <3>1, <3>2, <4>1
    <3>3. CASE q # p
      <4>1. q \in DOMAIN resolving /\ resolving'[q] = resolving[q]
        BY <1>1, <3>3
      <4>. QED  BY <3>1, <4>1 DEF ResolversFit
    <3>. QED  BY <3>2, <3>3
  <2>. QED  BY <2>1 DEF ResolversFit
<1>. QED  BY <1>2, <1>4

LEMMA ClosedRest ==
    ASSUME Base, NEW p, Closed(p)
    PROVE  /\ lock' \subseteq Principal /\ DOMAIN resolving' = DOMAIN resolving \ {p}
           /\ \A q \in DOMAIN resolving' : resolving'[q] = resolving[q]
BY Before DEF Base, Closed

LEMMA AbortBridges ==
    ASSUME Base, ResolversFit, NEW p, ResolveAbort(p)
    PROVE  Bridging /\ ResolversFit' /\ UNCHANGED <<heads, resolutions>>
<1>1. Closed(p) /\ UNCHANGED <<tables, req, shown, flow, resolutions>>
  BY DEF ResolveAbort
<1>2. /\ lock' \subseteq Principal /\ DOMAIN resolving' = DOMAIN resolving \ {p}
      /\ \A q \in DOMAIN resolving' : resolving'[q] = resolving[q]
  BY <1>1, ClosedRest
<1>3. Bridging /\ UNCHANGED <<heads, resolutions>>
  BY <1>1, <1>2, PauseBridges DEF tables
<1>. QED  BY <1>2, <1>3, ResolversStay DEF Bridging

LEMMA CommitBridges ==
    ASSUME Base, ResolversFit, NEW p \in DOMAIN resolving, ResolveCommit(p)
    PROVE  LET r == resolving[p] IN
           /\ p \in Principal /\ r.run \in RunId /\ r.winner \in Attempt /\ r.batch \in Batch
           /\ Bridging /\ Closing(p, DOMAIN r.read, r.run, r.winner, r.batch)
           /\ \A m \in DOMAIN r.read : r.read[m] = heads[m].revision
           /\ ResolversFit' /\ DOMAIN resolving' = DOMAIN resolving \ {p}
<1> DEFINE r == resolving[p]
           rows == DOMAIN r.read
<1>1. /\ ReadFits(heads, p, r)
      /\ r.run \notin DOMAIN resolutions
      /\ \A m \in rows : heads[m].revision = r.read[m]
      /\ Write(None, [m \in rows |-> Settled(m, r.winner)])
      /\ \E order \in Orders({m \in rows : Won(m, r.winner)}) :
            cards' = cards \o [k \in DOMAIN order |-> WinnerCard(order[k], p, r.batch)]
      /\ resolutions' = [q \in DOMAIN resolutions \cup {r.run} |->
            IF q = r.run THEN ResolutionRow(p, r.batch, r.winner) ELSE resolutions[q]]
      /\ Closed(p)
      /\ UNCHANGED <<edges, decisions, req, shown, flow>>
  BY DEF ResolveCommit, RowsRead, ResolversFit
<1>. HIDE DEF r
<1>2. p \in Principal /\ r.run \in RunId /\ r.winner \in Attempt /\ r.batch \in Batch
  BY <1>1 DEF ReadFits
<1>3. ASSUME NEW m \in rows
      PROVE  m \in StagedOf(r.run) /\ heads[m].principal = p
  BY <1>1 DEF ReadFits, StagedOf, OfRun, Units
<1>4. /\ lock' \subseteq Principal /\ DOMAIN resolving' = DOMAIN resolving \ {p}
      /\ \A q \in DOMAIN resolving' : resolving'[q] = resolving[q]
  BY <1>1, ClosedRest
<1>5. rows \in SUBSET StagedOf(r.run) /\ \A m \in rows : heads[m].principal = p
  BY <1>3
<1>. HIDE DEF rows
<1>6. Bridging /\ Closing(p, rows, r.run, r.winner, r.batch)
  BY <1>1, <1>2, <1>4, <1>5, WritingCloses
<1>7. ResolversFit'
  BY <1>4, <1>6, ResolversStay DEF Bridging
<1>. QED  BY <1>1, <1>2, <1>4, <1>6, <1>7 DEF r, rows

(* A symphony card offers a winner of the run that wrote its candidate.    *)
OffersWinner(hs, res, c) ==
    LET origin == hs[c.candidate].origin IN
    /\ origin \in (DOMAIN res) \X Attempt
    /\ res[origin[1]].batch = c.batch
    /\ res[origin[1]].principal = hs[c.candidate].principal
    /\ res[origin[1]].winner \in Ancestry(origin[2])

LEMMA OffersWinners ==
    OnlyWinnersOffered <=> \A i \in DOMAIN cards :
        cards[i].birthplace = "symphony" => OffersWinner(heads, resolutions, cards[i])
BY DEF OnlyWinnersOffered, OffersWinner

LEMMA OffersWinnersNext ==
    ASSUME \A i \in DOMAIN cards' :
        cards'[i].birthplace = "symphony" => OffersWinner(heads', resolutions', cards'[i])
    PROVE  OnlyWinnersOffered'
BY DEF OnlyWinnersOffered, OffersWinner

LEMMA OfferStays ==
    ASSUME Base, Evolves, Progress, NEW i \in DOMAIN cards,
           OffersWinner(heads, resolutions, cards[i]),
           DOMAIN resolutions \subseteq DOMAIN resolutions',
           \A r \in DOMAIN resolutions : resolutions'[r] = resolutions[r]
    PROVE  OffersWinner(heads', resolutions', cards'[i])
<1> DEFINE m == cards[i].candidate
<1>1. m \in Units
  BY CandidateFacts
<1>2. heads'[m].origin = heads[m].origin /\ heads'[m].principal = heads[m].principal
  BY <1>1 DEF Evolves
<1>3. cards'[i].candidate = m /\ cards'[i].batch = cards[i].batch
  BY DEF Progress, SameCard
<1>4. heads[m].origin[1] \in DOMAIN resolutions
  BY DEF OffersWinner
<1>5. resolutions'[heads[m].origin[1]] = resolutions[heads[m].origin[1]]
  BY <1>4
<1>6. heads[m].origin \in (DOMAIN resolutions') \X Attempt
  BY DEF OffersWinner
<1>. QED  BY <1>2, <1>3, <1>5, <1>6 DEF OffersWinner

(* The steps of the queue offer nothing for a run.                         *)
LEMMA QueueOffersNothing ==
    ASSUME QueueInv, [QueueNext]_queueVars
    PROVE  /\ Evolves /\ Progress
           /\ \A i \in DOMAIN cards' \ DOMAIN cards : cards'[i].birthplace # "symphony"
<1>0. Base /\ DecisionsMatchCards
  BY DEF QueueInv
<1>1. CASE Quiet
  <2>1. \A i \in DOMAIN cards' \ DOMAIN cards : NewCard(cards'[i])
    BY <1>0, <1>1, CardsGrow DEF Base, Quiet
  <2>2. \A i \in DOMAIN cards' \ DOMAIN cards : cards'[i].birthplace # "symphony"
    BY <2>1 DEF NewCard
  <2>. QED  BY <1>0, <1>1, <2>2, QuietProgress DEF Quiet
<1>2. ASSUME NEW S \in SUBSET DOMAIN cards, NEW signal \in Signal, Decisive(S, signal)
      PROVE  /\ Evolves /\ Progress /\ DOMAIN cards' = DOMAIN cards
  BY <1>0, <1>2, DecisiveProgress, Recorded DEF Decisive, Settles
<1>. QED  BY <1>0, <1>1, <1>2, QueueStepKinds

LEMMA QueueOffers ==
    ASSUME QueueInv, OnlyWinnersOffered, [QueueNext]_queueVars, UNCHANGED resolutions
    PROVE  OnlyWinnersOffered'
<1>1. /\ Base /\ Evolves /\ Progress
      /\ \A i \in DOMAIN cards' \ DOMAIN cards : cards'[i].birthplace # "symphony"
  BY QueueOffersNothing DEF QueueInv
<1>2. ASSUME NEW i \in DOMAIN cards', cards'[i].birthplace = "symphony"
      PROVE  OffersWinner(heads', resolutions', cards'[i])
  <2>1. i \in DOMAIN cards
    BY <1>1, <1>2
  <2>2. cards[i].birthplace = "symphony"
    BY <1>1, <1>2, <2>1 DEF Progress, SameCard
  <2>3. OffersWinner(heads, resolutions, cards[i])
    BY <2>1, <2>2, OffersWinners
  <2>. QED  BY <1>1, <2>1, <2>3, OfferStays
<1>. QED  BY <1>2, OffersWinnersNext

(* What a prefix that ends in a dot says of the dotted path.               *)
LEMMA DottedPrefix ==
    ASSUME NEW S, NEW dot \in S, NEW s \in Seq(S), NEW t \in Seq(S)
    PROVE  /\ IsPrefix(Append(s, dot), t) =>
                 /\ Len(s) \in 0 .. Len(t) /\ SubSeq(t, 1, Len(s)) = s
                 /\ t[Len(s) + 1] = dot
           /\ \A k \in 0 .. Len(t) :
                 s = SubSeq(t, 1, k) /\ k # Len(t) /\ t[k + 1] = dot
                     => IsPrefix(Append(s, dot), t)
<1>1. PICK d, ls, lt : d = Append(s, dot) /\ ls = Len(s) /\ lt = Len(t)
  OBVIOUS
<1>2. /\ ls \in Nat /\ lt \in Nat /\ DOMAIN s = 1 .. ls /\ s \in [1 .. ls -> S]
      /\ d \in Seq(S) /\ Len(d) = ls + 1
      /\ d[ls + 1] = dot /\ \A k \in 1 .. ls : d[k] = s[k]
  <2>1. S \subseteq S
    OBVIOUS
  <2>2. /\ d \in Seq(S) /\ DOMAIN s = 1 .. ls /\ ls \in Nat /\ Len(d) = ls + 1
        /\ \A k \in DOMAIN s : d[k] = s[k]
        /\ d[ls + 1] = dot
    BY <1>1, <2>1, AppendFacts
  <2>3. lt \in Nat /\ s \in [1 .. ls -> S]
    BY <1>1
  <2>. QED  BY <2>2, <2>3
<1>3. ASSUME IsPrefix(d, t)
      PROVE  ls \in 0 .. lt /\ SubSeq(t, 1, ls) = s /\ t[ls + 1] = dot
  <2>1. ls + 1 <= lt /\ SubSeq(d, 1, ls + 1) = SubSeq(t, 1, ls + 1)
    BY <1>1, <1>2, <1>3 DEF IsPrefix
  <2>2. /\ ls + 1 \in 0 .. Len(t) /\ ls + 1 \in 0 .. Len(d) /\ ls \in 0 .. Len(t)
        /\ ls + 1 \in 1 .. ls + 1 /\ \A k \in 1 .. ls : k \in 1 .. ls + 1
    BY <1>1, <1>2, <2>1
  <2>3. \A k \in 1 .. ls + 1 : SubSeq(d, 1, ls + 1)[k] = d[k]
    BY <1>2, <2>2, FrontFacts
  <2>4. \A k \in 1 .. ls + 1 : SubSeq(t, 1, ls + 1)[k] = t[k]
    BY <2>2, FrontFacts
  <2>5. \A k \in 1 .. ls + 1 : d[k] = t[k]
    BY <2>1, <2>3, <2>4
  <2>6. SubSeq(t, 1, ls) \in [1 .. ls -> S] /\ \A k \in 1 .. ls : SubSeq(t, 1, ls)[k] = t[k]
    BY <2>2, FrontFacts
  <2>7. \A k \in 1 .. ls : SubSeq(t, 1, ls)[k] = s[k]
    BY <1>2, <2>2, <2>5, <2>6
  <2>8. SubSeq(t, 1, ls) = s
    BY <1>2, <2>6, <2>7
  <2>. QED  BY <1>1, <1>2, <2>2, <2>5, <2>8
<1>4. ASSUME NEW k \in 0 .. lt, s = SubSeq(t, 1, k), k # lt, t[k + 1] = dot
      PROVE  IsPrefix(d, t)
  <2>1. k \in 0 .. Len(t) /\ k \in Nat /\ k + 1 <= lt
    BY <1>1, <1>2, <1>4
  <2>2. ls = k /\ \A i \in 1 .. k : s[i] = t[i]
    BY <1>1, <1>4, <2>1, FrontFacts
  <2>3. k + 1 \in 0 .. Len(t) /\ k + 1 \in 0 .. Len(d)
    BY <1>1, <1>2, <2>1, <2>2
  <2>4. \A i \in 1 .. k + 1 : i = k + 1 \/ i \in 1 .. k
    BY <2>1
  <2>5. \A i \in 1 .. k + 1 : d[i] = t[i]
    BY <1>2, <1>4, <2>2, <2>4
  <2>6. /\ SubSeq(d, 1, k + 1) \in [1 .. k + 1 -> S]
        /\ \A i \in 1 .. k + 1 : SubSeq(d, 1, k + 1)[i] = d[i]
    BY <1>2, <2>3, FrontFacts
  <2>7. /\ SubSeq(t, 1, k + 1) \in [1 .. k + 1 -> S]
        /\ \A i \in 1 .. k + 1 : SubSeq(t, 1, k + 1)[i] = t[i]
    BY <2>3, FrontFacts
  <2>8. SubSeq(d, 1, k + 1) = SubSeq(t, 1, k + 1)
    BY <2>5, <2>6, <2>7
  <2>. QED  BY <1>1, <1>2, <2>1, <2>2, <2>8 DEF IsPrefix
<1>. QED  BY <1>1, <1>3, <1>4

(* _is_origin_prefix, which compares strings, finds the tree's ancestors.  *)
LEMMA AncestorPrefix ==
    ASSUME NEW s \in Seq(Mark), NEW t \in Seq(Mark)
    PROVE  IsOriginPrefix(s, t) <=> s \in Ancestry(t)
<1> DEFINE d == Append(s, ".")
<1>1. "." \in Mark
  BY DEF Mark
<1>2. /\ IsPrefix(d, t) =>
            /\ Len(s) \in 0 .. Len(t) /\ SubSeq(t, 1, Len(s)) = s /\ t[Len(s) + 1] = "."
      /\ \A k \in 0 .. Len(t) :
            s = SubSeq(t, 1, k) /\ k # Len(t) /\ t[k + 1] = "." => IsPrefix(d, t)
  BY <1>1, DottedPrefix
<1>3. SubSeq(t, 1, Len(t)) = t /\ Len(t) \in 0 .. Len(t)
  OBVIOUS
<1>. HIDE DEF d
<1>4. s \in Ancestry(t) <=>
         \E k \in 0 .. Len(t) : s = SubSeq(t, 1, k) /\ (k = Len(t) \/ t[k + 1] = ".")
  BY DEF Ancestry
<1>5. IsOriginPrefix(s, t) <=> t = s \/ IsPrefix(d, t)
  BY DEF IsOriginPrefix, d
<1>6. ASSUME t = s PROVE s \in Ancestry(t)
  BY <1>3, <1>4, <1>6
<1>7. ASSUME IsPrefix(d, t) PROVE s \in Ancestry(t)
  BY <1>2, <1>4, <1>7
<1>8. ASSUME s \in Ancestry(t) PROVE t = s \/ IsPrefix(d, t)
  <2>1. PICK k \in 0 .. Len(t) : s = SubSeq(t, 1, k) /\ (k = Len(t) \/ t[k + 1] = ".")
    BY <1>4, <1>8
  <2>. QED  BY <1>2, <1>3, <2>1
<1>. QED  BY <1>5, <1>6, <1>7, <1>8

LEMMA WonAncestry ==
    ASSUME NEW run \in RunId, NEW winner \in Attempt, NEW m \in OfRun(run)
    PROVE  Won(m, winner) <=> winner \in Ancestry(heads[m].origin[2])
<1>1. heads[m].origin[2] \in Seq(Mark) /\ winner \in Seq(Mark)
  BY RunsNotLocal, SymphonyAssumption
<1>. QED  BY <1>1, AncestorPrefix DEF Won

LEMMA ClosingOffers ==
    ASSUME Base, Bridging, OnlyWinnersOffered, NEW p \in Principal, NEW run \in RunId,
           NEW winner \in Attempt, NEW batch \in Batch, NEW rows,
           Closing(p, rows, run, winner, batch)
    PROVE  OnlyWinnersOffered'
<1>1. Evolves /\ Progress
  BY BridgingProgress DEF Bridging
<1>2. /\ DOMAIN resolutions' = DOMAIN resolutions \cup {run}
      /\ \A r \in DOMAIN resolutions : resolutions'[r] = resolutions[r]
      /\ resolutions'[run] = ResolutionRow(p, batch, winner)
  BY DEF Closing
<1>3. ASSUME NEW i \in DOMAIN cards', cards'[i].birthplace = "symphony"
      PROVE  OffersWinner(heads', resolutions', cards'[i])
  <2>1. CASE i \in DOMAIN cards
    <3>1. cards[i].birthplace = "symphony"
      BY <1>1, <1>3, <2>1 DEF Progress, SameCard
    <3>2. OffersWinner(heads, resolutions, cards[i])
      BY <2>1, <3>1, OffersWinners
    <3>. QED  BY <1>1, <1>2, <2>1, <3>2, OfferStays
  <2>2. CASE i \notin DOMAIN cards
    <3> DEFINE m == cards'[i].candidate
    <3>1. m \in rows /\ m \in StagedOf(run) /\ Won(m, winner) /\ cards'[i].batch = batch
      BY <2>2 DEF Closing
    <3>2. /\ m \in OfRun(run) /\ heads'[m].principal = p
      BY <3>1 DEF Closing, StagedOf
    <3>3. /\ m \in Units /\ heads[m].origin[1] = run /\ heads[m].origin[2] \in Attempt
          /\ heads[m].origin = <<run, heads[m].origin[2]>>
      BY <3>2, RunsNotLocal
    <3>4. heads'[m].origin = heads[m].origin
      BY <1>1, <3>3 DEF Evolves
    <3>5. winner \in Ancestry(heads[m].origin[2])
      BY <3>1, <3>2, WonAncestry
    <3>6. /\ resolutions'[run].batch = batch /\ resolutions'[run].principal = p
          /\ resolutions'[run].winner = winner
      BY <1>2 DEF ResolutionRow
    <3>. HIDE DEF m
    <3>7. heads'[m].origin \in (DOMAIN resolutions') \X Attempt
      <4>1. PICK path \in Attempt : heads[m].origin = <<run, path>>
        BY <3>3
      <4>2. run \in DOMAIN resolutions'
        BY <1>2
      <4>. QED  BY <3>4, <4>1, <4>2
    <3>. QED  BY <3>1, <3>2, <3>3, <3>4, <3>5, <3>6, <3>7 DEF OffersWinner, m
  <2>. QED  BY <2>1, <2>2
<1>. QED  BY <1>3, OffersWinnersNext

(* How a memory that an attempt wrote came to be where it is.              *)
Accounted(m, run) ==
    \/ EverPatched(m)
    \/ heads[m].status = "staged"
    \/ heads[m].status = "tombstoned" /\ run \in DOMAIN resolutions
    \/ \E i \in DOMAIN cards :
          /\ cards[i].candidate = m /\ cards[i].birthplace = "symphony"
          /\ heads[m].status = "active" => cards[i].state = "approved"

LEMMA LosersNext ==
    ASSUME \A run \in RunId : \A m \in OfRun(run)' : Accounted(m, run)'
    PROVE  LosersStayOut'
BY DEF LosersStayOut, Accounted

LEMMA PatchedStays ==
    ASSUME Evolves, NEW m \in Units, EverPatched(m)
    PROVE  EverPatched(m)'
BY RowsStay DEF EverPatched

(* A row that keeps its status stays accounted for.                        *)
LEMMA AccountStays ==
    ASSUME Evolves, Progress, NEW run, NEW m \in Units, Accounted(m, run),
           heads'[m].status = heads[m].status, DOMAIN resolutions \subseteq DOMAIN resolutions'
    PROVE  Accounted(m, run)'
<1>1. CASE EverPatched(m)
  BY <1>1, PatchedStays DEF Accounted
<1>2. ASSUME NEW i \in DOMAIN cards, cards[i].candidate = m, cards[i].birthplace = "symphony",
             heads[m].status = "active" => cards[i].state = "approved"
      PROVE  Accounted(m, run)'
  <2>1. /\ i \in DOMAIN cards' /\ cards'[i].candidate = m /\ cards'[i].birthplace = "symphony"
        /\ heads'[m].status = "active" => cards'[i].state = "approved"
    BY <1>2 DEF Progress, SameCard
  <2>. QED  BY <2>1 DEF Accounted
<1>3. CASE \/ heads[m].status = "staged"
           \/ heads[m].status = "tombstoned" /\ run \in DOMAIN resolutions
  BY <1>3 DEF Accounted
<1>. QED  BY <1>1, <1>2, <1>3 DEF Accounted

(* A row that had a card and did not turn active is accounted for by it.   *)
LEMMA CardAccounts ==
    ASSUME Progress, NEW run, NEW m, NEW i \in DOMAIN cards, cards[i].candidate = m,
           cards[i].birthplace = "symphony",
           heads'[m].status = "active" => cards'[i].state = "approved"
    PROVE  Accounted(m, run)'
<1>1. /\ i \in DOMAIN cards' /\ cards'[i].candidate = m /\ cards'[i].birthplace = "symphony"
  BY DEF Progress, SameCard
<1>. QED  BY <1>1 DEF Accounted

LEMMA QuietLosers ==
    ASSUME Base, LosersStayOut, Quiet, UNCHANGED resolutions
    PROVE  LosersStayOut'
<1>0. Evolves /\ Progress
  BY QuietProgress DEF Quiet
<1>1. ASSUME NEW run \in RunId, NEW m \in OfRun(run)' PROVE Accounted(m, run)'
  <2>1. m \in Units' /\ heads'[m].origin \in {run} \X Attempt
    BY <1>1 DEF OfRun
  <2>2. heads'[m].origin \notin Batch \cup {NoOrigin}
    BY <2>1, RunOrigins
  <2>3. m \in Units
    BY <2>1, <2>2 DEF Quiet, Gentle
  <2>4. m \in OfRun(run)
    BY <1>0, <2>1, <2>3 DEF OfRun, Evolves
  <2>5. Accounted(m, run) /\ ~Local(heads, m)
    BY <2>4, RunsNotLocal DEF LosersStayOut, Accounted
  <2>6. CASE heads'[m].revision = heads[m].revision
    <3>1. heads'[m].status = heads[m].status
      BY <1>0, <2>3, <2>6 DEF Evolves
    <3>. QED  BY <1>0, <2>3, <2>5, <3>1, AccountStays
  <2>7. CASE heads'[m].revision # heads[m].revision
    <3>1. heads'[m].revision > heads[m].revision
      <4>1. Base'
        BY QuietBase
      <4>2. heads'[m].revision \in Nat
        BY <2>1, <4>1 DEF Base, Inv, MemoryTypes, MemoryTypeOK, UnitRow
      <4>. QED  BY <1>0, <2>3, <2>7, <4>2, UnitFacts DEF Evolves
    <3>2. /\ heads'[m].revision \in DOMAIN history'[m]
          /\ \/ heads'[m].status = heads[m].status
             \/ history'[m][heads'[m].revision].reason = "patched"
      BY <2>3, <2>5, <3>1 DEF Quiet, Gentle
    <3>3. CASE heads'[m].status = heads[m].status
      BY <1>0, <2>3, <2>5, <3>3, AccountStays
    <3>4. CASE history'[m][heads'[m].revision].reason = "patched"
      BY <3>2, <3>4 DEF Accounted, EverPatched
    <3>. QED  BY <3>2, <3>3, <3>4
  <2>. QED  BY <2>6, <2>7
<1>. QED  BY <1>1, LosersNext

LEMMA DecisiveLosers ==
    ASSUME Base, DecisionsMatchCards, LosersStayOut, NEW S \in SUBSET DOMAIN cards,
           NEW signal \in Signal, Decisive(S, signal), UNCHANGED resolutions
    PROVE  LosersStayOut'
<1>0. Evolves /\ Progress
  BY DecisiveProgress DEF Decisive, Settles
<1>1. \A i \in S : signal # "deny" => cards'[i].state = "approved"
  BY Recorded DEF Decisive, StateAfter
<1>2. ASSUME NEW run \in RunId, NEW m \in OfRun(run)' PROVE Accounted(m, run)'
  <2>1. m \in Units' /\ heads'[m].origin \in {run} \X Attempt
    BY <1>2 DEF OfRun
  <2>2. heads'[m].origin \notin Batch \cup {NoOrigin}
    BY <2>1, RunOrigins
  <2>3. m \in Units
    BY <2>1, <2>2 DEF Decisive, Settles
  <2>4. m \in OfRun(run)
    BY <1>0, <2>1, <2>3 DEF OfRun, Evolves
  <2>5. Accounted(m, run) /\ ~Local(heads, m)
    BY <2>4, RunsNotLocal DEF LosersStayOut, Accounted
  <2>6. CASE heads'[m].status = heads[m].status
    BY <1>0, <2>3, <2>5, <2>6, AccountStays
  <2>7. CASE heads'[m].status # heads[m].status
    <3>1. heads'[m].revision > heads[m].revision
      <4>1. Base'
        BY DecisiveBase
      <4>2. heads'[m].revision \in Nat
        BY <2>1, <4>1 DEF Base, Inv, MemoryTypes, MemoryTypeOK, UnitRow
      <4>. QED  BY <1>0, <2>3, <2>7, <4>2, UnitFacts DEF Evolves
    <3>2. Outcome(m, heads'[m].status, history'[m][heads'[m].revision].reason, S, signal)
      BY <2>3, <3>1 DEF Decisive, Settles
    <3>3. CASE heads'[m].status = "tombstoned"
      <4>1. heads[m].status # "staged"
        <5>1. ASSUME NEW i \in S, cards[i].birthplace = "curator", cards[i].candidate = m
              PROVE  heads[m].status # "staged"
          BY <5>1 DEF Base, CardsRefer, CardRefers, Unstaged
        <5>. QED  BY <2>7, <3>2, <3>3, <5>1 DEF Outcome
      <4>2. CASE EverPatched(m)
        BY <1>0, <2>3, <4>2, PatchedStays DEF Accounted
      <4>3. CASE \E i \in DOMAIN cards : cards[i].candidate = m /\ cards[i].birthplace = "symphony"
        BY <1>0, <3>3, <4>3, CardAccounts
      <4>. QED  BY <2>5, <2>7, <3>3, <4>1, <4>2, <4>3 DEF Accounted
    <3>4. CASE heads'[m].status # "tombstoned"
      <4>1. /\ signal # "deny"
            /\ \E i \in S : /\ cards[i].candidate = m
                            /\ cards[i].birthplace = "curator" => cards[i].verdict \in Replacing
        BY <2>7, <3>2, <3>4 DEF Outcome
      <4>2. PICK i \in S : /\ cards[i].candidate = m
                           /\ cards[i].birthplace = "curator" => cards[i].verdict \in Replacing
        BY <4>1
      <4>3. cards[i].birthplace = "symphony"
        <5>1. cards[i].birthplace \in Birthplace
          BY CandidateFacts DEF Card
        <5>2. CardRefers(heads, cards[i])
          BY DEF Base, CardsRefer
        <5>. QED  BY <2>5, <4>2, <5>1, <5>2 DEF CardRefers, Birthplace
      <4>. QED  BY <1>0, <1>1, <4>1, <4>2, <4>3, CardAccounts
    <3>. QED  BY <3>3, <3>4
  <2>. QED  BY <2>6, <2>7
<1>. QED  BY <1>2, LosersNext

LEMMA StagingLosers ==
    ASSUME Base, Bridging, LosersStayOut, NEW m \in Mem,
           Units' = Units \cup {m}, heads'[m].status = "staged",
           \A n \in Units : heads'[n] = heads[n], UNCHANGED resolutions
    PROVE  LosersStayOut'
<1>0. Evolves /\ Progress
  BY BridgingProgress DEF Bridging
<1>1. ASSUME NEW run \in RunId, NEW n \in OfRun(run)' PROVE Accounted(n, run)'
  <2>1. n \in Units' /\ heads'[n].origin \in {run} \X Attempt
    BY <1>1 DEF OfRun
  <2>2. CASE n = m
    BY <2>2 DEF Accounted
  <2>3. CASE n \in Units
    <3>1. n \in OfRun(run) /\ heads'[n].status = heads[n].status
      BY <2>1, <2>3 DEF OfRun
    <3>2. Accounted(n, run)
      BY <3>1 DEF LosersStayOut, Accounted
    <3>. QED  BY <1>0, <2>3, <3>1, <3>2, AccountStays
  <2>. QED  BY <2>1, <2>2, <2>3
<1>. QED  BY <1>1, LosersNext

LEMMA ClosingLosers ==
    ASSUME Base, Bridging, LosersStayOut, NEW p \in Principal, NEW run \in RunId,
           NEW winner \in Attempt, NEW batch \in Batch, NEW rows,
           Closing(p, rows, run, winner, batch)
    PROVE  LosersStayOut'
<1>0. Evolves /\ Progress
  BY BridgingProgress DEF Bridging
<1>1. DOMAIN resolutions' = DOMAIN resolutions \cup {run} /\ Units' = Units
  BY DEF Closing
<1>2. ASSUME NEW r \in RunId, NEW m \in OfRun(r)' PROVE Accounted(m, r)'
  <2>1. m \in Units /\ heads'[m].origin \in {r} \X Attempt
    BY <1>1, <1>2 DEF OfRun
  <2>2. m \in OfRun(r)
    BY <1>0, <2>1 DEF OfRun, Evolves
  <2>3. Accounted(m, r)
    BY <2>2 DEF LosersStayOut, Accounted
  <2>4. CASE m \in rows
    <3>1. r = run
      BY <2>2, <2>4, RunsNotLocal DEF StagedOf, Closing
    <3>2. heads'[m].status = IF Won(m, winner) THEN "candidate" ELSE "tombstoned"
      BY <2>4 DEF Closing
    <3>3. CASE Won(m, winner)
      <4>1. PICK i \in DOMAIN cards' \ DOMAIN cards : cards'[i].candidate = m
        BY <2>4, <3>3 DEF Closing
      <4>2. cards'[i].birthplace = "symphony"
        BY <4>1 DEF Bridging
      <4>. QED  BY <3>2, <3>3, <4>1, <4>2 DEF Accounted
    <3>4. CASE ~Won(m, winner)
      BY <1>1, <3>1, <3>2, <3>4 DEF Accounted
    <3>. QED  BY <3>3, <3>4
  <2>5. CASE m \notin rows
    <3>1. heads'[m].status = heads[m].status
      BY <2>1, <2>5 DEF Closing
    <3>. QED  BY <1>0, <1>1, <2>1, <2>3, <3>1, AccountStays
  <2>. QED  BY <2>4, <2>5
<1>. QED  BY <1>2, LosersNext

(* A row still staged in an open run has no card.                          *)
LEMMA StagedHaveNoCard ==
    ASSUME Base, OnlyWinnersOffered, NEW run \in RunId, run \notin DOMAIN resolutions,
           NEW m \in StagedOf(run), NEW i \in DOMAIN cards
    PROVE  cards[i].candidate # m
<1>. SUFFICES ASSUME cards[i].candidate = m PROVE FALSE
  OBVIOUS
<1>1. m \in OfRun(run) /\ heads[m].status = "staged"
  BY DEF StagedOf
<1>2. ~Local(heads, m) /\ heads[m].origin[1] = run
  BY <1>1, RunsNotLocal
<1>3. cards[i].birthplace \in Birthplace
  BY CandidateFacts DEF Card
<1>4. CardRefers(heads, cards[i])
  BY DEF Base, CardsRefer
<1>5. cards[i].birthplace = "symphony"
  BY <1>1, <1>2, <1>3, <1>4 DEF CardRefers, Unstaged, Birthplace
<1>6. heads[m].origin \in (DOMAIN resolutions) \X Attempt
  BY <1>5, OffersWinners DEF OffersWinner
<1>. QED  BY <1>2, <1>6

LEMMA ClosingSettles ==
    ASSUME Base, Bridging, OnlyWinnersOffered, NEW p \in DOMAIN resolving, p \in Principal,
           DOMAIN resolving' = DOMAIN resolving \ {p},
           resolving[p].run \in RunId, resolving[p].winner \in Attempt,
           resolving[p].batch \in Batch,
           \A m \in DOMAIN resolving[p].read : resolving[p].read[m] = heads[m].revision,
           Closing(p, DOMAIN resolving[p].read, resolving[p].run, resolving[p].winner,
                   resolving[p].batch)
    PROVE  SettledAsRead
<1> DEFINE r == resolving[p]
           rows == DOMAIN r.read
<1>0. /\ r.run \in RunId /\ r.winner \in Attempt /\ r.batch \in Batch
      /\ \A m \in rows : r.read[m] = heads[m].revision
      /\ Closing(p, rows, r.run, r.winner, r.batch)
  OBVIOUS
<1>. HIDE DEF r, rows
<1>1. /\ rows \subseteq StagedOf(r.run) /\ r.run \notin DOMAIN resolutions
      /\ \A m \in Units \ rows : heads'[m] = heads[m]
  BY <1>0 DEF Closing
<1>2. ASSUME NEW m \in rows
      PROVE  /\ heads'[m].body = history[m][r.read[m]].body
             /\ heads'[m].label = history[m][r.read[m]].label
             /\ heads'[m].principal = p
             /\ Won(m, r.winner) <=> r.winner \in Ancestry(heads[m].origin[2])
             /\ heads'[m].status = IF Won(m, r.winner) THEN "candidate" ELSE "tombstoned"
  <2>1. m \in OfRun(r.run) /\ m \in Units
    BY <1>1 DEF StagedOf, OfRun
  <2>2. /\ history[m][r.read[m]].body = heads[m].body
        /\ history[m][r.read[m]].label = heads[m].label
    BY <1>0, <2>1, BaseFacts DEF LineageComplete
  <2>. QED  BY <1>0, <2>1, <2>2, WonAncestry DEF Closing
<1>3. ASSUME NEW m \in rows, NEW i \in DOMAIN cards', OfferedBy(i, m)
      PROVE  i \in DOMAIN cards' \ DOMAIN cards /\ Won(m, r.winner)
  <2>1. cards'[i].candidate = m /\ m \in StagedOf(r.run)
    BY <1>1, <1>3 DEF OfferedBy
  <2>2. i \notin DOMAIN cards
    BY <1>0, <1>1, <2>1, StagedHaveNoCard DEF Bridging
  <2>. QED  BY <1>0, <2>1, <2>2 DEF Closing
<1>4. ASSUME NEW m \in rows, Won(m, r.winner)
      PROVE  \E i \in DOMAIN cards' : OfferedBy(i, m)
  <2>1. PICK i \in DOMAIN cards' \ DOMAIN cards : cards'[i].candidate = m
    BY <1>0, <1>4 DEF Closing
  <2>2. cards'[i].state = "pending"
    BY <2>1 DEF Bridging
  <2>. QED  BY <2>1, <2>2 DEF OfferedBy
<1>5. ASSUME NEW m \in rows, NEW i \in DOMAIN cards', NEW j \in DOMAIN cards',
             OfferedBy(i, m), OfferedBy(j, m)
      PROVE  i = j
  <2>1. i \in DOMAIN cards' \ DOMAIN cards /\ j \in DOMAIN cards' \ DOMAIN cards
    BY <1>3, <1>5
  <2>. QED  BY <1>0, <1>5, <2>1 DEF Closing, OfferedBy
<1>6. \A m \in StagedOf(r.run) \ rows : heads'[m] = heads[m]
  BY <1>1 DEF StagedOf, OfRun
<1>7. ASSUME NEW m \in rows
      PROVE  LET row == history[m][r.read[m]]
                 won == r.winner \in Ancestry(heads[m].origin[2]) IN
             /\ heads'[m].body = row.body /\ heads'[m].label = row.label
             /\ heads'[m].principal = p
             /\ heads'[m].status = IF won THEN "candidate" ELSE "tombstoned"
             /\ won <=> \E i \in DOMAIN cards' : OfferedBy(i, m)
             /\ \A i, j \in DOMAIN cards' : OfferedBy(i, m) /\ OfferedBy(j, m) => i = j
  <2>1. Won(m, r.winner) <=> \E i \in DOMAIN cards' : OfferedBy(i, m)
    BY <1>3, <1>4
  <2>2. \A i, j \in DOMAIN cards' : OfferedBy(i, m) /\ OfferedBy(j, m) => i = j
    BY <1>5
  <2>. QED  BY <1>2, <2>1, <2>2
<1>8. DOMAIN resolving \ DOMAIN resolving' = {p}
  OBVIOUS
<1>. QED  BY <1>6, <1>7, <1>8, Zenon DEF SettledAsRead, r, rows

-----------------------------------------------------------------------------
SymphonyInv == QueueInv /\ OnlyWinnersOffered /\ LosersStayOut /\ ResolversFit

LEMMA SymphonyInvInit ==
    ASSUME SymphonyInit PROVE SymphonyInv
<1>1. QueueInv
  BY QueueInvInit DEF SymphonyInit
<1>2. cards = <<>> /\ Units = {}
  BY DEF SymphonyInit, QueueInit, Init, EmptyTables, None, Units
<1>3. DOMAIN cards = {}
  BY <1>2
<1>4. \A run \in RunId : OfRun(run) = {}
  BY <1>2 DEF OfRun
<1>5. ResolversFit
  BY DEF SymphonyInit, None, ResolversFit
<1>. QED  BY <1>1, <1>3, <1>4, <1>5 DEF SymphonyInv, OnlyWinnersOffered, LosersStayOut

LEMMA QueueSymphonyStep ==
    ASSUME SymphonyInv, [QueueNext]_queueVars, UNCHANGED <<resolutions, resolving>>
    PROVE  SymphonyInv' /\ SettledAsRead
<1>1. /\ QueueInv /\ OnlyWinnersOffered /\ LosersStayOut /\ Base /\ DecisionsMatchCards
      /\ ResolversFit
  BY DEF SymphonyInv, QueueInv
<1>2. QueueInv' /\ OnlyWinnersOffered'
  BY <1>1, QueueInvStep, QueueOffers
<1>3. LosersStayOut'
  <2>1. CASE Quiet
    BY <1>1, <2>1, QuietLosers
  <2>2. CASE \E S \in SUBSET DOMAIN cards, signal \in Signal : Decisive(S, signal)
    BY <1>1, <2>2, DecisiveLosers
  <2>. QED  BY <1>1, <2>1, <2>2, QueueStepKinds
<1>4. ResolversFit'
  BY <1>1, <1>2, QueueOffersNothing, ResolversStay DEF QueueInv, Base
<1>5. SettledAsRead
  BY DEF SettledAsRead
<1>. QED  BY <1>2, <1>3, <1>4, <1>5 DEF SymphonyInv

LEMMA IdleOffers ==
    ASSUME Base, Bridging, OnlyWinnersOffered, UNCHANGED <<cards, resolutions>>
    PROVE  OnlyWinnersOffered'
<1>1. Evolves /\ Progress
  BY BridgingProgress DEF Bridging
<1>2. ASSUME NEW i \in DOMAIN cards', cards'[i].birthplace = "symphony"
      PROVE  OffersWinner(heads', resolutions', cards'[i])
  <2>1. i \in DOMAIN cards /\ OffersWinner(heads, resolutions, cards[i])
    BY <1>2, OffersWinners
  <2>. QED  BY <1>1, <2>1, OfferStays
<1>. QED  BY <1>2, OffersWinnersNext

LEMMA StageSymphonyStep ==
    ASSUME SymphonyInv, NEW m \in Mem, NEW p \in Principal, NEW run \in RunId,
           NEW path \in Attempt, NEW d \in Drafts, Stage(m, p, run, path, d)
    PROVE  SymphonyInv' /\ SettledAsRead
<1>1. QueueInv /\ OnlyWinnersOffered /\ LosersStayOut /\ Base /\ ResolversFit
  BY DEF SymphonyInv, QueueInv
<1>2. /\ Bridging /\ cards' = cards /\ resolutions' = resolutions
      /\ Units' = Units \cup {m} /\ heads'[m].status = "staged"
      /\ \A n \in Units : heads'[n] = heads[n]
  BY <1>1, StageBridges
<1>3. QueueInv'
  BY <1>1, <1>2, BridgingQueueInv
<1>4. LosersStayOut'
  BY <1>1, <1>2, StagingLosers
<1>5. OnlyWinnersOffered'
  BY <1>1, <1>2, IdleOffers
<1>6. ResolversFit'
  BY <1>1, <1>2, ResolversStay DEF Bridging, Stage
<1>7. SettledAsRead
  BY <1>2 DEF SettledAsRead
<1>. QED  BY <1>3, <1>4, <1>5, <1>6, <1>7 DEF SymphonyInv

LEMMA PauseSymphonyStep ==
    ASSUME SymphonyInv, Bridging, UNCHANGED <<tables, resolutions>>, ResolversFit'
    PROVE  SymphonyInv' /\ SettledAsRead
<1>1. QueueInv /\ OnlyWinnersOffered /\ LosersStayOut /\ Base
  BY DEF SymphonyInv, QueueInv
<1>2. QueueInv'
  BY <1>1, BridgingQueueInv
<1>3. UNCHANGED <<heads, history, cards>>
  BY DEF tables
<1>4. OnlyWinnersOffered'
  BY <1>1, <1>3, IdleOffers
<1>5. LosersStayOut'
  <2>1. UNCHANGED <<heads, history, cards, resolutions>>
    BY <1>3
  <2>. QED  BY <1>1, <2>1 DEF LosersStayOut, OfRun, Units, EverPatched
<1>6. SettledAsRead
  BY DEF SettledAsRead
<1>. QED  BY <1>2, <1>4, <1>5, <1>6 DEF SymphonyInv

LEMMA ReadSymphonyStep ==
    ASSUME SymphonyInv, NEW p \in Principal, NEW run \in RunId, NEW winner \in Attempt,
           NEW batch \in Batch, ResolveRead(p, run, winner, batch)
    PROVE  SymphonyInv' /\ SettledAsRead
<1>1. Base /\ ResolversFit
  BY DEF SymphonyInv, QueueInv
<1>. QED  BY <1>1, ReadBridges, PauseSymphonyStep DEF ResolveRead

LEMMA AbortSymphonyStep ==
    ASSUME SymphonyInv, NEW p, ResolveAbort(p)
    PROVE  SymphonyInv' /\ SettledAsRead
<1>1. Base /\ ResolversFit
  BY DEF SymphonyInv, QueueInv
<1>. QED  BY <1>1, AbortBridges, PauseSymphonyStep DEF ResolveAbort

LEMMA CommitSymphonyStep ==
    ASSUME SymphonyInv, NEW p \in DOMAIN resolving, ResolveCommit(p)
    PROVE  SymphonyInv' /\ SettledAsRead
<1>1. QueueInv /\ OnlyWinnersOffered /\ LosersStayOut /\ Base /\ ResolversFit
  BY DEF SymphonyInv, QueueInv
<1> DEFINE r == resolving[p]
           rows == DOMAIN r.read
<1>2. /\ p \in Principal /\ r.run \in RunId /\ r.winner \in Attempt /\ r.batch \in Batch
      /\ Bridging /\ Closing(p, rows, r.run, r.winner, r.batch)
      /\ \A m \in rows : r.read[m] = heads[m].revision
      /\ ResolversFit' /\ DOMAIN resolving' = DOMAIN resolving \ {p}
  BY <1>1, CommitBridges
<1>3. SettledAsRead
  BY <1>1, <1>2, ClosingSettles
<1>. HIDE DEF r, rows
<1>4. QueueInv' /\ OnlyWinnersOffered' /\ LosersStayOut'
  BY <1>1, <1>2, BridgingQueueInv, ClosingOffers, ClosingLosers
<1>. QED  BY <1>2, <1>3, <1>4 DEF SymphonyInv

LEMMA SymphonyStep ==
    ASSUME SymphonyInv, [SymphonyNext]_symphonyVars
    PROVE  SymphonyInv' /\ SettledAsRead
<1>1. CASE QueueNext /\ UNCHANGED <<resolutions, resolving>>
  BY <1>1, QueueSymphonyStep
<1>2. CASE UNCHANGED symphonyVars
  BY <1>2, QueueSymphonyStep DEF symphonyVars
<1>. QED  BY <1>1, <1>2, StageSymphonyStep, ReadSymphonyStep, CommitSymphonyStep,
             AbortSymphonyStep DEF SymphonyNext

LEMMA SymphonyInvHolds ==
    SymphonySpec => []SymphonyInv
<1>1. SymphonyInit => SymphonyInv
  BY SymphonyInvInit
<1>2. SymphonyInv /\ [SymphonyNext]_symphonyVars => SymphonyInv'
  BY SymphonyStep
<1>. QED  BY <1>1, <1>2, PTL DEF SymphonySpec

(* resolve: every symphony card offers a memory from inside the winning    *)
(* subtree of a resolved run, in that run's batch and for its owner,       *)
(* whatever extractions, curators, patches and decisions run beside it.    *)
THEOREM OnlyWinnersOfferedHolds == SymphonySpec => []OnlyWinnersOffered
<1>1. SymphonyInv => OnlyWinnersOffered
  BY DEF SymphonyInv
<1>. QED  BY <1>1, SymphonyInvHolds, PTL

(* stage_symphony and resolve: what an attempt wrote and no PATCH touched  *)
(* is active only by an approved card of its run's batch, and a losing     *)
(* row is tombstoned for good.                                             *)
THEOREM LosersStayOutHolds == SymphonySpec => []LosersStayOut
<1>1. SymphonyInv => LosersStayOut
  BY DEF SymphonyInv
<1>. QED  BY <1>1, SymphonyInvHolds, PTL

(* resolve, whose read and commit lie apart: the step that closes a run    *)
(* settles just the memories the resolution read, as it read them, with one*)
(* pending card for each winner, and leaves alone what was staged since.   *)
THEOREM RunsSettleWhatTheyReadHolds == SymphonySpec => RunsSettleWhatTheyRead
<1>1. SymphonyInv /\ [SymphonyNext]_symphonyVars => [SettledAsRead]_symphonyVars
  BY SymphonyStep
<1>. QED  BY <1>1, SymphonyInvHolds, PTL DEF SymphonySpec, RunsSettleWhatTheyRead

(* The bridge writes to the tables of the queue; it breaks none of the     *)
(* queue's promises about cards, consent, verdicts, curators and archives. *)
THEOREM BridgeKeepsQueue ==
    SymphonySpec => [](/\ QueueTypes /\ DecisionsMatchCards /\ ConsentPrecedesActivation
                       /\ VerdictsEnacted /\ CuratorActsOnJudged /\ EveryArchiveImports)
<1>1. SymphonyInv => /\ QueueTypes /\ DecisionsMatchCards /\ ConsentPrecedesActivation
                     /\ VerdictsEnacted /\ CuratorActsOnJudged
  BY DEF SymphonyInv, QueueInv, Base, Inv, QueueTypes
<1>2. SymphonyInv => EveryArchiveImports
  BY ArchiveImports DEF SymphonyInv, QueueInv, EveryArchiveImports, DecisionsMatchCards
<1>. QED  BY <1>1, <1>2, SymphonyInvHolds, PTL

-----------------------------------------------------------------------------
(* One owner, one lock.  Between its two reads an extraction or a seed     *)
(* holds its owner's lock as a create or a split does, and so does a       *)
(* resolution between its read and its commit; no two of them hold the     *)
(* same one.                                                               *)
Embedding(w) == flow[w].at = "embed"

WorkersHold == \A w \in Worker : Embedding(w) => flow[w].principal \in lock

WorkersApart ==
    \A v, w \in Worker :
        v # w /\ Embedding(v) /\ Embedding(w) => flow[v].principal # flow[w].principal

WorkersAside ==
    \A w \in Worker, c \in Client :
        Embedding(w) /\ Holding(c) => flow[w].principal # req[c].principal

Keepers == LockHeld /\ LockAlone /\ WorkersHold /\ WorkersApart /\ WorkersAside

(* Each open resolution holds its owner's lock, and no one else does.      *)
ResolversApart ==
    \A p \in DOMAIN resolving :
        /\ p \in lock
        /\ \A c \in Client : Holding(c) => req[c].principal # p
        /\ \A w \in Worker : Embedding(w) => flow[w].principal # p

LocksApart == Keepers /\ ResolversApart

TwinlessInv == Base /\ TwinInv /\ LocksApart

(* What a handler does with the lock.                                      *)
LEMMA HandlerLocks ==
    ASSUME Inv, NEW c \in Client, HandlerNext(c)
    PROVE  /\ \A d \in Client \ {c} : req'[d] = req[d]
           /\ \/ Holding(c)' /\ req'[c].principal \notin lock /\ lock' = lock \cup {req'[c].principal}
              \/ Holding(c) /\ ~Holding(c)' /\ lock' = lock \ {req[c].principal}
              \/ ~Holding(c)' /\ lock' = lock
<1>0. req \in [Client -> Request]
  BY Before
<1>1. CASE \E p \in Principal, d \in Drafts, force \in BOOLEAN : CreateDedup(c, p, d, force)
  BY <1>0, <1>1 DEF CreateDedup, Start, LockFree, Holding
<1>2. CASE CreateInsert(c)
  BY <1>0, <1>2 DEF CreateInsert, Finish, Holding, Idle
<1>3. CASE \E p \in Principal, s, d, e \in Drafts : SplitCheck(c, p, s.body, d, e)
  BY <1>0, <1>3 DEF SplitCheck, Start, LockFree, Holding
<1>4. CASE SplitInsert(c)
  BY <1>0, <1>4 DEF SplitInsert, Finish, Holding, Idle
<1>5. CASE \E m \in Units, patch \in Patches : \E n \in 1 .. heads[m].revision :
              PatchRead(c, m, n, patch)
  BY <1>0, <1>5 DEF PatchRead, Start, Holding
<1>6. CASE PatchCas(c)
  BY <1>0, <1>6 DEF PatchCas, Finish, Holding, Idle
<1>7. CASE \E m \in Units : \E n \in 1 .. heads[m].revision : ReinforceRead(c, m, n)
  BY <1>0, <1>7 DEF ReinforceRead, Start, Holding
<1>8. CASE ReinforceCas(c)
  BY <1>0, <1>8 DEF ReinforceCas, Finish, Holding, Idle
<1>9. CASE Crash(c)
  BY <1>0, <1>9 DEF Crash, Finish, Holding, Idle
<1>. QED
  BY <1>1, <1>2, <1>3, <1>4, <1>5, <1>6, <1>7, <1>8, <1>9 DEF HandlerNext

LEMMA HandlerLocksApart ==
    ASSUME Inv, LocksApart, LockHeld', LockAlone', NEW c \in Client, HandlerNext(c),
           UNCHANGED <<flow, resolving>>
    PROVE  LocksApart'
<1>1. /\ \A d \in Client \ {c} : req'[d] = req[d]
      /\ \/ Holding(c)' /\ req'[c].principal \notin lock /\ lock' = lock \cup {req'[c].principal}
         \/ Holding(c) /\ ~Holding(c)' /\ lock' = lock \ {req[c].principal}
         \/ ~Holding(c)' /\ lock' = lock
  BY HandlerLocks
<1>2. \A w \in Worker : Embedding(w)' = Embedding(w) /\ flow'[w] = flow[w]
  BY DEF Embedding
<1>3. \A d \in Client \ {c} : Holding(d)' = Holding(d)
  BY <1>1 DEF Holding
<1>4. WorkersHold'
  BY <1>1, <1>2 DEF LocksApart, Keepers, WorkersHold, WorkersAside
<1>5. WorkersApart'
  BY <1>2 DEF LocksApart, Keepers, WorkersApart
<1>6. WorkersAside'
  <2>. SUFFICES ASSUME NEW w \in Worker, NEW d \in Client, Embedding(w), Holding(d)'
                PROVE  flow[w].principal # req'[d].principal
    BY <1>2 DEF WorkersAside
  <2>1. CASE d # c
    BY <1>1, <1>3, <2>1 DEF LocksApart, Keepers, WorkersAside
  <2>2. CASE d = c
    BY <1>1, <2>2 DEF LocksApart, Keepers, WorkersHold
  <2>. QED  BY <2>1, <2>2
<1>7. ResolversApart'
  <2>. SUFFICES ASSUME NEW p \in DOMAIN resolving
                PROVE  /\ p \in lock'
                       /\ \A d \in Client : Holding(d)' => req'[d].principal # p
                       /\ \A w \in Worker : Embedding(w)' => flow'[w].principal # p
    BY DEF ResolversApart
  <2>1. /\ p \in lock /\ \A d \in Client : Holding(d) => req[d].principal # p
        /\ \A w \in Worker : Embedding(w) => flow[w].principal # p
    BY DEF LocksApart, ResolversApart
  <2>2. p \in lock'
    BY <1>1, <2>1
  <2>3. ASSUME NEW d \in Client, Holding(d)' PROVE req'[d].principal # p
    <3>1. CASE d # c
      BY <1>1, <1>3, <2>1, <2>3, <3>1
    <3>2. CASE d = c
      BY <1>1, <2>1, <2>3, <3>2
    <3>. QED  BY <3>1, <3>2
  <2>. QED  BY <1>2, <2>1, <2>2, <2>3
<1>. QED  BY <1>4, <1>5, <1>6, <1>7 DEF LocksApart, Keepers

(* What a worker does with the lock.                                       *)
Taking(w) ==
    /\ flow[w].principal \notin lock /\ lock' = lock \cup {flow[w].principal}
    /\ Embedding(w)' /\ flow'[w].principal = flow[w].principal
Giving(w) == Embedding(w) /\ ~Embedding(w)' /\ lock' = lock \ {flow[w].principal}
Leaving(w) == ~Embedding(w)' /\ lock' = lock

LEMMA WorkerLocksApart ==
    ASSUME LocksApart, UNCHANGED <<req, resolving>>, NEW w \in Worker,
           \A v \in Worker \ {w} : flow'[v] = flow[v],
           Taking(w) \/ Giving(w) \/ Leaving(w)
    PROVE  LocksApart'
<1>0. /\ \A v \in Worker \ {w} : Embedding(v)' = Embedding(v) /\ flow'[v] = flow[v]
      /\ \A d \in Client : Holding(d)' = Holding(d) /\ req'[d] = req[d]
  BY DEF Embedding, Holding
<1>1. LockHeld'
  BY <1>0 DEF LocksApart, Keepers, LockHeld, WorkersAside, Taking, Giving, Leaving
<1>2. LockAlone'
  BY <1>0 DEF LocksApart, Keepers, LockAlone
<1>3. WorkersHold'
  BY <1>0 DEF LocksApart, Keepers, WorkersHold, WorkersApart, Taking, Giving, Leaving
<1>4. WorkersApart'
  BY <1>0 DEF LocksApart, Keepers, WorkersHold, WorkersApart, Taking, Giving, Leaving
<1>5. WorkersAside'
  BY <1>0 DEF LocksApart, Keepers, LockHeld, WorkersAside, Taking, Giving, Leaving
<1>6. ResolversApart'
  BY <1>0 DEF LocksApart, ResolversApart, Taking, Giving, Leaving
<1>. QED  BY <1>1, <1>2, <1>3, <1>4, <1>5, <1>6 DEF LocksApart, Keepers

LEMMA StillLocksApart ==
    ASSUME LocksApart, UNCHANGED <<req, flow, lock, resolving>>
    PROVE  LocksApart'
BY DEF LocksApart, Keepers, LockHeld, LockAlone, WorkersHold, WorkersApart, WorkersAside,
       ResolversApart, Embedding, Holding

(* What a resolution does with the lock.                                   *)
LEMMA ResolverTakes ==
    ASSUME LocksApart, UNCHANGED <<req, flow>>, NEW p, p \notin lock, lock' = lock \cup {p},
           DOMAIN resolving' = DOMAIN resolving \cup {p}
    PROVE  LocksApart'
<1>0. /\ \A w \in Worker : Embedding(w)' = Embedding(w) /\ flow'[w] = flow[w]
      /\ \A d \in Client : Holding(d)' = Holding(d) /\ req'[d] = req[d]
  BY DEF Embedding, Holding
<1>1. Keepers'
  BY <1>0 DEF LocksApart, Keepers, LockHeld, LockAlone, WorkersHold, WorkersApart, WorkersAside
<1>2. ResolversApart'
  BY <1>0 DEF LocksApart, Keepers, LockHeld, WorkersHold, ResolversApart
<1>. QED  BY <1>1, <1>2 DEF LocksApart

LEMMA ResolverGives ==
    ASSUME LocksApart, UNCHANGED <<req, flow>>, NEW p \in DOMAIN resolving, lock' = lock \ {p},
           DOMAIN resolving' = DOMAIN resolving \ {p}
    PROVE  LocksApart'
<1>0. /\ \A w \in Worker : Embedding(w)' = Embedding(w) /\ flow'[w] = flow[w]
      /\ \A d \in Client : Holding(d)' = Holding(d) /\ req'[d] = req[d]
  BY DEF Embedding, Holding
<1>1. Keepers'
  BY <1>0 DEF LocksApart, Keepers, LockHeld, LockAlone, WorkersHold, WorkersApart, WorkersAside,
              ResolversApart
<1>2. ResolversApart'
  BY <1>0 DEF LocksApart, ResolversApart
<1>. QED  BY <1>1, <1>2 DEF LocksApart

LEMMA Relabelled ==
    ASSUME NEW f \in Loop, NEW x, NEW y
    PROVE  /\ [f EXCEPT !.at = "drafts", !.parent = x].at = "drafts"
           /\ [f EXCEPT !.left = x].at = f.at
           /\ [f EXCEPT !.at = x].at = x /\ [f EXCEPT !.at = x].principal = f.principal
           /\ [f EXCEPT !.at = "drafts", !.left = x].at = "drafts"
           /\ [f EXCEPT !.at = "enqueue", !.candidate = x, !.near = y].at = "enqueue"
           /\ [f EXCEPT !.at = "drafts", !.left = x, !.made = y].at = "drafts"
BY DEF Loop

LEMMA RelabelledCuration ==
    ASSUME NEW f \in Curation, NEW x, NEW y
    PROVE  /\ [f EXCEPT !.at = "proposed", !.candidate = x].at = "proposed"
           /\ [f EXCEPT !.at = "judged", !.candidate = x, !.judged = y].at = "judged"
BY DEF Curation

LEMMA WorkerLocks ==
    ASSUME Base, NEW w \in Worker, WorkerNext(w)
    PROVE  /\ UNCHANGED req /\ \A v \in Worker \ {w} : flow'[v] = flow[v]
           /\ Taking(w) \/ Giving(w) \/ Leaving(w)
<1>0. flow \in [Worker -> Flow] /\ flow[w] \in Flow
  BY DEF Base
<1> DEFINE f == flow[w]
<1>m. ASSUME NEW g, flow' = [flow EXCEPT ![w] = g]
      PROVE  flow'[w] = g /\ \A v \in Worker \ {w} : flow'[v] = flow[v]
  BY <1>0, <1>m
<1>d. flow[w].at \in Drafting => flow[w] \in Loop
  BY <1>0, FlowKinds
<1>c. flow[w].at \in Curating => flow[w] \in Curation
  BY <1>0, FlowKinds
<1>1. CASE \E p \in Principal, d \in Proposals : \E T \in Implicable(p, d.verdict) :
              Extract(w, p, d, T)
  <2>1. PICK p \in Principal, d \in Proposals : \E T \in Implicable(p, d.verdict) :
              Extract(w, p, d, T)
    BY <1>1
  <2>2. PICK T \in Implicable(p, d.verdict) : Extract(w, p, d, T)
    BY <2>1
  <2> DEFINE g == LoopStart("drafts", p, "thread", Keep, Keep, <<Implicate(d, T)>>)
  <2>3. flow' = [flow EXCEPT ![w] = g] /\ UNCHANGED memoryVars /\ g.at = "drafts"
    BY <2>2 DEF Extract, Begin, LoopStart
  <2>. HIDE DEF g
  <2>. QED  BY <2>3, <1>m DEF memoryVars, Leaving, Embedding
<1>2. CASE \E p \in Principal, doc \in Documents :
          \E implicated \in [DOMAIN doc.children -> {T \in SUBSET Owned(p) : Cardinality(T) <= MaxTargets}] :
              Seed(w, p, doc, implicated)
  <2>1. PICK p \in Principal, doc \in Documents :
          \E implicated \in [DOMAIN doc.children -> {T \in SUBSET Owned(p) : Cardinality(T) <= MaxTargets}] :
              Seed(w, p, doc, implicated)
    BY <1>2
  <2>2. PICK implicated : Seed(w, p, doc, implicated)
    BY <2>1
  <2> DEFINE left == [k \in DOMAIN doc.children |-> Implicate(doc.children[k], implicated[k])]
             g == LoopStart("source", p, "seed", doc.batch, doc.source, left)
  <2>3. flow' = [flow EXCEPT ![w] = g] /\ UNCHANGED memoryVars
    BY <2>2 DEF Seed, Begin
  <2>. HIDE DEF left
  <2>4. g.at = "source"
    BY DEF LoopStart
  <2>. HIDE DEF g
  <2>. QED  BY <2>3, <2>4, <1>m DEF memoryVars, Leaving, Embedding
<1>3. CASE SeedSource(w)
  <2>1. f \in Loop
    BY <1>3, <1>d DEF SeedSource, Drafting
  <2>a. PICK m : flow' = [flow EXCEPT ![w] = [f EXCEPT !.at = "drafts", !.parent = SourceRow(m)]]
    BY <1>3 DEF SeedSource, Continue
  <2> DEFINE g == [f EXCEPT !.at = "drafts", !.parent = SourceRow(m)]
  <2>2. flow' = [flow EXCEPT ![w] = g] /\ g.at = "drafts"
    <3>. HIDE DEF f
    <3>. QED  BY <2>1, <2>a, Relabelled
  <2>. HIDE DEF g
  <2>3. flow'[w].at = "drafts"
    BY <2>2, <1>m
  <2>. QED  BY <1>3, <2>2, <2>3, <1>m DEF SeedSource, Leaving, Embedding
<1>4. CASE DraftCheck(w)
  <2>1. f \in Loop /\ ~Embedding(w)
    BY <1>4, <1>d DEF DraftCheck, Drafting, Embedding
  <2>2. CASE RejectedBody(flow[w].principal, Head(flow[w].left).body)
    <3> DEFINE g == [f EXCEPT !.left = Tail(@)]
    <3>a. flow' = [flow EXCEPT ![w] = g] /\ lock' = lock
      BY <1>4, <2>2 DEF DraftCheck, Continue
    <3>b. g.at = f.at
      <4>. HIDE DEF f
      <4>. QED  BY <2>1, Relabelled
    <3>1. flow' = [flow EXCEPT ![w] = g] /\ g.at = flow[w].at /\ lock' = lock
      BY <3>a, <3>b
    <3>. HIDE DEF g
    <3>2. flow'[w].at = flow[w].at
      BY <3>1, <1>m
    <3>. QED  BY <1>4, <2>1, <3>1, <3>2, <1>m DEF DraftCheck, Leaving, Embedding
  <2>3. CASE ~RejectedBody(flow[w].principal, Head(flow[w].left).body)
    <3> DEFINE g == [f EXCEPT !.at = "embed"]
    <3>1. /\ flow' = [flow EXCEPT ![w] = g]
          /\ lock' = lock \cup {flow[w].principal} /\ flow[w].principal \notin lock
      BY <1>4, <2>3 DEF DraftCheck, Continue, LockFree
    <3>b. g.at = "embed" /\ g.principal = f.principal
      <4>. HIDE DEF f
      <4>. QED  BY <2>1, Relabelled
    <3>. HIDE DEF g
    <3>2. flow'[w].at = "embed" /\ flow'[w].principal = flow[w].principal
      BY <3>1, <3>b, <1>m
    <3>. QED  BY <1>4, <3>1, <3>2, <1>m DEF DraftCheck, Taking, Embedding
  <2>. QED  BY <2>2, <2>3
<1>5. CASE CandidateInsert(w)
  <2>1. f \in Loop /\ Embedding(w)
    BY <1>5, <1>d DEF CandidateInsert, Drafting, Embedding
  <2> DEFINE back == [f EXCEPT !.at = "drafts", !.left = Tail(@)]
             on(m, near) == [f EXCEPT !.at = "enqueue", !.candidate = m, !.near = near]
  <2>a. \/ flow' = [flow EXCEPT ![w] = back]
        \/ \E m, near : flow' = [flow EXCEPT ![w] = on(m, near)]
    BY <1>5 DEF CandidateInsert, Continue
  <2>b. back.at = "drafts" /\ \A m, near : on(m, near).at = "enqueue"
    <3>. HIDE DEF f
    <3>. QED  BY <2>1, Relabelled
  <2>. HIDE DEF back, on
  <2>2. PICK g : flow' = [flow EXCEPT ![w] = g] /\ g.at \in {"drafts", "enqueue"}
    BY <2>a, <2>b
  <2>3. flow'[w].at \in {"drafts", "enqueue"}
    BY <2>2, <1>m
  <2>. QED  BY <1>5, <2>1, <2>2, <2>3, <1>m DEF CandidateInsert, Giving, Embedding
<1>6. CASE EnqueueCheck(w)
  <2>1. f \in Loop
    BY <1>6, <1>d DEF EnqueueCheck, Drafting
  <2> DEFINE at == IF Head(f.left).targets \subseteq f.near \cap Active THEN "card" ELSE "discard"
  <2>a. flow' = [flow EXCEPT ![w] = [f EXCEPT !.at = at]]
    BY <1>6 DEF EnqueueCheck, Continue
  <2>b. at \in {"card", "discard"}
    OBVIOUS
  <2> DEFINE g == [f EXCEPT !.at = at]
  <2>c. g.at = at
    <3>. HIDE DEF f, at
    <3>. QED  BY <2>1, Relabelled
  <2>2. flow' = [flow EXCEPT ![w] = g] /\ g.at \in {"card", "discard"}
    BY <2>a, <2>b, <2>c
  <2>. HIDE DEF g
  <2>3. flow'[w].at \in {"card", "discard"}
    BY <2>2, <1>m
  <2>. QED  BY <1>6, <2>2, <2>3, <1>m DEF EnqueueCheck, memoryVars, Leaving, Embedding
<1>7. CASE CardInsert(w)
  <2>1. f \in Loop
    BY <1>7, <1>d DEF CardInsert, Drafting
  <2> DEFINE g == [f EXCEPT !.at = "drafts", !.left = Tail(@), !.made = @ \cup {f.candidate}]
  <2>2. flow' = [flow EXCEPT ![w] = g] /\ g.at = "drafts"
    <3>1. flow' = [flow EXCEPT ![w] = g]
      BY <1>7 DEF CardInsert, Continue
    <3>2. g.at = "drafts"
      <4>. HIDE DEF f
      <4>. QED  BY <2>1, Relabelled
    <3>. QED  BY <3>1, <3>2
  <2>. HIDE DEF g
  <2>3. flow'[w].at = "drafts"
    BY <2>2, <1>m
  <2>. QED  BY <1>7, <2>2, <2>3, <1>m DEF CardInsert, Leaving, Embedding
<1>8. CASE Discard(w)
  BY <1>8, <1>m DEF Discard, End, Continue, Idle, Leaving, Embedding
<1>9. CASE LoopEnd(w)
  BY <1>9, <1>m DEF LoopEnd, End, Continue, Idle, Leaving, Embedding
<1>10. CASE \E p \in Principal, r \in Repairs, m \in Active : \E T \in SUBSET Active :
              CuratorDiagnose(w, p, r, m, T)
  <2>1. PICK p \in Principal, r \in Repairs, m \in Active : \E T \in SUBSET Active :
              CuratorDiagnose(w, p, r, m, T)
    BY <1>10
  <2>2. PICK T \in SUBSET Active : CuratorDiagnose(w, p, r, m, T)
    BY <2>1
  <2> DEFINE g == [at |-> "diagnosed", principal |-> p, repair |-> r,
                   subject |-> m, others |-> T, candidate |-> Keep, judged |-> 0]
  <2>3. flow' = [flow EXCEPT ![w] = g] /\ UNCHANGED memoryVars /\ g.at = "diagnosed"
    BY <2>2 DEF CuratorDiagnose, Begin
  <2>. HIDE DEF g
  <2>. QED  BY <2>3, <1>m DEF memoryVars, Leaving, Embedding
<1>11. CASE CuratorCandidate(w)
  <2>1. f \in Curation
    BY <1>11, <1>c DEF CuratorCandidate, Curating
  <2> DEFINE on(m) == [f EXCEPT !.at = "proposed", !.candidate = m]
  <2>a. \/ flow' = [flow EXCEPT ![w] = Idle]
        \/ \E m : flow' = [flow EXCEPT ![w] = on(m)]
    BY <1>11 DEF CuratorCandidate, End, Continue
  <2>b. \A m : on(m).at = "proposed"
    <3>. HIDE DEF f
    <3>. QED  BY <2>1, RelabelledCuration
  <2>. HIDE DEF on
  <2>2. PICK g : flow' = [flow EXCEPT ![w] = g] /\ g.at \in {"idle", "proposed"}
    BY <2>a, <2>b, IdleFlow
  <2>3. flow'[w].at \in {"idle", "proposed"}
    BY <2>2, <1>m
  <2>. QED  BY <1>11, <2>2, <2>3, <1>m DEF CuratorCandidate, Leaving, Embedding
<1>12. CASE CuratorJudge(w)
  <2>1. f \in Curation
    BY <1>12, <1>c DEF CuratorJudge, Curating
  <2> DEFINE on(m, n) == [f EXCEPT !.at = "judged", !.candidate = m, !.judged = n]
  <2>a. \E m, n : flow' = [flow EXCEPT ![w] = on(m, n)]
    BY <1>12 DEF CuratorJudge, Continue
  <2>b. \A m, n : on(m, n).at = "judged"
    <3>. HIDE DEF f
    <3>. QED  BY <2>1, RelabelledCuration
  <2>. HIDE DEF on
  <2>2. PICK g : flow' = [flow EXCEPT ![w] = g] /\ g.at = "judged"
    BY <2>a, <2>b
  <2>3. flow'[w].at = "judged"
    BY <2>2, <1>m
  <2>. QED  BY <1>12, <2>2, <2>3, <1>m DEF CuratorJudge, memoryVars, Leaving, Embedding
<1>13. CASE CuratorCard(w)
  BY <1>13, <1>m DEF CuratorCard, End, Continue, Idle, Leaving, Embedding
<1>14. CASE WorkerCrash(w)
  BY <1>14, <1>m DEF WorkerCrash, End, Continue, Idle, Leaving, Giving, Embedding
<1>. QED
  BY <1>1, <1>2, <1>3, <1>4, <1>5, <1>6, <1>7, <1>8, <1>9, <1>10, <1>11, <1>12, <1>13,
     <1>14 DEF WorkerNext

(* Births.  What a worker inserts waits for a decision or is a source, and *)
(* what a decision inserts is a curator's child.                           *)
LEMMA EvolvesBears ==
    ASSUME Base, Evolves, \A m \in Units' \ Units : m \notin Untouched', Rows'
    PROVE  Bears({})
<1>. SUFFICES ASSUME NEW m \in Untouched'
              PROVE  m \in Untouched /\ heads'[m] = heads[m] /\ history'[m][1] = history[m][1]
  BY DEF Bears
<1>1. m \in Units /\ heads'[m].revision = 1 /\ heads'[m].status = "active"
      /\ history'[m][1].reason \in {"created", "split-child"}
  BY DEF Untouched, Active
<1>2. heads[m].revision \in Nat \ {0} /\ 1 \in DOMAIN history[m]
  BY <1>1, UnitFacts
<1>3. heads'[m] = heads[m] /\ history'[m][1] = history[m][1]
  BY <1>1, <1>2 DEF Evolves
<1>. QED  BY <1>1, <1>3 DEF Untouched, Active

LEMMA InsertsUntouchable ==
    ASSUME Base, NEW ins, NEW upd, DOMAIN ins \subseteq Mem \ Units, Write(ins, upd),
           \A m \in DOMAIN ins : ins[m].head.status # "active"
                                 \/ ins[m].reason \notin {"created", "split-child"}
    PROVE  \A m \in Units' \ Units : m \notin Untouched'
<1>1. Units' = Units \cup DOMAIN ins
  BY WriteUnits
<1>2. ASSUME NEW m \in DOMAIN ins
      PROVE  heads'[m] = ins[m].head /\ history'[m][1].reason = ins[m].reason
  <2>1. m \in Mem \ Units
    OBVIOUS
  <2>2. history[m] = <<>>
    BY <2>1, BaseFacts DEF LineageComplete
  <2>3. history'[m] = Append(<<>>, RootRow(ins[m])) /\ heads'[m] = ins[m].head
    BY <2>1, <2>2 DEF Write, HeadsAfter, HistoryAfter
  <2>. QED  BY <2>3 DEF RootRow
<1>. QED  BY <1>1, <1>2 DEF Untouched, Active

Barren == \A m \in Units' \ Units : m \notin Untouched'

LEMMA StillBarren ==
    ASSUME UNCHANGED heads PROVE Barren
BY DEF Barren, Units

LEMMA UpdatesBarren ==
    ASSUME NEW upd, Write(None, upd) PROVE Barren
<1>0. DOMAIN None = {}
  BY DEF None
<1>1. Units' = Units
  BY <1>0, WriteUnits
<1>. QED  BY <1>1 DEF Barren

LEMMA RootBarren ==
    ASSUME Base, NEW m \in Fresh, NEW p, NEW l, NEW b, NEW s, NEW o, NEW up, NEW reason,
           s # "active", Write(Only(m, Root(p, l, b, s, o, up, reason)), None)
    PROVE  Barren
<1> DEFINE ins == Only(m, Root(p, l, b, s, o, up, reason))
<1>1. DOMAIN ins = {m} /\ ins[m].head.status = s
  BY DEF Only, Root
<1>2. Write(ins, None)
  OBVIOUS
<1>. HIDE DEF ins
<1>3. DOMAIN ins \subseteq Mem \ Units
  BY <1>1 DEF Fresh
<1>. QED  BY <1>1, <1>2, <1>3, InsertsUntouchable DEF Barren

LEMMA WorkerBarren ==
    ASSUME Base, NEW w \in Worker, WorkerNext(w)
    PROVE  Barren
<1>1. CASE SeedSource(w)
  BY <1>1, RootBarren DEF SeedSource
<1>2. CASE CandidateInsert(w)
  BY <1>2, RootBarren, StillBarren DEF CandidateInsert
<1>3. CASE CuratorCandidate(w)
  BY <1>3, RootBarren, StillBarren DEF CuratorCandidate
<1>4. CASE Discard(w)
  BY <1>4, UpdatesBarren DEF Discard
<1>5. CASE \/ DraftCheck(w) \/ EnqueueCheck(w) \/ CardInsert(w) \/ LoopEnd(w)
           \/ CuratorJudge(w) \/ CuratorCard(w) \/ WorkerCrash(w)
  <2>1. UNCHANGED heads
    BY <1>5 DEF DraftCheck, EnqueueCheck, CardInsert, LoopEnd, CuratorJudge, CuratorCard,
                WorkerCrash, memoryVars, tables
  <2>. QED  BY <2>1, StillBarren
<1>6. ASSUME NEW p, NEW d, NEW T, Extract(w, p, d, T) PROVE Barren
  BY <1>6, StillBarren DEF Extract, memoryVars, tables
<1>7. ASSUME NEW p, NEW doc, NEW implicated, Seed(w, p, doc, implicated) PROVE Barren
  BY <1>7, StillBarren DEF Seed, memoryVars, tables
<1>8. ASSUME NEW p, NEW r, NEW m, NEW T, CuratorDiagnose(w, p, r, m, T) PROVE Barren
  BY <1>8, StillBarren DEF CuratorDiagnose, memoryVars, tables
<1>. QED  BY <1>1, <1>2, <1>3, <1>4, <1>5, <1>6, <1>7, <1>8 DEF WorkerNext

LEMMA SplitBarren ==
    ASSUME Base, NEW i \in DOMAIN cards, NEW left \in Drafts, NEW right \in Drafts,
           CuratorSplit(i, left, right)
    PROVE  Barren
<1> DEFINE m == cards[i].candidate
           up == <<m, heads[m].revision + 1>>
           child(d) == Root(heads[m].principal, d.label, d.body, "active", Inherited(m), up,
                            "curator-child")
           upd == Only(m, Change([heads[m] EXCEPT !.status = "tombstoned"], "split-source"))
<1>1. PICK x \in Fresh, y \in Fresh :
          Write([n \in {x, y} |-> child(IF n = x THEN left ELSE right)], upd)
  BY DEF CuratorSplit
<1> DEFINE ins == [n \in {x, y} |-> child(IF n = x THEN left ELSE right)]
<1>2. DOMAIN ins = {x, y} /\ \A n \in {x, y} : ins[n].reason = "curator-child"
  BY DEF Root
<1>3. Write(ins, upd)
  BY <1>1
<1>. HIDE DEF ins, upd
<1>4. DOMAIN ins \subseteq Mem \ Units
  BY <1>2 DEF Fresh
<1>. QED  BY <1>2, <1>3, <1>4, InsertsUntouchable DEF Barren

LEMMA DecideBarren ==
    ASSUME Base, DecideNext
    PROVE  Barren
<1>1. ASSUME NEW S, NEW signal, DecideRows(S, signal) PROVE Barren
  <2>1. CASE signal = "deny"
    BY <1>1, <2>1, UpdatesBarren DEF DecideRows, RejectCards
  <2>2. CASE signal # "deny"
    BY <1>1, <2>2, UpdatesBarren DEF DecideRows, EnactCards
  <2>. QED  BY <2>1, <2>2
<1>2. ASSUME NEW i \in DOMAIN cards,
             \/ CuratorDeny(i) \/ CuratorContradict(i) \/ CuratorRetire(i) \/ CuratorKeywords(i)
      PROVE  Barren
  BY <1>2, UpdatesBarren, StillBarren DEF CuratorDeny, CuratorContradict, CuratorRetire,
                                          CuratorKeywords
<1>3. ASSUME NEW i \in DOMAIN cards, NEW a, CuratorReplace(i, a) PROVE Barren
  BY <1>3, UpdatesBarren DEF CuratorReplace
<1>. QED  BY <1>1, <1>2, <1>3, SplitBarren DEF DecideNext, Decide, DecideBatch

(* A step that is not a handler's: no request moves and none is born.      *)
LEMMA BesideTwins ==
    ASSUME TwinlessInv, Base', Evolves, Barren, UNCHANGED req, LocksApart'
    PROVE  TwinlessInv'
<1>1. Rows' /\ Inv'
  BY Before DEF Base, Inv, MemoryTypes, MemoryTypeOK, Rows
<1>2. Bears({})
  BY <1>1, EvolvesBears DEF TwinlessInv, Barren
<1>3. TwinInv'
  BY <1>1, <1>2, BarrenStep DEF TwinlessInv, LocksApart, Keepers
<1>. QED  BY <1>3 DEF TwinlessInv

LEMMA QueueTwins ==
    ASSUME TwinlessInv, Base', [QueueNext]_queueVars, UNCHANGED resolving
    PROVE  TwinlessInv'
<1>0. Base /\ TwinInv /\ LocksApart /\ Inv
  BY DEF TwinlessInv, TwinInv
<1>1. Evolves
  <2>1. Quiet \/ \E S \in SUBSET DOMAIN cards, signal \in Signal : Decisive(S, signal)
    BY <1>0, QueueStepKinds
  <2>. QED  BY <2>1 DEF Quiet, Decisive, Settles
<1>2. CASE (\E c \in Client : HandlerNext(c)) /\ UNCHANGED flow
  <2>1. PICK c \in Client : HandlerNext(c)
    BY <1>2
  <2>2. TwinInv'
    BY <1>0, <2>1, HandlerTwins
  <2>. QED  BY <1>0, <1>2, <2>1, <2>2, HandlerLocksApart DEF TwinlessInv, TwinInv
<1>3. ASSUME NEW w \in Worker, WorkerNext(w) PROVE TwinlessInv'
  BY <1>0, <1>1, <1>3, WorkerLocks, WorkerLocksApart, WorkerBarren, BesideTwins
<1>4. CASE DecideNext
  <2>1. UNCHANGED <<lock, req, flow>>
    BY <1>4 DEF DecideNext, Decide, DecideBatch, DecideRows, CuratorDeny, CuratorReplace,
                CuratorContradict, CuratorRetire, CuratorKeywords, CuratorSplit, CuratorDecided
  <2>. QED  BY <1>0, <1>1, <1>4, <2>1, StillLocksApart, DecideBarren, BesideTwins
<1>5. CASE UNCHANGED queueVars
  BY <1>0, <1>1, <1>5, StillLocksApart, StillBarren, BesideTwins
     DEF queueVars, memoryVars, tables
<1>. QED  BY <1>2, <1>3, <1>4, <1>5 DEF QueueNext

LEMMA BridgeTwins ==
    ASSUME TwinlessInv, Base', Bridging, Barren, UNCHANGED req, LocksApart'
    PROVE  TwinlessInv'
<1>1. Evolves
  BY DEF Bridging
<1>. QED  BY <1>1, BesideTwins

LEMMA SymphonyTwins ==
    ASSUME TwinlessInv, ResolversFit, Base', [SymphonyNext]_symphonyVars
    PROVE  TwinlessInv'
<1>0. Base /\ LocksApart
  BY DEF TwinlessInv
<1>1. CASE QueueNext /\ UNCHANGED resolving
  BY <1>1, QueueTwins
<1>2. CASE UNCHANGED symphonyVars
  BY <1>2, QueueTwins DEF symphonyVars
<1>3. ASSUME NEW m \in Mem, NEW p \in Principal, NEW run \in RunId, NEW path \in Attempt,
             NEW d \in Drafts, Stage(m, p, run, path, d)
      PROVE  TwinlessInv'
  <2>1. Bridging /\ Units' = Units \cup {m} /\ heads'[m].status = "staged"
    BY <1>0, <1>3, StageBridges
  <2>2. Barren
    BY <2>1 DEF Barren, Untouched, Active
  <2>3. UNCHANGED <<req, flow, lock, resolving>>
    BY <1>3 DEF Stage
  <2>. QED  BY <1>0, <2>1, <2>2, <2>3, StillLocksApart, BridgeTwins
<1>4. ASSUME NEW p \in Principal, NEW run \in RunId, NEW winner \in Attempt, NEW b \in Batch,
             ResolveRead(p, run, winner, b)
      PROVE  TwinlessInv'
  <2>1. Bridging /\ UNCHANGED heads
    BY <1>0, <1>4, ReadBridges
  <2>2. /\ UNCHANGED <<req, flow>> /\ p \notin lock /\ lock' = lock \cup {p}
        /\ DOMAIN resolving' = DOMAIN resolving \cup {p}
    BY <1>4 DEF ResolveRead, LockFree
  <2>. QED  BY <1>0, <2>1, <2>2, ResolverTakes, StillBarren, BridgeTwins
<1>5. ASSUME NEW p \in DOMAIN resolving, ResolveCommit(p)
      PROVE  TwinlessInv'
  <2>1. Bridging
    BY <1>0, <1>5, CommitBridges
  <2>2. Barren
    BY <1>5, UpdatesBarren DEF ResolveCommit
  <2>3. /\ UNCHANGED <<req, flow>> /\ lock' = lock \ {p}
        /\ DOMAIN resolving' = DOMAIN resolving \ {p}
    BY <1>5 DEF ResolveCommit, Closed
  <2>. QED  BY <1>0, <2>1, <2>2, <2>3, ResolverGives, BridgeTwins
<1>6. ASSUME NEW p \in DOMAIN resolving, ResolveAbort(p)
      PROVE  TwinlessInv'
  <2>1. Bridging /\ UNCHANGED heads
    BY <1>0, <1>6, AbortBridges
  <2>2. /\ UNCHANGED <<req, flow>> /\ lock' = lock \ {p}
        /\ DOMAIN resolving' = DOMAIN resolving \ {p}
    BY <1>6 DEF ResolveAbort, Closed
  <2>. QED  BY <1>0, <2>1, <2>2, ResolverGives, StillBarren, BridgeTwins
<1>. QED  BY <1>1, <1>2, <1>3, <1>4, <1>5, <1>6 DEF SymphonyNext

(* The advisory lock, over all that takes it: with any number of handlers, *)
(* extractions, seeds, decisions and runs at work, and whichever die, no   *)
(* two hold the lock of one owner; so what a create compared with is still *)
(* all there is when it inserts, and a pair of born duplicates is a split's*)
(* own.  A candidate, a staged row or a curator's child was not born to the*)
(* corpus and is not compared here.                                        *)
THEOREM LocksKeepTwinsOut == SymphonySpec => [](LocksApart /\ NoTwinBirths)
<1>1. SymphonyInit => TwinlessInv
  <2>. SUFFICES ASSUME SymphonyInit PROVE TwinlessInv
    OBVIOUS
  <2>1. QueueInv /\ Init
    BY SymphonyInvInit DEF SymphonyInv, SymphonyInit, QueueInit
  <2>2. Base /\ Inv /\ Units = {} /\ \A c \in Client : req[c].at = "idle"
    BY <2>1 DEF QueueInv, Base, Init, EmptyTables, Units, None, Idle
  <2>3. \A w \in Worker : flow[w].at = "idle"
    BY IdleFlow DEF SymphonyInit, QueueInit
  <2>4. Untouched = {}
    BY <2>2 DEF Untouched, Active
  <2>5. TwinInv
    BY <2>2, <2>4 DEF TwinInv, LockHeld, LockAlone, Holding, StillClear, Clear, NoTwinBirths
  <2>6. LocksApart
    <3>1. DOMAIN resolving = {}
      BY DEF SymphonyInit, None
    <3>. QED  BY <2>3, <2>5, <3>1 DEF TwinInv, LocksApart, Keepers, WorkersHold, WorkersApart,
                                      WorkersAside, ResolversApart, Embedding
  <2>. QED  BY <2>2, <2>5, <2>6 DEF TwinlessInv
<1>2. SymphonyInv' => Base'
  BY DEF SymphonyInv, QueueInv
<1>3. TwinlessInv /\ SymphonyInv /\ SymphonyInv' /\ [SymphonyNext]_symphonyVars => TwinlessInv'
  BY <1>2, SymphonyTwins DEF SymphonyInv
<1>4. TwinlessInv => LocksApart /\ NoTwinBirths
  BY DEF TwinlessInv, TwinInv
<1>. QED  BY <1>1, <1>3, <1>4, SymphonyInvHolds, PTL DEF SymphonySpec

(* The memory service's promises hold beside every pipeline that writes to *)
(* its tables: each head has its complete history, every root a stored     *)
(* parent, and every reinforcement is counted once, with extractions,      *)
(* seeds, curators, decisions and symphony runs at work.                   *)
THEOREM PipelinesKeepMemories ==
    SymphonySpec => [](LineageComplete /\ RootsDescend /\ ReinforcementsExact)
<1>1. SymphonyInv => LineageComplete /\ RootsDescend /\ ReinforcementsExact
  BY DEF SymphonyInv, QueueInv, Base, Inv
<1>. QED  BY <1>1, SymphonyInvHolds, PTL

(* Nothing the tables record is taken back: a memory, its owner, a revision*)
(* row, an edge, a card and a decision stay, and a head never moves to a   *)
(* lower revision nor changes under the same one.                          *)
OnlyGrows ==
    /\ Units \subseteq Units'
    /\ \A m \in Units :
        /\ heads'[m].principal = heads[m].principal
        /\ heads'[m].revision >= heads[m].revision
        /\ heads'[m].revision = heads[m].revision => heads'[m] = heads[m]
        /\ \A k \in DOMAIN history[m] :
              k \in DOMAIN history'[m] /\ history'[m][k] = history[m][k]
    /\ edges \subseteq edges' /\ decisions \subseteq decisions'
    /\ \A i \in DOMAIN cards : i \in DOMAIN cards' /\ SameCard(cards[i], cards'[i])

LEMMA ProgressGrows ==
    ASSUME Evolves, Progress, decisions \subseteq decisions'
    PROVE  OnlyGrows
BY DEF Evolves, Progress, OnlyGrows

(* memory_revision, memory_edge, approval_queue_item and approval_decision *)
(* are logs: whatever handlers, workers, decisions and runs do, and        *)
(* wherever they die, a committed row is never rewritten or removed, and a *)
(* client that compares revisions never takes a changed head for the one it*)
(* read.                                                                   *)
THEOREM RecordsOnlyGrow == SymphonySpec => [][OnlyGrows]_symphonyVars
<1>1. ASSUME SymphonyInv, [SymphonyNext]_symphonyVars PROVE OnlyGrows
  <2>0. Base /\ DecisionsMatchCards /\ ResolversFit
    BY <1>1 DEF SymphonyInv, QueueInv
  <2>1. CASE [QueueNext]_queueVars
    <3>1. CASE Quiet
      <4>1. Evolves /\ Progress
        BY <2>0, <3>1, QuietProgress DEF Quiet
      <4>2. decisions \subseteq decisions'
        BY <3>1 DEF Quiet, Undecided
      <4>. QED  BY <4>1, <4>2, ProgressGrows
    <3>2. CASE \E S \in SUBSET DOMAIN cards, signal \in Signal : Decisive(S, signal)
      <4>1. PICK S \in SUBSET DOMAIN cards, signal \in Signal : Decisive(S, signal)
        BY <3>2
      <4>2. Evolves /\ Progress
        BY <2>0, <4>1, DecisiveProgress DEF Decisive, Settles
      <4>3. decisions \subseteq decisions'
        BY <4>1 DEF Decisive, Record
      <4>. QED  BY <4>2, <4>3, ProgressGrows
    <3>. QED  BY <2>0, <2>1, <3>1, <3>2, QueueStepKinds
  <2>2. ASSUME Bridging PROVE OnlyGrows
    <3>1. Evolves /\ Progress /\ decisions' = decisions
      BY <2>0, <2>2, BridgingProgress DEF Bridging
    <3>. QED  BY <3>1, ProgressGrows
  <2>3. UNCHANGED symphonyVars => UNCHANGED queueVars
    BY DEF symphonyVars
  <2>. QED  BY <1>1, <2>0, <2>1, <2>2, <2>3, StageBridges, ReadBridges, CommitBridges,
               AbortBridges DEF SymphonyNext
<1>2. SymphonyInv /\ [SymphonyNext]_symphonyVars => [OnlyGrows]_symphonyVars
  BY <1>1
<1>. QED  BY <1>2, SymphonyInvHolds, PTL DEF SymphonySpec
=============================================================================
