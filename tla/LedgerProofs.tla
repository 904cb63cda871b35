---------------------------- MODULE LedgerProofs -----------------------------
(***************************************************************************)
(* Proofs about Ledgers.  The receipts: rows of an open transaction are    *)
(* neither in the ledger nor in another open transaction, so a commit adds *)
(* and never replaces.  The transcript: it grows at its end.  Invoices and *)
(* observations: whoever is about to write has the lock, so what it read   *)
(* is still so.                                                            *)
(***************************************************************************)
EXTENDS Ledgers, ProofBasics, TLAPS

PostRow(q) ==
    /\ q \in [pc : {"insert"}, uids : Seq(Uid), lines : Seq(Line), next : Nat \ {0},
              mine : SUBSET Uid]
    /\ Len(q.lines) = Len(q.uids)
    /\ \A j, k \in DOMAIN q.uids : q.uids[j] = q.uids[k] => j = k
    /\ \A u \in q.mine : \E k \in DOMAIN q.uids : q.uids[k] = u

(* What a batch has passed is its own or was there.                        *)
PostOK(q) ==
    /\ PostRow(q)
    /\ q.mine \cap DOMAIN ledger = {}
    /\ \A k \in DOMAIN q.uids : k < q.next => q.uids[k] \in q.mine \cup DOMAIN ledger

SpendInv ==
    /\ ledger \in ReceiptRows
    /\ \A x \in acked : x[1] \in DOMAIN ledger /\ ledger[x[1]] = x[2]
    /\ DOMAIN posts = Poster
    /\ \A p \in Poster : posts[p].pc = "insert" => PostOK(posts[p])
    /\ \A p, r \in Poster :
          p # r /\ posts[p].pc = "insert" /\ posts[r].pc = "insert"
          => posts[p].mine \cap posts[r].mine = {}

TranscriptInv ==
    /\ transcript \in TranscriptRows
    /\ DOMAIN shipped = Hub
    /\ \A h \in Hub : \A n \in shipped[h] :
          n \in DOMAIN transcript /\ transcript[n] = Journal[h][n]

-----------------------------------------------------------------------------
(* Receipts.                                                               *)

LEMMA PostKept ==
    ASSUME NEW q, PostOK(q), UNCHANGED ledger
    PROVE  PostOK(q)'
BY DEF PostOK, PostRow

(* One batch moves and nothing is committed.                               *)
LEMMA PosterMoves ==
    ASSUME SpendInv, UNCHANGED <<ledger, acked>>, NEW p \in Poster, NEW q,
           posts' = [posts EXCEPT ![p] = q],
           q.pc = "insert" => PostOK(q),
           q.pc = "insert" => \A r \in Poster \ {p} :
                                 posts[r].pc = "insert" => q.mine \cap posts[r].mine = {}
    PROVE  SpendInv'
<1>1. /\ DOMAIN posts' = Poster /\ posts'[p] = q
      /\ \A r \in Poster \ {p} : posts'[r] = posts[r]
  BY DEF SpendInv
<1>2. ASSUME NEW r \in Poster, posts'[r].pc = "insert" PROVE PostOK(posts[r])'
  <2>1. PICK x : x = posts'[r]
    OBVIOUS
  <2>2. PostOK(x)
    BY <1>1, <1>2, <2>1 DEF SpendInv
  <2>3. PostOK(x)'
    BY <2>2, PostKept
  <2> QED
    BY <2>1, <2>3
<1>3. \A r, t \in Poster :
          r # t /\ posts'[r].pc = "insert" /\ posts'[t].pc = "insert"
          => posts'[r].mine \cap posts'[t].mine = {}
  BY <1>1 DEF SpendInv
<1> QED
  BY <1>1, <1>2, <1>3 DEF SpendInv, ReceiptRows

LEMMA SendBatchStep ==
    ASSUME SpendInv, NEW p \in Poster, NEW n \in Nat, NEW uids \in [1 .. n -> Uid],
           NEW lines \in [1 .. n -> Line], SendBatch(p, uids, lines)
    PROVE  SpendInv'
<1>1. PICK q : q = [pc |-> "insert", uids |-> uids, lines |-> lines, next |-> 1, mine |-> {}]
  OBVIOUS
<1>2. /\ q.pc = "insert" /\ q.uids = uids /\ q.lines = lines /\ q.next = 1 /\ q.mine = {}
      /\ DOMAIN uids = 1 .. n /\ Len(uids) = n
  BY <1>1
<1>3. uids \in Seq(Uid) /\ lines \in Seq(Line) /\ Len(lines) = n
  OBVIOUS
<1>4. PostRow(q)
  BY <1>1, <1>2, <1>3 DEF PostRow, SendBatch
<1>5. PostOK(q)
  BY <1>2, <1>4 DEF PostOK
<1> QED
  BY <1>1, <1>2, <1>5, PosterMoves DEF SendBatch

LEMMA RollBackStep ==
    ASSUME SpendInv, UNCHANGED <<ledger, acked>>, NEW p \in Poster,
           posts' = [posts EXCEPT ![p] = Quiet]
    PROVE  SpendInv'
<1>1. PICK q : q = Quiet
  OBVIOUS
<1>2. q.pc # "insert"
  BY <1>1 DEF Quiet
<1> QED
  BY <1>1, <1>2, PosterMoves

LEMMA InsertRowStep ==
    ASSUME SpendInv, NEW p \in Poster, InsertRow(p)
    PROVE  SpendInv'
<1>1. PICK old : old = posts[p]
  OBVIOUS
<1>2. /\ old.pc = "insert" /\ old.next <= Len(old.uids) /\ PostOK(old)
      /\ old.uids[old.next] \notin Held(p) /\ UNCHANGED <<ledger, acked>>
  BY <1>1 DEF InsertRow, SpendInv
<1>3. PICK u : u = old.uids[old.next]
  OBVIOUS
<1>4. PostRow(old)
  BY <1>2 DEF PostOK
<1>5. old.next \in DOMAIN old.uids /\ u \in Uid /\ old.next \in Nat \ {0}
  BY <1>2, <1>3, <1>4 DEF PostRow
<1>6. \A r \in Poster \ {p} : posts[r].pc = "insert" => u \notin posts[r].mine
  BY <1>2, <1>3, <1>5 DEF Held
<1>7. PICK mine, q :
          /\ mine = IF u \in DOMAIN ledger THEN old.mine ELSE old.mine \cup {u}
          /\ q = [old EXCEPT !.next = @ + 1, !.mine = mine]
  OBVIOUS
<1>8. posts' = [posts EXCEPT ![p] = q]
  BY <1>1, <1>3, <1>7 DEF InsertRow, SpendInv
<1>9. mine \in SUBSET Uid /\ old.next + 1 \in Nat \ {0}
  BY <1>4, <1>5, <1>7 DEF PostRow
<1>10. /\ q \in [pc : {"insert"}, uids : Seq(Uid), lines : Seq(Line), next : Nat \ {0},
                 mine : SUBSET Uid]
       /\ q.uids = old.uids /\ q.lines = old.lines /\ q.mine = mine /\ q.next = old.next + 1
  BY <1>4, <1>7, <1>9 DEF PostRow
<1>11. \A v \in mine : \E k \in DOMAIN old.uids : old.uids[k] = v
  BY <1>3, <1>4, <1>5, <1>7 DEF PostRow
<1>12. PostRow(q)
  BY <1>4, <1>10, <1>11 DEF PostRow
<1>13. mine \cap DOMAIN ledger = {}
  BY <1>2, <1>7 DEF PostOK
<1>14. ASSUME NEW k \in DOMAIN old.uids, k < old.next + 1
       PROVE  old.uids[k] \in mine \cup DOMAIN ledger
  <2>1. k \in Nat
    BY <1>4 DEF PostRow
  <2>2. k < old.next \/ k = old.next
    BY <1>5, <1>14, <2>1
  <2> QED
    BY <1>2, <1>3, <1>7, <2>2 DEF PostOK
<1>15. PostOK(q)
  BY <1>10, <1>12, <1>13, <1>14 DEF PostOK
<1>16. \A r \in Poster \ {p} : posts[r].pc = "insert" => q.mine \cap posts[r].mine = {}
  BY <1>1, <1>2, <1>6, <1>7, <1>10 DEF SpendInv
<1> QED
  BY <1>2, <1>8, <1>15, <1>16, PosterMoves

(* A commit adds the rows of its own batch, and afterwards the ledger has  *)
(* every line of the batch.                                                *)
LEMMA CommitFacts ==
    ASSUME SpendInv, NEW p \in Poster, FinishBatch(p), Replays(posts[p])
    PROVE  /\ DOMAIN ledger' = DOMAIN ledger \cup posts[p].mine
           /\ ledger' \in ReceiptRows
           /\ \A u \in DOMAIN ledger : ledger'[u] = ledger[u]
           /\ \A k \in DOMAIN posts[p].uids :
                 /\ posts[p].uids[k] \in DOMAIN ledger'
                 /\ ledger'[posts[p].uids[k]] = posts[p].lines[k]
<1>1. PICK q : q = posts[p]
  OBVIOUS
<1>2. q.pc = "insert" /\ q.next > Len(q.uids) /\ PostOK(q) /\ PostRow(q) /\ Replays(q)
  BY <1>1 DEF FinishBatch, SpendInv, PostOK
<1> DEFINE line(u) == q.lines[CHOOSE k \in DOMAIN q.uids : q.uids[k] = u]
<1>3. ledger' = [u \in DOMAIN ledger \cup q.mine |-> IF u \in q.mine THEN line(u) ELSE ledger[u]]
  BY <1>1, <1>2 DEF FinishBatch
<1>4. \A k \in DOMAIN q.uids : line(q.uids[k]) = q.lines[k]
  BY <1>2 DEF PostRow
<1>5. DOMAIN q.uids = DOMAIN q.lines /\ \A k \in DOMAIN q.uids : q.lines[k] \in Line
  BY <1>2 DEF PostRow
<1>6. \A u \in q.mine : line(u) \in Line
  BY <1>2, <1>4, <1>5 DEF PostRow
<1> HIDE DEF line
<1>7. ledger' \in ReceiptRows
  <2>1. PICK S \in SUBSET Uid : ledger \in [S -> Line]
    BY DEF SpendInv, ReceiptRows
  <2>2. S \cup q.mine \in SUBSET Uid
    BY <1>2, <2>1 DEF PostRow
  <2>3. ledger' \in [S \cup q.mine -> Line]
    BY <1>3, <1>6, <2>1
  <2> QED
    BY <2>2, <2>3 DEF ReceiptRows
<1>8. \A u \in DOMAIN ledger : ledger'[u] = ledger[u]
  BY <1>2, <1>3 DEF PostOK
<1>9. ASSUME NEW k \in DOMAIN q.uids
      PROVE  q.uids[k] \in DOMAIN ledger' /\ ledger'[q.uids[k]] = q.lines[k]
  <2>1. k < q.next
    BY <1>2 DEF PostRow
  <2>2. q.uids[k] \in q.mine \cup DOMAIN ledger
    BY <1>2, <2>1 DEF PostOK
  <2>3. CASE q.uids[k] \in q.mine
    BY <1>3, <1>4, <2>3
  <2>4. CASE q.uids[k] \notin q.mine
    BY <1>2, <1>3, <2>2, <2>4 DEF Replays
  <2> QED
    BY <2>3, <2>4
<1> QED
  BY <1>1, <1>3, <1>7, <1>8, <1>9

(* What a commit acknowledges, now or before, is in the ledger.            *)
LEMMA CommitAcks ==
    ASSUME SpendInv, NEW p \in Poster, FinishBatch(p), Replays(posts[p])
    PROVE  /\ acked \subseteq acked'
           /\ \A x \in acked' : x[1] \in DOMAIN ledger' /\ ledger'[x[1]] = x[2]
<1>1. PICK heard \in BOOLEAN :
          acked' = IF heard
                   THEN acked \cup {<<posts[p].uids[k], posts[p].lines[k]>> : k \in DOMAIN posts[p].uids}
                   ELSE acked
  BY DEF FinishBatch
<1>2. ASSUME NEW x \in acked PROVE x[1] \in DOMAIN ledger' /\ ledger'[x[1]] = x[2]
  <2>1. x[1] \in DOMAIN ledger /\ ledger[x[1]] = x[2]
    BY DEF SpendInv
  <2> QED
    BY <2>1, CommitFacts
<1>3. ASSUME NEW k \in DOMAIN posts[p].uids, NEW x, x = <<posts[p].uids[k], posts[p].lines[k]>>
      PROVE  x[1] \in DOMAIN ledger' /\ ledger'[x[1]] = x[2]
  BY <1>3, CommitFacts
<1> QED
  BY <1>1, <1>2, <1>3

LEMMA FinishBatchStep ==
    ASSUME SpendInv, NEW p \in Poster, FinishBatch(p)
    PROVE  SpendInv'
<1>1. CASE ~Replays(posts[p])
  BY <1>1, RollBackStep DEF FinishBatch
<1>2. CASE Replays(posts[p])
  <2>1. /\ DOMAIN ledger' = DOMAIN ledger \cup posts[p].mine /\ ledger' \in ReceiptRows
        /\ \A x \in acked' : x[1] \in DOMAIN ledger' /\ ledger'[x[1]] = x[2]
    BY <1>2, CommitFacts, CommitAcks
  <2>2. /\ DOMAIN posts' = Poster /\ posts'[p].pc = "quiet"
        /\ \A r \in Poster \ {p} : posts'[r] = posts[r]
        /\ posts[p].pc = "insert"
    BY DEF FinishBatch, SpendInv, Quiet
  <2>3. ASSUME NEW r \in Poster, posts'[r].pc = "insert" PROVE PostOK(posts[r])'
    <3>1. PICK x : x = posts[r] /\ posts'[r] = x
      BY <2>2, <2>3
    <3>2. PostOK(x) /\ x.mine \cap posts[p].mine = {}
      BY <2>2, <2>3, <3>1 DEF SpendInv
    <3>3. PostOK(x)'
      BY <2>1, <3>2 DEF PostOK, PostRow
    <3> QED
      BY <3>1, <3>3
  <2>4. \A r, t \in Poster :
            r # t /\ posts'[r].pc = "insert" /\ posts'[t].pc = "insert"
            => posts'[r].mine \cap posts'[t].mine = {}
    BY <2>2 DEF SpendInv
  <2> QED
    BY <2>1, <2>2, <2>3, <2>4 DEF SpendInv
<1> QED
  BY <1>1, <1>2

-----------------------------------------------------------------------------
(* Transcripts.                                                            *)

LEMMA MaxOfTwo ==
    ASSUME NEW a \in Nat, NEW b \in Nat
    PROVE  Max({a, b}) \in Nat /\ Max({a, b}) >= a /\ Max({a, b}) >= b
           /\ Max({a, b}) \in {a, b}
<1>1. \E x \in {a, b} : \A y \in {a, b} : x >= y
  OBVIOUS
<1>2. Max({a, b}) \in {a, b} /\ \A y \in {a, b} : Max({a, b}) >= y
  BY <1>1 DEF Max
<1> QED
  BY <1>2

LEMMA ShipFacts ==
    ASSUME TranscriptInv, NEW h \in Hub, NEW from \in Nat \ {0}, NEW to \in Nat \ {0},
           ShipLines(h, from, to)
    PROVE  /\ transcript' \in TranscriptRows
           /\ \A n \in DOMAIN transcript : n \in DOMAIN transcript' /\ transcript'[n] = transcript[n]
           /\ \A n \in from .. to : n \in DOMAIN transcript' /\ transcript'[n] = Journal[h][n]
<1>1. transcript \in Seq(Line) /\ Journal[h] \in Seq(Line)
  BY LedgersAssumption DEF TranscriptInv, TranscriptRows
<1>2. PICK len \in Nat : len = Len(transcript)
  BY <1>1
<1>3. DOMAIN transcript = 1 .. len /\ \A n \in 1 .. len : transcript[n] \in Line
  BY <1>1, <1>2
<1>4. PICK top : top = Max({to, len})
  OBVIOUS
<1>5. top \in Nat /\ top >= to /\ top >= len /\ top \in {to, len}
  BY <1>4, MaxOfTwo
<1>6. /\ transcript' = [n \in 1 .. top |-> IF n <= len THEN transcript[n] ELSE Journal[h][n]]
      /\ \A n \in from .. to : n <= len => transcript[n] = Journal[h][n]
  BY <1>2, <1>4 DEF ShipLines, Extends
<1>7. \A n \in 1 .. to : Journal[h][n] \in Line
  BY <1>1 DEF ShipLines
<1>8. \A n \in 1 .. top : transcript'[n] \in Line
  BY <1>3, <1>5, <1>6, <1>7
<1>9. transcript' \in Seq(Line)
  BY <1>5, <1>6, <1>8
<1>10. \A n \in DOMAIN transcript : n \in DOMAIN transcript' /\ transcript'[n] = transcript[n]
  BY <1>3, <1>5, <1>6
<1>11. \A n \in from .. to : n \in DOMAIN transcript' /\ transcript'[n] = Journal[h][n]
  BY <1>5, <1>6
<1> QED
  BY <1>9, <1>10, <1>11 DEF TranscriptRows

LEMMA ShipShipped ==
    ASSUME TranscriptInv, NEW h \in Hub, NEW from \in Nat \ {0}, NEW to \in Nat \ {0},
           ShipLines(h, from, to)
    PROVE  /\ DOMAIN shipped' = Hub
           /\ \A i \in Hub : shipped[i] \subseteq shipped'[i]
           /\ \A i \in Hub : \A n \in shipped'[i] :
                 n \in DOMAIN transcript' /\ transcript'[n] = Journal[i][n]
<1>1. DOMAIN shipped = Hub
  BY DEF TranscriptInv
<1>2. /\ DOMAIN shipped' = Hub
      /\ \A i \in Hub : shipped[i] \subseteq shipped'[i]
      /\ \A i \in Hub \ {h} : shipped'[i] = shipped[i]
      /\ shipped'[h] \subseteq shipped[h] \cup (from .. to)
  BY <1>1 DEF ShipLines
<1>3. \A i \in Hub : \A n \in shipped[i] :
          n \in DOMAIN transcript' /\ transcript'[n] = Journal[i][n]
  <2> SUFFICES ASSUME NEW i \in Hub, NEW n \in shipped[i]
               PROVE  n \in DOMAIN transcript' /\ transcript'[n] = Journal[i][n]
    OBVIOUS
  <2>1. n \in DOMAIN transcript /\ transcript[n] = Journal[i][n]
    BY DEF TranscriptInv
  <2> QED
    BY <2>1, ShipFacts
<1>4. \A n \in from .. to : n \in DOMAIN transcript' /\ transcript'[n] = Journal[h][n]
  BY ShipFacts
<1> QED
  BY <1>2, <1>3, <1>4

LEMMA ShipLinesStep ==
    ASSUME TranscriptInv, NEW h \in Hub, NEW from \in Nat \ {0}, NEW to \in Nat \ {0},
           ShipLines(h, from, to)
    PROVE  TranscriptInv'
BY ShipFacts, ShipShipped DEF TranscriptInv

-----------------------------------------------------------------------------
(* The registers.                                                          *)

LEMMA RegistersStart ==
    ASSUME LedgersInit
    PROVE  SpendInv /\ TranscriptInv /\ Receipts!RegisterInit /\ Records!RegisterInit
<1>1. ledger \in ReceiptRows
  <2>1. ledger \in [{} -> Line] /\ {} \in SUBSET Uid
    BY DEF LedgersInit
  <2> QED
    BY <2>1 DEF ReceiptRows
<1>2. SpendInv
  BY <1>1 DEF LedgersInit, SpendInv, Quiet
<1>3. TranscriptInv
  BY DEF LedgersInit, TranscriptInv, TranscriptRows
<1>4. ShippedLines = {}
  BY DEF LedgersInit, ShippedLines
<1> QED
  BY <1>2, <1>3, <1>4 DEF LedgersInit, Receipts!RegisterInit, Records!RegisterInit

(* Steps of one service leave the state of the others alone.               *)
LEMMA SpendSteps ==
    ASSUME [LedgersNext]_ledgerVars
    PROVE  \/ \E p \in Poster, n \in Nat : \E uids \in [1 .. n -> Uid], lines \in [1 .. n -> Line] :
                 SendBatch(p, uids, lines)
           \/ \E p \in Poster : PostStep(p)
           \/ UNCHANGED spendVars
BY DEF LedgersNext, ledgerVars, ReadInvoice, WriteInvoice, Bill, ReconcileStep, BeginReconcile,
       ReadLedger, AskBroker, CommitObservation, ShipLines

LEMMA TranscriptSteps ==
    ASSUME [LedgersNext]_ledgerVars
    PROVE  \/ \E h \in Hub, from, to \in Nat \ {0} : ShipLines(h, from, to)
           \/ UNCHANGED transcriptVars
BY DEF LedgersNext, ledgerVars, SendBatch, PostStep, InsertRow, DeadlockVictim, FinishBatch,
       ReadInvoice, WriteInvoice, Bill, ReconcileStep, BeginReconcile, ReadLedger, AskBroker,
       CommitObservation

LEMMA SpendKeeps ==
    ASSUME SpendInv, [LedgersNext]_ledgerVars
    PROVE  SpendInv'
<1>1. CASE \E p \in Poster, n \in Nat : \E uids \in [1 .. n -> Uid], lines \in [1 .. n -> Line] :
              SendBatch(p, uids, lines)
  BY <1>1, SendBatchStep
<1>2. CASE \E p \in Poster : PostStep(p)
  <2>1. ASSUME NEW p \in Poster, DeadlockVictim(p) PROVE SpendInv'
    BY <2>1, RollBackStep DEF DeadlockVictim
  <2> QED
    BY <1>2, <2>1, InsertRowStep, FinishBatchStep DEF PostStep
<1>3. CASE UNCHANGED spendVars
  BY <1>3 DEF spendVars, SpendInv, PostOK, PostRow, ReceiptRows
<1> QED
  BY <1>1, <1>2, <1>3, SpendSteps

LEMMA TranscriptKeeps ==
    ASSUME TranscriptInv, [LedgersNext]_ledgerVars
    PROVE  TranscriptInv'
<1>1. CASE UNCHANGED transcriptVars
  BY <1>1 DEF transcriptVars, TranscriptInv, TranscriptRows
<1> QED
  BY <1>1, TranscriptSteps, ShipLinesStep

(* Receipts stand, and stay behind what was acknowledged.                  *)
LEMMA SpendIsRegister ==
    ASSUME SpendInv, [LedgersNext]_ledgerVars
    PROVE  [Receipts!RegisterNext]_<<ledger, acked>>
<1>1. CASE \E p \in Poster : FinishBatch(p) /\ Replays(posts[p])
  <2>1. PICK p \in Poster : FinishBatch(p) /\ Replays(posts[p])
    BY <1>1
  <2>2. Receipts!EntriesStand
    BY <2>1, CommitFacts DEF Receipts!EntriesStand
  <2>3. Receipts!PromisesKept
    BY <2>1, CommitAcks DEF Receipts!PromisesKept
  <2> QED
    BY <2>2, <2>3 DEF Receipts!RegisterNext
<1>2. CASE ~ \E p \in Poster : FinishBatch(p) /\ Replays(posts[p])
  BY <1>2, SpendSteps DEF SendBatch, PostStep, InsertRow, DeadlockVictim, FinishBatch, spendVars
<1> QED
  BY <1>1, <1>2

LEMMA TranscriptIsRegister ==
    ASSUME TranscriptInv, [LedgersNext]_ledgerVars
    PROVE  [Records!RegisterNext]_<<transcript, ShippedLines>>
<1>1. CASE UNCHANGED transcriptVars
  BY <1>1 DEF transcriptVars, ShippedLines
<1>2. CASE \E h \in Hub, from, to \in Nat \ {0} : ShipLines(h, from, to)
  <2>1. PICK h \in Hub, from, to \in Nat \ {0} : ShipLines(h, from, to)
    BY <1>2
  <2>2. Records!EntriesStand
    BY <2>1, ShipFacts DEF Records!EntriesStand
  <2>3. ShippedLines \subseteq ShippedLines'
    BY <2>1, ShipShipped DEF ShippedLines
  <2>4. ASSUME NEW x \in ShippedLines' PROVE x[1] \in DOMAIN transcript' /\ transcript'[x[1]] = x[2]
    <3>1. PICK i \in Hub : x \in {<<n, Journal[i][n]>> : n \in shipped'[i]}
      BY DEF ShippedLines
    <3>2. PICK n \in shipped'[i] : x = <<n, Journal[i][n]>>
      BY <3>1
    <3> QED
      BY <2>1, <3>2, ShipShipped
  <2> QED
    BY <2>2, <2>3, <2>4 DEF Records!RegisterNext, Records!PromisesKept
<1> QED
  BY <1>1, <1>2, TranscriptSteps

(* For any number of clients, batches, retries and forks of a journal: the *)
(* receipts and the transcripts implement the register, entries stand and  *)
(* what was acknowledged is stored (the two append operations).            *)
THEOREM LedgersAreRegistersHolds == LedgersSpec => LedgersAreRegisters
<1>1. LedgersInit => SpendInv /\ TranscriptInv /\ Receipts!RegisterInit /\ Records!RegisterInit
  BY RegistersStart
<1>2. SpendInv /\ [LedgersNext]_ledgerVars
      => SpendInv' /\ [Receipts!RegisterNext]_<<ledger, acked>>
  BY SpendKeeps, SpendIsRegister
<1>3. TranscriptInv /\ [LedgersNext]_ledgerVars
      => TranscriptInv' /\ [Records!RegisterNext]_<<transcript, ShippedLines>>
  BY TranscriptKeeps, TranscriptIsRegister
<1> QED
  BY <1>1, <1>2, <1>3, PTL
  DEF LedgersSpec, LedgersAreRegisters, Receipts!RegisterSpec, Records!RegisterSpec

-----------------------------------------------------------------------------
(* Invoices: the lock of an identity is held from the read to the write.   *)

BillOK(b) ==
    bills[b].pc = "write" =>
        /\ bills[b].ref \in InvoiceId /\ bills[b].amount \in Nat
        /\ invoiceLock[bills[b].ref] = b
        /\ bills[b].existing = {n \in DOMAIN invoices : invoices[n].ref = bills[b].ref}

OneRowEach == \A m, n \in DOMAIN invoices : invoices[m].ref = invoices[n].ref => m = n

InvoiceInv ==
    /\ invoices \in Seq(InvoiceRow)
    /\ DOMAIN bills = Biller /\ DOMAIN invoiceLock = InvoiceId
    /\ \A b \in Biller : BillOK(b)
    /\ OneRowEach

LEMMA ReadInvoiceStep ==
    ASSUME InvoiceInv, NEW b \in Biller, NEW i \in InvoiceId, NEW amount \in Nat,
           ReadInvoice(b, i, amount)
    PROVE  InvoiceInv'
<1>1. /\ UNCHANGED invoices /\ invoiceLock[i] = Free
      /\ DOMAIN invoiceLock' = InvoiceId /\ invoiceLock'[i] = b
      /\ \A j \in InvoiceId \ {i} : invoiceLock'[j] = invoiceLock[j]
  BY DEF ReadInvoice, InvoiceFree, InvoiceInv
<1>2. /\ DOMAIN bills' = Biller /\ \A c \in Biller \ {b} : bills'[c] = bills[c]
      /\ bills'[b].pc = "write" /\ bills'[b].ref = i /\ bills'[b].amount = amount
      /\ bills'[b].existing = {n \in DOMAIN invoices : invoices[n].ref = i}
  BY DEF ReadInvoice, InvoiceInv
<1>3. BillOK(b)'
  BY <1>1, <1>2 DEF BillOK
<1>4. ASSUME NEW c \in Biller \ {b} PROVE BillOK(c)'
  <2>1. BillOK(c) /\ c # Free
    BY LedgersAssumption DEF InvoiceInv, Free
  <2> QED
    BY <1>1, <1>2, <2>1 DEF BillOK
<1> QED
  BY <1>1, <1>2, <1>3, <1>4 DEF InvoiceInv, OneRowEach

LEMMA WriteInvoiceStep ==
    ASSUME InvoiceInv, NEW b \in Biller, WriteInvoice(b)
    PROVE  InvoiceInv'
<1>1. PICK ref, amount : ref = bills[b].ref /\ amount = bills[b].amount
  OBVIOUS
<1>2. /\ ref \in InvoiceId /\ amount \in Nat /\ invoiceLock[ref] = b
      /\ bills[b].existing = {n \in DOMAIN invoices : invoices[n].ref = ref}
  BY <1>1 DEF InvoiceInv, BillOK, WriteInvoice
<1>3. /\ DOMAIN bills' = Biller /\ bills'[b].pc = "quiet"
      /\ \A c \in Biller \ {b} : bills'[c] = bills[c]
      /\ DOMAIN invoiceLock' = InvoiceId
      /\ \A j \in InvoiceId \ {ref} : invoiceLock'[j] = invoiceLock[j]
  BY <1>1 DEF WriteInvoice, InvoiceInv, Quiet
<1>4. \A c \in Biller \ {b} : bills[c].pc = "write" => bills[c].ref # ref
  BY <1>2 DEF InvoiceInv, BillOK
<1>5. CASE bills[b].existing # {}
  <2>1. invoices' = invoices
    BY <1>5 DEF WriteInvoice
  <2>2. \A c \in Biller : BillOK(c)'
    BY <1>3, <1>4, <2>1 DEF InvoiceInv, BillOK
  <2> QED
    BY <1>3, <2>1, <2>2 DEF InvoiceInv, OneRowEach
<1>6. CASE bills[b].existing = {}
  <2>1. PICK row : row = [ref |-> ref, amount |-> amount]
    OBVIOUS
  <2>2. row \in InvoiceRow /\ row.ref = ref /\ invoices' = Append(invoices, row)
    BY <1>1, <1>2, <1>6, <2>1 DEF InvoiceRow, WriteInvoice
  <2>3. /\ invoices' \in Seq(InvoiceRow)
        /\ DOMAIN invoices' = DOMAIN invoices \cup {Len(invoices) + 1}
        /\ Len(invoices) + 1 \notin DOMAIN invoices
        /\ \A k \in DOMAIN invoices : invoices'[k] = invoices[k]
        /\ invoices'[Len(invoices) + 1] = row
    BY <2>2, AppendFacts DEF InvoiceInv
  <2>4. \A k \in DOMAIN invoices : invoices[k].ref # ref
    BY <1>2, <1>6
  <2>5. OneRowEach'
    BY <2>2, <2>3, <2>4 DEF InvoiceInv, OneRowEach
  <2>6. ASSUME NEW c \in Biller, bills'[c].pc = "write" PROVE BillOK(c)'
    <3>1. c # b /\ bills'[c] = bills[c] /\ bills[c].ref # ref
      BY <1>3, <1>4, <2>6
    <3>2. {n \in DOMAIN invoices' : invoices'[n].ref = bills[c].ref}
          = {n \in DOMAIN invoices : invoices[n].ref = bills[c].ref}
      BY <2>2, <2>3, <3>1
    <3> QED
      BY <1>3, <2>6, <3>1, <3>2 DEF InvoiceInv, BillOK
  <2> QED
    BY <1>3, <2>3, <2>5, <2>6 DEF InvoiceInv, BillOK
<1> QED
  BY <1>5, <1>6

LEMMA InvoiceKeeps ==
    ASSUME InvoiceInv, [LedgersNext]_ledgerVars
    PROVE  InvoiceInv'
<1>1. \/ \E b \in Biller, i \in InvoiceId, amount \in Nat : ReadInvoice(b, i, amount)
      \/ \E b \in Biller : WriteInvoice(b)
      \/ UNCHANGED invoiceVars
  BY DEF LedgersNext, ledgerVars, SendBatch, PostStep, InsertRow, DeadlockVictim, FinishBatch,
         Bill, ReconcileStep, BeginReconcile, ReadLedger, AskBroker, CommitObservation, ShipLines
<1>2. CASE UNCHANGED invoiceVars
  BY <1>2 DEF invoiceVars, InvoiceInv, BillOK, OneRowEach
<1> QED
  BY <1>1, <1>2, ReadInvoiceStep, WriteInvoiceStep

-----------------------------------------------------------------------------
(* Observations: a row that will be the baseline is written before any     *)
(* other success.                                                          *)

ReconOK(r) ==
    /\ recon[r].pc \in {"broker", "commit"} => reconLock = r
    /\ recon[r].pc = "commit" /\ recon[r].row.status = "baseline" => Successful = {}

OneBaseline ==
    \A m, n \in DOMAIN observations :
        observations[m].status = "baseline" /\ observations[n].status = "baseline" => m = n

ReconInv ==
    /\ \E S : observations \in Seq(S)
    /\ DOMAIN recon = Spine /\ \A r \in Spine : ReconOK(r)
    /\ OneBaseline

(* A process moves and writes nothing.                                     *)
LEMMA SpineMoves ==
    ASSUME ReconInv, UNCHANGED observations, NEW r \in Spine, NEW c,
           recon' = [recon EXCEPT ![r] = c],
           \A t \in Spine \ {r} : reconLock = t => reconLock' = t,
           c.pc \in {"broker", "commit"} => reconLock' = r,
           c.pc = "commit" /\ c.row.status = "baseline" => Successful = {}
    PROVE  ReconInv'
<1>1. /\ DOMAIN recon' = Spine /\ recon'[r] = c
      /\ \A t \in Spine \ {r} : recon'[t] = recon[t]
  BY DEF ReconInv
<1>2. Successful' = Successful
  BY DEF Successful
<1>3. \A t \in Spine : ReconOK(t)'
  BY <1>1, <1>2 DEF ReconInv, ReconOK
<1> QED
  BY <1>1, <1>3 DEF ReconInv, OneBaseline

LEMMA CommitObservationStep ==
    ASSUME ReconInv, NEW r \in Spine, CommitObservation(r)
    PROVE  ReconInv'
<1>1. PICK row : row = recon[r].row
  OBVIOUS
<1>2. /\ reconLock = r /\ observations' = Append(observations, row)
      /\ row.status = "baseline" => Successful = {}
  BY <1>1 DEF ReconInv, ReconOK, CommitObservation
<1>3. PICK S : observations \in Seq(S)
  BY DEF ReconInv
<1>4. /\ observations' \in Seq(S \cup {row})
      /\ DOMAIN observations' = DOMAIN observations \cup {Len(observations) + 1}
      /\ \A k \in DOMAIN observations : observations'[k] = observations[k]
      /\ observations'[Len(observations) + 1] = row
  <2>1. row \in S \cup {row} /\ S \subseteq S \cup {row}
    OBVIOUS
  <2> QED
    BY <1>2, <1>3, <2>1, AppendFacts
<1>5. OneBaseline'
  BY <1>2, <1>4 DEF ReconInv, OneBaseline, Successful
<1>6. /\ DOMAIN recon' = Spine /\ recon'[r].pc = "quiet"
      /\ \A t \in Spine \ {r} : recon'[t] = recon[t]
  BY DEF ReconInv, CommitObservation, Quiet
<1>7. \A t \in Spine : ReconOK(t)'
  BY <1>2, <1>6 DEF ReconInv, ReconOK
<1> QED
  BY <1>4, <1>5, <1>6, <1>7 DEF ReconInv

LEMMA AskBrokerStep ==
    ASSUME ReconInv, NEW r \in Spine, AskBroker(r)
    PROVE  ReconInv'
<1>1. PICK row \in {Observation(r, broker), Unavailable(recon[r].ts)} :
          recon' = [recon EXCEPT ![r] = [pc |-> "commit", row |-> row]]
  BY DEF AskBroker
<1>2. row.status = "baseline" => Successful = {}
  BY <1>1 DEF Observation, Unavailable
<1>3. PICK c : c = [pc |-> "commit", row |-> row]
  OBVIOUS
<1>4. c.pc = "commit" /\ c.row = row
  BY <1>3
<1>5. reconLock = r /\ UNCHANGED <<observations, reconLock>>
  BY DEF AskBroker, ReconInv, ReconOK
<1> QED
  BY <1>1, <1>2, <1>3, <1>4, <1>5, SpineMoves

LEMMA ReconcileSteps ==
    ASSUME ReconInv, NEW r \in Spine, ReconcileStep(r)
    PROVE  ReconInv'
<1>1. CASE BeginReconcile(r)
  <2>1. PICK c : c = [pc |-> "lock", ts |-> begun + 1]
    OBVIOUS
  <2>2. c.pc = "lock"
    BY <2>1
  <2> QED
    BY <1>1, <2>1, <2>2, SpineMoves DEF BeginReconcile
<1>2. CASE ReadLedger(r)
  <2>1. PICK c : c = [pc |-> "broker", ts |-> recon[r].ts, ledger |-> LedgerTotal]
    OBVIOUS
  <2>2. c.pc = "broker"
    BY <2>1
  <2>3. \A t \in Spine : reconLock # t
    BY <1>2, LedgersAssumption DEF ReadLedger, ReconFree, Free
  <2> QED
    BY <1>2, <2>1, <2>2, <2>3, SpineMoves DEF ReadLedger
<1> QED
  BY <1>1, <1>2, AskBrokerStep, CommitObservationStep DEF ReconcileStep

LEMMA ReconKeeps ==
    ASSUME ReconInv, [LedgersNext]_ledgerVars
    PROVE  ReconInv'
<1>1. \/ \E r \in Spine : ReconcileStep(r)
      \/ UNCHANGED <<observations, recon, reconLock>>
  BY DEF LedgersNext, ledgerVars, reconVars, SendBatch, PostStep, InsertRow, DeadlockVictim,
         FinishBatch, ReadInvoice, WriteInvoice, Bill, ShipLines
<1>2. CASE UNCHANGED <<observations, recon, reconLock>>
  BY <1>2 DEF ReconInv, ReconOK, OneBaseline, Successful
<1> QED
  BY <1>1, <1>2, ReconcileSteps

LEMMA LocksInvHolds == LedgersSpec => [](InvoiceInv /\ ReconInv)
<1>1. LedgersInit => InvoiceInv /\ ReconInv
  <2> SUFFICES ASSUME LedgersInit PROVE InvoiceInv /\ ReconInv
    OBVIOUS
  <2>1. InvoiceInv
    BY DEF LedgersInit, InvoiceInv, BillOK, OneRowEach, Quiet
  <2>2. observations \in Seq({})
    BY DEF LedgersInit
  <2> QED
    BY <2>1, <2>2 DEF LedgersInit, ReconInv, ReconOK, OneBaseline, Quiet
<1>2. InvoiceInv /\ ReconInv /\ [LedgersNext]_ledgerVars => (InvoiceInv /\ ReconInv)'
  BY InvoiceKeeps, ReconKeeps
<1> QED
  BY <1>1, <1>2, PTL DEF LedgersSpec

(* Any number of requests and processes: the two advisory locks do what    *)
(* the tables have no key for, one row per invoice and one baseline        *)
(* (invoice, reconcile_once).                                              *)
THEOREM LocksStandForKeysHolds == LedgersSpec => []LocksStandForKeys
<1>1. InvoiceInv /\ ReconInv => LocksStandForKeys
  BY DEF InvoiceInv, OneRowEach, ReconInv, OneBaseline, LocksStandForKeys
<1> QED
  BY <1>1, LocksInvHolds, PTL

-----------------------------------------------------------------------------
(* Types of the observations: the receipts are finitely many, so they add  *)
(* up to a natural number, and it never goes down.                         *)

LedgerFinite == IsFiniteSet(DOMAIN ledger)

LEMMA LedgerTotalIsTotal ==
    ASSUME NEW c, c = [u \in DOMAIN ledger |-> Cost[ledger[u]]]
    PROVE  LedgerTotal = Total(c, DOMAIN ledger)
BY DEF LedgerTotal, MapThenSumSet, MapThenFoldSet, Total, SumOf, Sums, One

LEMMA LedgerTotalIsTotalNext ==
    ASSUME NEW c, c = [u \in DOMAIN ledger' |-> Cost[ledger'[u]]]
    PROVE  LedgerTotal' = Total(c, DOMAIN ledger')
BY DEF LedgerTotal, MapThenSumSet, MapThenFoldSet, Total, SumOf, Sums, One

LEMMA ReceiptCosts ==
    ASSUME SpendInv
    PROVE  \A u \in DOMAIN ledger : Cost[ledger[u]] \in Nat
BY LedgersAssumption DEF SpendInv, ReceiptRows

LEMMA LedgerTotalIsNat ==
    ASSUME SpendInv, LedgerFinite
    PROVE  LedgerTotal \in Nat
<1>1. PICK c : c = [u \in DOMAIN ledger |-> Cost[ledger[u]]]
  OBVIOUS
<1>2. Amounts(c, DOMAIN ledger)
  BY <1>1, ReceiptCosts DEF Amounts
<1> QED
  BY <1>1, <1>2, LedgerTotalIsTotal, TotalFacts DEF LedgerFinite

(* A batch has finitely many rows.                                         *)
LEMMA BatchIsFinite ==
    ASSUME SpendInv, NEW p \in Poster, posts[p].pc = "insert"
    PROVE  IsFiniteSet(posts[p].mine)
<1>1. PICK q : q = posts[p]
  OBVIOUS
<1>2. /\ q.uids \in Seq(Uid) /\ \A u \in q.mine : \E k \in DOMAIN q.uids : q.uids[k] = u
  BY <1>1 DEF SpendInv, PostOK, PostRow
<1>3. PICK n \in Nat : DOMAIN q.uids = 1 .. n
  BY <1>2
<1> DEFINE T == {q.uids[k] : k \in 1 .. n}
           f == [k \in 1 .. n |-> q.uids[k]]
<1>4. IsFiniteSet(1 .. n)
  BY FS_Interval
<1>5. f \in Surjection(1 .. n, T)
  BY DEF Surjection
<1> HIDE DEF f
<1>6. IsFiniteSet(T)
  BY <1>4, <1>5, FS_Surjection
<1>7. q.mine \in SUBSET T
  BY <1>2, <1>3
<1> HIDE DEF T
<1> QED
  BY <1>1, <1>6, <1>7, FS_Subset

(* The receipts stay as they are, and finitely many are added.             *)
LEMMA LedgerGrows ==
    ASSUME SpendInv, LedgerFinite, [LedgersNext]_ledgerVars
    PROVE  /\ LedgerFinite' /\ DOMAIN ledger \subseteq DOMAIN ledger'
           /\ \A u \in DOMAIN ledger : ledger'[u] = ledger[u]
<1>1. CASE \E p \in Poster : FinishBatch(p) /\ Replays(posts[p])
  <2>1. PICK p \in Poster : FinishBatch(p) /\ Replays(posts[p])
    BY <1>1
  <2>2. /\ DOMAIN ledger' = DOMAIN ledger \cup posts[p].mine
        /\ \A u \in DOMAIN ledger : ledger'[u] = ledger[u]
    BY <2>1, CommitFacts
  <2>3. IsFiniteSet(posts[p].mine)
    BY <2>1, BatchIsFinite DEF FinishBatch
  <2>4. IsFiniteSet(DOMAIN ledger')
    BY <2>2, <2>3, FS_Union DEF LedgerFinite
  <2> QED
    BY <2>2, <2>4 DEF LedgerFinite
<1>2. CASE UNCHANGED ledger
  BY <1>2 DEF LedgerFinite
<1>3. (\E p \in Poster : FinishBatch(p) /\ Replays(posts[p])) \/ UNCHANGED ledger
  BY DEF LedgersNext, ledgerVars, spendVars, SendBatch, PostStep, InsertRow, DeadlockVictim,
         FinishBatch, ReadInvoice, WriteInvoice, Bill, ReconcileStep, BeginReconcile, ReadLedger,
         AskBroker, CommitObservation, ShipLines
<1> QED
  BY <1>1, <1>2, <1>3

LEMMA LedgerTotalGrows ==
    ASSUME SpendInv, LedgerFinite, [LedgersNext]_ledgerVars
    PROVE  LedgerTotal \in Nat /\ LedgerTotal' \in Nat /\ LedgerTotal <= LedgerTotal'
<1>1. SpendInv' /\ LedgerFinite'
  BY SpendKeeps, LedgerGrows
<1>2. PICK c, d : /\ c = [u \in DOMAIN ledger |-> Cost[ledger[u]]]
                  /\ d = [u \in DOMAIN ledger' |-> Cost[ledger'[u]]]
  OBVIOUS
<1>3. LedgerTotal = Total(c, DOMAIN ledger) /\ LedgerTotal' = Total(d, DOMAIN ledger')
  BY <1>2, LedgerTotalIsTotal, LedgerTotalIsTotalNext
<1>4. PICK D, E : D = DOMAIN ledger /\ E = DOMAIN ledger'
  OBVIOUS
<1>5. IsFiniteSet(D) /\ IsFiniteSet(E) /\ D \subseteq E
  BY <1>1, <1>4, LedgerGrows DEF LedgerFinite
<1>6. Amounts(c, D)
  BY <1>2, <1>4, ReceiptCosts DEF Amounts
<1>7. Amounts(d, E)
  <2>1. \A u \in DOMAIN ledger' : Cost[ledger'[u]] \in Nat
    BY <1>1, LedgersAssumption DEF SpendInv, ReceiptRows
  <2> QED
    BY <1>2, <1>4, <2>1 DEF Amounts
<1>8. \A u \in D : d[u] = c[u]
  BY <1>2, <1>4, <1>5, LedgerGrows
<1>9. Total(d, D) = Total(c, D)
  BY <1>5, <1>6, <1>8, TotalSame
<1>10. Total(d, E) \in Nat /\ Total(d, D) \in Nat /\ Total(d, D) <= Total(d, E)
  BY <1>5, <1>7, TotalGrows
<1> QED
  BY <1>3, <1>4, <1>9, <1>10

Measured(n) ==
    /\ observations[n] \in ObservationRow
    /\ observations[n].status # "unavailable"
       => observations[n].broker \in Nat /\ observations[n].ledger \in Nat

ReconRow(r) ==
    /\ recon[r].pc \in {"lock", "broker"} => recon[r].ts \in Nat
    /\ recon[r].pc = "broker" => recon[r].ledger \in Nat
    /\ recon[r].pc = "commit" => recon[r].row \in ObservationRow

ReconTypes ==
    /\ observations \in Seq(ObservationRow) /\ broker \in Nat /\ begun \in Nat
    /\ DOMAIN recon = Spine /\ \A r \in Spine : ReconRow(r)

LEMMA RowsAreMeasured ==
    ASSUME ReconTypes, NEW n \in DOMAIN observations
    PROVE  Measured(n) /\ observations[n].ts \in Nat
<1>1. observations[n] \in ObservationRow
  BY DEF ReconTypes
<1> QED
  BY <1>1 DEF Measured, ObservationRow

LEMMA BaselineIsSuccessful ==
    ASSUME ReconTypes, Successful # {}
    PROVE  Baseline(Successful) \in Successful
<1>1. \A n \in Successful : observations[n].ts \in Nat
  BY RowsAreMeasured DEF Successful
<1>2. PICK x \in {observations[n].ts : n \in Successful} :
          \A y \in {observations[n].ts : n \in Successful} : x <= y
  BY <1>1, SmallestExists
<1>3. \E n \in Successful : \A m \in Successful : observations[n].ts <= observations[m].ts
  BY <1>2
<1> QED
  BY <1>3 DEF Baseline

LEMMA ObservationIsRow ==
    ASSUME ReconTypes, NEW r \in Spine, recon[r].pc = "broker"
    PROVE  Observation(r, broker) \in ObservationRow /\ Unavailable(recon[r].ts) \in ObservationRow
<1>1. PICK ts, total : ts = recon[r].ts /\ total = recon[r].ledger
  OBVIOUS
<1>2. ts \in Nat /\ total \in Nat /\ broker \in Nat
  BY <1>1 DEF ReconTypes, ReconRow
<1>3. Unavailable(ts) \in ObservationRow
  BY <1>2 DEF Unavailable, ObservationRow
<1>4. CASE Successful = {}
  <2>1. Observation(r, broker) = [ts |-> ts, status |-> "baseline", broker |-> broker,
                                  ledger |-> total, drift |-> 0]
    BY <1>1, <1>4 DEF Observation
  <2> QED
    BY <1>1, <1>2, <1>3, <2>1 DEF ObservationRow
<1>5. CASE Successful # {}
  <2>1. PICK b : b = observations[Baseline(Successful)]
    OBVIOUS
  <2>2. b.broker \in Nat /\ b.ledger \in Nat
    BY <1>5, <2>1, BaselineIsSuccessful, RowsAreMeasured DEF Measured, Successful
  <2>3. PICK drift : drift = (total - b.ledger) - (broker - b.broker)
    OBVIOUS
  <2>4. drift \in Int
    BY <1>2, <2>2, <2>3
  <2>5. PICK status : status = IF Abs(drift) > Tolerance THEN "drift" ELSE "balanced"
    OBVIOUS
  <2>6. [ts |-> ts, status |-> status, broker |-> broker, ledger |-> total, drift |-> drift]
        \in ObservationRow
    BY <1>2, <2>4, <2>5 DEF ObservationRow
  <2>7. Observation(r, broker)
        = IF broker < b.broker \/ total < b.ledger THEN Unavailable(ts)
          ELSE [ts |-> ts, status |-> status, broker |-> broker, ledger |-> total,
                drift |-> drift]
    BY <1>1, <1>5, <2>1, <2>3, <2>5 DEF Observation
  <2> QED
    BY <1>1, <1>3, <2>6, <2>7
<1> QED
  BY <1>4, <1>5

LEMMA SpineTypes ==
    ASSUME ReconTypes, NEW r \in Spine, NEW c, recon' = [recon EXCEPT ![r] = c],
           observations' \in Seq(ObservationRow), broker' = broker, begun' \in Nat,
           c.pc \in {"lock", "broker"} => c.ts \in Nat,
           c.pc = "broker" => c.ledger \in Nat,
           c.pc = "commit" => c.row \in ObservationRow
    PROVE  ReconTypes'
<1>1. /\ DOMAIN recon' = Spine /\ recon'[r] = c
      /\ \A t \in Spine \ {r} : recon'[t] = recon[t]
  BY DEF ReconTypes
<1>2. \A t \in Spine : ReconRow(t)'
  BY <1>1 DEF ReconTypes, ReconRow
<1> QED
  BY <1>1, <1>2 DEF ReconTypes

LEMMA ReconTypesKept ==
    ASSUME ReconTypes, LedgerTotal \in Nat, [LedgersNext]_ledgerVars
    PROVE  ReconTypes'
<1>1. ASSUME NEW r \in Spine, BeginReconcile(r) PROVE ReconTypes'
  <2>1. PICK c : c = [pc |-> "lock", ts |-> begun + 1]
    OBVIOUS
  <2>2. c.pc = "lock" /\ c.ts \in Nat /\ begun' \in Nat /\ observations' \in Seq(ObservationRow)
    BY <1>1, <2>1 DEF ReconTypes, BeginReconcile
  <2> QED
    BY <1>1, <2>1, <2>2, SpineTypes DEF BeginReconcile
<1>2. ASSUME NEW r \in Spine, ReadLedger(r) PROVE ReconTypes'
  <2>1. PICK c : c = [pc |-> "broker", ts |-> recon[r].ts, ledger |-> LedgerTotal]
    OBVIOUS
  <2>2. recon[r].ts \in Nat
    BY <1>2 DEF ReconTypes, ReconRow, ReadLedger
  <2>3. c.pc = "broker" /\ c.ts \in Nat /\ c.ledger \in Nat
    BY <2>1, <2>2
  <2> QED
    BY <1>2, <2>1, <2>3, SpineTypes DEF ReadLedger, ReconTypes
<1>3. ASSUME NEW r \in Spine, AskBroker(r) PROVE ReconTypes'
  <2>1. PICK row \in {Observation(r, broker), Unavailable(recon[r].ts)} :
            recon' = [recon EXCEPT ![r] = [pc |-> "commit", row |-> row]]
    BY <1>3 DEF AskBroker
  <2>2. PICK c : c = [pc |-> "commit", row |-> row]
    OBVIOUS
  <2>3. c.pc = "commit" /\ c.row \in ObservationRow
    BY <1>3, <2>1, <2>2, ObservationIsRow DEF AskBroker
  <2> QED
    BY <1>3, <2>1, <2>2, <2>3, SpineTypes DEF AskBroker, ReconTypes
<1>4. ASSUME NEW r \in Spine, CommitObservation(r) PROVE ReconTypes'
  <2>1. PICK c : c = Quiet
    OBVIOUS
  <2>2. c.pc = "quiet"
    BY <2>1 DEF Quiet
  <2>3. recon[r].row \in ObservationRow
    BY <1>4 DEF CommitObservation, ReconTypes, ReconRow
  <2>4. observations' \in Seq(ObservationRow)
    BY <1>4, <2>3, AppendFacts DEF CommitObservation, ReconTypes
  <2> QED
    BY <1>4, <2>1, <2>2, <2>4, SpineTypes DEF CommitObservation, ReconTypes
<1>5. ASSUME NEW line \in Line, Bill(line) PROVE ReconTypes'
  <2>1. Cost[line] \in Nat
    BY LedgersAssumption
  <2> QED
    BY <1>5, <2>1 DEF Bill, ReconTypes, ReconRow
<1>6. \/ \E r \in Spine : ReconcileStep(r)
      \/ \E line \in Line : Bill(line)
      \/ UNCHANGED reconVars
  BY DEF LedgersNext, ledgerVars, reconVars, SendBatch, PostStep, InsertRow, DeadlockVictim,
         FinishBatch, ReadInvoice, WriteInvoice, ShipLines
<1>7. CASE UNCHANGED reconVars
  BY <1>7 DEF reconVars, ReconTypes, ReconRow
<1> QED
  BY <1>1, <1>2, <1>3, <1>4, <1>5, <1>6, <1>7 DEF ReconcileStep

(* Every row of the three tables is well formed; in particular the         *)
(* receipts add up, and the growth of an observation is taken from a       *)
(* baseline that has amounts (_successful_row).                            *)
THEOREM LedgerTypesHold == LedgersSpec => []LedgerTypes
<1>1. LedgersInit => SpendInv /\ TranscriptInv
  BY RegistersStart
<1>2. LedgersInit => ReconTypes /\ LedgerFinite
  BY FS_EmptySet DEF LedgersInit, ReconTypes, ReconRow, Quiet, LedgerFinite
<1>3. SpendInv /\ LedgerFinite /\ [LedgersNext]_ledgerVars => SpendInv' /\ LedgerFinite'
  BY SpendKeeps, LedgerGrows
<1>4. TranscriptInv /\ [LedgersNext]_ledgerVars => TranscriptInv'
  BY TranscriptKeeps
<1>5. ReconTypes /\ SpendInv /\ LedgerFinite /\ [LedgersNext]_ledgerVars => ReconTypes'
  BY ReconTypesKept, LedgerTotalIsNat
<1>6. SpendInv /\ TranscriptInv /\ ReconTypes /\ InvoiceInv => LedgerTypes
  BY DEF SpendInv, TranscriptInv, ReconTypes, InvoiceInv, LedgerTypes
<1> QED
  BY <1>1, <1>2, <1>3, <1>4, <1>5, <1>6, LocksInvHolds, PTL DEF LedgersSpec

-----------------------------------------------------------------------------
(* Growth.  Whoever reads the ledger has the lock until its row is in, so  *)
(* no row it is compared with was read later.                              *)

NotAhead(row) ==
    row.status # "unavailable" => row.ledger <= LedgerTotal /\ row.broker <= broker

GrowthOK(r) ==
    /\ recon[r].pc = "broker"
       => /\ recon[r].ledger <= LedgerTotal
          /\ \A n \in Successful : observations[n].ledger <= recon[r].ledger
    /\ recon[r].pc = "commit" => NotAhead(recon[r].row)

GrowthInv ==
    /\ \A n \in DOMAIN observations : NotAhead(observations[n])
    /\ \A r \in Spine : GrowthOK(r)

(* Both totals only go up.                                                 *)
LEMMA TotalsGrow ==
    ASSUME SpendInv, LedgerFinite, ReconTypes, [LedgersNext]_ledgerVars
    PROVE  /\ LedgerTotal \in Nat /\ LedgerTotal' \in Nat /\ LedgerTotal <= LedgerTotal'
           /\ broker \in Nat /\ broker' \in Nat /\ broker <= broker'
<1>1. \/ \E line \in Line : broker' = broker + Cost[line]
      \/ UNCHANGED broker
  BY DEF LedgersNext, ledgerVars, reconVars, SendBatch, PostStep, InsertRow, DeadlockVictim,
         FinishBatch, ReadInvoice, WriteInvoice, Bill, ReconcileStep, BeginReconcile, ReadLedger,
         AskBroker, CommitObservation, ShipLines
<1>2. \A line \in Line : Cost[line] \in Nat
  BY LedgersAssumption
<1>3. broker \in Nat
  BY DEF ReconTypes
<1> QED
  BY <1>1, <1>2, <1>3, LedgerTotalGrows

LEMMA RowStaysBehind ==
    ASSUME SpendInv, LedgerFinite, ReconTypes, [LedgersNext]_ledgerVars,
           NEW row \in ObservationRow, NotAhead(row)
    PROVE  NotAhead(row)'
<1>1. row.status # "unavailable" => row.ledger \in Nat /\ row.broker \in Nat
  BY DEF ObservationRow
<1> QED
  BY <1>1, TotalsGrow DEF NotAhead

(* The row a reconciliation computes is not ahead of the totals, and is an *)
(* answer: neither total is below the baseline's.                          *)
LEMMA AnswerIsMeasured ==
    ASSUME ReconTypes, GrowthInv, LedgerTotal \in Nat, NEW r \in Spine, recon[r].pc = "broker"
    PROVE  NotAhead(Observation(r, broker)) /\ Observation(r, broker).status # "unavailable"
<1>1. PICK ts, total : ts = recon[r].ts /\ total = recon[r].ledger
  OBVIOUS
<1>2. ts \in Nat /\ total \in Nat /\ broker \in Nat /\ total <= LedgerTotal
  BY <1>1 DEF ReconTypes, ReconRow, GrowthInv, GrowthOK
<1>3. CASE Successful = {}
  <2>1. PICK row : row = [ts |-> ts, status |-> "baseline", broker |-> broker,
                          ledger |-> total, drift |-> 0]
    OBVIOUS
  <2>2. Observation(r, broker) = row
    BY <1>1, <1>3, <2>1 DEF Observation
  <2>3. row.status = "baseline" /\ row.broker = broker /\ row.ledger = total
    BY <2>1
  <2> QED
    BY <1>2, <2>2, <2>3 DEF NotAhead
<1>4. CASE Successful # {}
  <2>1. PICK b : b = observations[Baseline(Successful)]
    OBVIOUS
  <2>2. b.broker \in Nat /\ b.ledger \in Nat /\ Baseline(Successful) \in Successful
    BY <1>4, <2>1, BaselineIsSuccessful, RowsAreMeasured DEF Measured, Successful
  <2>3. b.broker <= broker /\ b.ledger <= total
    BY <1>1, <2>1, <2>2 DEF GrowthInv, GrowthOK, NotAhead, Successful
  <2>4. PICK drift : drift = (total - b.ledger) - (broker - b.broker)
    OBVIOUS
  <2>5. PICK status : status = IF Abs(drift) > Tolerance THEN "drift" ELSE "balanced"
    OBVIOUS
  <2>6. PICK row : row = [ts |-> ts, status |-> status, broker |-> broker, ledger |-> total,
                          drift |-> drift]
    OBVIOUS
  <2>7. Observation(r, broker) = IF broker < b.broker \/ total < b.ledger THEN Unavailable(ts)
                                 ELSE row
    BY <1>1, <1>4, <2>1, <2>4, <2>5, <2>6 DEF Observation
  <2>8. Observation(r, broker) = row
    BY <1>2, <2>2, <2>3, <2>7
  <2>9. row.status # "unavailable" /\ row.broker = broker /\ row.ledger = total
    BY <2>5, <2>6
  <2> QED
    BY <1>2, <2>8, <2>9 DEF NotAhead
<1> QED
  BY <1>3, <1>4

(* Without a new row or a new reading, growth is kept.                     *)
LEMMA GrowthStays ==
    ASSUME SpendInv, LedgerFinite, ReconTypes, GrowthInv, [LedgersNext]_ledgerVars,
           UNCHANGED observations, NEW t \in Spine, recon'[t] = recon[t]
    PROVE  GrowthOK(t)'
<1>1. Successful' = Successful
  BY DEF Successful
<1>2. /\ recon[t].pc = "broker" => recon[t].ledger \in Nat
      /\ recon[t].pc = "commit" => recon[t].row \in ObservationRow
  BY DEF ReconTypes, ReconRow
<1>3. recon[t].pc = "broker" => recon[t].ledger <= LedgerTotal'
  BY <1>2, TotalsGrow DEF GrowthInv, GrowthOK
<1>4. recon[t].pc = "commit" => NotAhead(recon[t].row)'
  <2> SUFFICES ASSUME recon[t].pc = "commit" PROVE NotAhead(recon[t].row)'
    OBVIOUS
  <2>1. PICK row \in ObservationRow : row = recon[t].row /\ row = recon'[t].row
    BY <1>2
  <2>2. NotAhead(row)'
    BY <2>1, RowStaysBehind DEF GrowthInv, GrowthOK
  <2> QED
    BY <2>1, <2>2 DEF NotAhead
<1> QED
  BY <1>1, <1>3, <1>4 DEF GrowthInv, GrowthOK, NotAhead

LEMMA RowsStayBehind ==
    ASSUME SpendInv, LedgerFinite, ReconTypes, GrowthInv, [LedgersNext]_ledgerVars
    PROVE  \A n \in DOMAIN observations : NotAhead(observations[n])'
                                          \/ observations'[n] # observations[n]
<1> SUFFICES ASSUME NEW n \in DOMAIN observations, observations'[n] = observations[n]
             PROVE  NotAhead(observations[n])'
  OBVIOUS
<1>1. PICK row : row = observations[n]
  OBVIOUS
<1>2. row \in ObservationRow /\ NotAhead(row)
  BY <1>1 DEF ReconTypes, GrowthInv
<1>3. NotAhead(row)'
  BY <1>2, RowStaysBehind
<1> QED
  BY <1>1, <1>3 DEF NotAhead

LEMMA GrowthKeeps ==
    ASSUME SpendInv, LedgerFinite, ReconTypes, ReconInv, GrowthInv, [LedgersNext]_ledgerVars
    PROVE  GrowthInv'
<1>0. LedgerTotal \in Nat
  BY LedgerTotalIsNat
<1>1. ASSUME UNCHANGED observations, NEW r \in Spine, NEW c, recon' = [recon EXCEPT ![r] = c],
             GrowthOK(r)'
      PROVE  GrowthInv'
  <2>1. \A t \in Spine \ {r} : recon'[t] = recon[t]
    BY <1>1 DEF ReconTypes
  <2>2. \A t \in Spine : GrowthOK(t)'
    BY <1>1, <2>1, GrowthStays
  <2>3. \A n \in DOMAIN observations : NotAhead(observations[n])'
    BY <1>1, RowsStayBehind
  <2> QED
    BY <1>1, <2>2, <2>3 DEF GrowthInv
<1>2. ASSUME NEW r \in Spine, BeginReconcile(r) PROVE GrowthInv'
  <2>1. PICK c : c = [pc |-> "lock", ts |-> begun + 1]
    OBVIOUS
  <2>2. recon' = [recon EXCEPT ![r] = c] /\ UNCHANGED observations /\ c.pc = "lock" /\ recon'[r] = c
    BY <1>2, <2>1 DEF BeginReconcile, ReconTypes
  <2> QED
    BY <1>1, <2>2 DEF GrowthOK
<1>3. ASSUME NEW r \in Spine, ReadLedger(r) PROVE GrowthInv'
  <2>1. PICK c : c = [pc |-> "broker", ts |-> recon[r].ts, ledger |-> LedgerTotal]
    OBVIOUS
  <2>2. /\ recon' = [recon EXCEPT ![r] = c] /\ UNCHANGED <<observations, ledger>>
        /\ c.pc = "broker" /\ c.ledger = LedgerTotal /\ recon'[r] = c
    BY <1>3, <2>1 DEF ReadLedger, ReconTypes, spendVars
  <2>3. Successful' = Successful
    BY <2>2 DEF Successful
  <2>4. \A n \in Successful : observations[n].ledger <= LedgerTotal
    BY DEF GrowthInv, NotAhead, Successful
  <2>5. LedgerTotal <= LedgerTotal'
    BY TotalsGrow
  <2>6. GrowthOK(r)'
    BY <2>2, <2>3, <2>4, <2>5 DEF GrowthOK
  <2> QED
    BY <1>1, <2>2, <2>6
<1>4. ASSUME NEW r \in Spine, AskBroker(r) PROVE GrowthInv'
  <2>1. PICK row \in {Observation(r, broker), Unavailable(recon[r].ts)} :
            recon' = [recon EXCEPT ![r] = [pc |-> "commit", row |-> row]]
    BY <1>4 DEF AskBroker
  <2>2. PICK c : c = [pc |-> "commit", row |-> row]
    OBVIOUS
  <2>3. /\ recon' = [recon EXCEPT ![r] = c] /\ UNCHANGED observations
        /\ c.pc = "commit" /\ c.row = row /\ recon'[r] = c /\ recon[r].pc = "broker"
    BY <1>4, <2>1, <2>2 DEF AskBroker, ReconTypes
  <2>4. row \in ObservationRow
    BY <2>1, <2>3, ObservationIsRow
  <2>5. NotAhead(row)
    <3>1. NotAhead(Unavailable(recon[r].ts))
      BY DEF NotAhead, Unavailable
    <3> QED
      BY <1>0, <2>1, <2>3, <3>1, AnswerIsMeasured
  <2>6. NotAhead(row)'
    BY <2>4, <2>5, RowStaysBehind
  <2>7. GrowthOK(r)'
    BY <2>3, <2>6 DEF GrowthOK, NotAhead
  <2> QED
    BY <1>1, <2>3, <2>7
<1>5. ASSUME NEW r \in Spine, CommitObservation(r) PROVE GrowthInv'
  <2>1. PICK row : row = recon[r].row
    OBVIOUS
  <2>2. /\ row \in ObservationRow /\ NotAhead(row) /\ observations' = Append(observations, row)
        /\ DOMAIN recon' = Spine /\ recon'[r].pc = "quiet"
        /\ \A t \in Spine \ {r} : recon'[t] = recon[t]
    BY <1>5, <2>1 DEF CommitObservation, ReconTypes, ReconRow, GrowthInv, GrowthOK, Quiet
  <2>3. /\ DOMAIN observations' = DOMAIN observations \cup {Len(observations) + 1}
        /\ \A k \in DOMAIN observations : observations'[k] = observations[k]
        /\ observations'[Len(observations) + 1] = row
    BY <2>2, AppendFacts DEF ReconTypes
  <2>4. NotAhead(row)'
    BY <2>2, RowStaysBehind
  <2>5. \A n \in DOMAIN observations : NotAhead(observations[n])'
    BY <2>3, RowsStayBehind
  <2>6. \A n \in DOMAIN observations' : NotAhead(observations[n])'
    BY <2>3, <2>4, <2>5 DEF NotAhead
  <2>7. ASSUME NEW t \in Spine \ {r}
        PROVE  recon'[t].pc # "broker" /\ recon'[t].pc # "commit"
    <3>1. reconLock = r
      BY <1>5 DEF ReconInv, ReconOK, CommitObservation
    <3> QED
      BY <2>2, <3>1 DEF ReconInv, ReconOK
  <2>8. \A t \in Spine : GrowthOK(t)'
    BY <2>2, <2>7 DEF GrowthOK
  <2> QED
    BY <2>6, <2>8 DEF GrowthInv
<1>6. CASE UNCHANGED <<observations, recon>>
  BY <1>6, GrowthStays, RowsStayBehind DEF GrowthInv
<1>7. (\E r \in Spine : ReconcileStep(r)) \/ UNCHANGED <<observations, recon>>
  BY DEF LedgersNext, ledgerVars, reconVars, SendBatch, PostStep, InsertRow, DeadlockVictim,
         FinishBatch, ReadInvoice, WriteInvoice, Bill, ShipLines
<1> QED
  BY <1>2, <1>3, <1>4, <1>5, <1>6, <1>7 DEF ReconcileStep

(* A reconciliation that gets an answer from the broker records one: the   *)
(* ledger it read and the usage it was told are at least those of every    *)
(* row it may be compared with, although the baseline is the row with the  *)
(* oldest clock and not the first committed (_successful_row).             *)
GrowthIsNeverNegative ==
    \A r \in Spine :
        recon[r].pc = "broker" => Observation(r, broker).status # "unavailable"

(* For any number of processes, posters and receipts: negative growth, the *)
(* branch of _successful_row that turns an answer into an unavailable row, *)
(* is never reached while the broker's usage is cumulative.                *)
THEOREM GrowthIsNeverNegativeHolds == LedgersSpec => []GrowthIsNeverNegative
<1>1. LedgersInit => SpendInv
  BY RegistersStart
<1>2. LedgersInit => ReconTypes /\ LedgerFinite /\ GrowthInv
  BY FS_EmptySet DEF LedgersInit, ReconTypes, ReconRow, Quiet, LedgerFinite, GrowthInv, GrowthOK
<1>3. SpendInv /\ LedgerFinite /\ [LedgersNext]_ledgerVars => SpendInv' /\ LedgerFinite'
  BY SpendKeeps, LedgerGrows
<1>4. ReconTypes /\ SpendInv /\ LedgerFinite /\ [LedgersNext]_ledgerVars => ReconTypes'
  BY ReconTypesKept, LedgerTotalIsNat
<1>5. SpendInv /\ LedgerFinite /\ ReconTypes /\ ReconInv /\ GrowthInv /\ [LedgersNext]_ledgerVars
      => GrowthInv'
  BY GrowthKeeps
<1>6. SpendInv /\ LedgerFinite /\ ReconTypes /\ GrowthInv => GrowthIsNeverNegative
  BY LedgerTotalIsNat, AnswerIsMeasured DEF GrowthIsNeverNegative
<1> QED
  BY <1>1, <1>2, <1>3, <1>4, <1>5, <1>6, LocksInvHolds, PTL DEF LedgersSpec
=============================================================================
