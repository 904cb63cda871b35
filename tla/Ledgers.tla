------------------------------- MODULE Ledgers -------------------------------
(***************************************************************************)
(* The append-only ledgers: spend receipts and invoices                    *)
(* (src/spine/spend/service.py), the reconciliation of receipts with what  *)
(* the broker billed (reconciliation.py), and transcript records           *)
(* (src/spine/transcripts).  Clients retry, so every request may arrive    *)
(* again, late or with another content under the same identity.            *)
(***************************************************************************)
EXTENDS Integers, Sequences, FiniteSets, FiniteSetsExt

CONSTANTS
    Uid,            \* event_uids of LLM receipt lines
    Line,           \* contents a line can have under one event_uid
    Cost,           \* line -> cost_usd; an unpriced line costs nothing
    Poster,         \* requests that append a batch
    InvoiceId,      \* GCP invoices
    Biller,         \* requests that record an invoice
    Spine,          \* processes that reconcile
    Tolerance,
    Hub,            \* clients that ship a journal
    Journal,        \* hub -> its lines of the one thread, forks included
    MaxObservations \* bound on reconciliations begun

ASSUME LedgersAssumption ==
    /\ Cost \in [Line -> Nat] /\ Tolerance \in Nat /\ MaxObservations \in Nat
    /\ <<>> \notin Biller \cup Spine
    /\ \A h \in Hub : Journal[h] \in Seq(Line)

VARIABLES
    ledger,         \* spend_event rows of LLM receipts: uid -> line
    posts,          \* each append in progress
    acked,          \* receipts some client was told are accepted
    invoices,       \* spend_event rows of invoices: [ref, amount]
    bills,          \* each invoice request
    invoiceLock,    \* advisory lock of each invoice identity
    broker,         \* cumulative usage the broker reports
    observations,   \* spend_reconciliation, in commit order
    recon,          \* each reconciliation in progress
    reconLock, begun,
    transcript,     \* transcript_record of one thread
    shipped         \* hub -> sequences it was told are stored

spendVars == <<ledger, posts, acked>>
invoiceVars == <<invoices, bills, invoiceLock>>
reconVars == <<broker, observations, recon, reconLock, begun>>
transcriptVars == <<transcript, shipped>>
ledgerVars == <<spendVars, invoiceVars, reconVars, transcriptVars>>

Free == <<>>
Quiet == [pc |-> "quiet"]

(* Rows of the three tables.  An observation the broker did not answer has *)
(* no amounts.                                                             *)
ReceiptRows == UNION {[S -> Line] : S \in SUBSET Uid}
InvoiceRow == [ref : InvoiceId, amount : Nat]
ObservationRow ==
    [ts : Nat, status : {"unavailable"}]
    \cup [ts : Nat, status : {"baseline", "balanced", "drift"},
          broker : Nat, ledger : Nat, drift : Int]
TranscriptRows == Seq(Line)

-----------------------------------------------------------------------------
(* SpendService.append: one transaction, its rows inserted in turn.        *)

(* Rows a transaction still open inserted: an insert of the same uid waits.*)
Held(p) == {u \in Uid : \E q \in Poster \ {p} : posts[q].pc = "insert" /\ u \in posts[q].mine}

SendBatch(p, uids, lines) ==
    /\ posts[p] = Quiet
    /\ Len(uids) > 0 /\ \A j, k \in DOMAIN uids : uids[j] = uids[k] => j = k
    /\ posts' = [posts EXCEPT ![p] =
          [pc |-> "insert", uids |-> uids, lines |-> lines, next |-> 1, mine |-> {}]]
    /\ UNCHANGED <<ledger, acked, invoiceVars, reconVars, transcriptVars>>

(* ON CONFLICT DO NOTHING leaves a committed row as it is.                 *)
InsertRow(p) ==
    LET q == posts[p] IN
    /\ q.pc = "insert" /\ q.next <= Len(q.uids)
    /\ q.uids[q.next] \notin Held(p)
    /\ posts' = [posts EXCEPT ![p].next = @ + 1,
                              ![p].mine = IF q.uids[q.next] \in DOMAIN ledger THEN @
                                          ELSE @ \cup {q.uids[q.next]}]
    /\ UNCHANGED <<ledger, acked, invoiceVars, reconVars, transcriptVars>>

(* Two batches that wait for each other: the database aborts one.          *)
DeadlockVictim(p) ==
    LET waits(a, b) == /\ posts[a].pc = "insert" /\ posts[a].next <= Len(posts[a].uids)
                       /\ posts[b].pc = "insert"
                       /\ posts[a].uids[posts[a].next] \in posts[b].mine IN
    /\ \E q \in Poster \ {p} : waits(p, q) /\ waits(q, p)
    /\ posts' = [posts EXCEPT ![p] = Quiet]
    /\ UNCHANGED <<ledger, acked, invoiceVars, reconVars, transcriptVars>>

(* Fault: a replayed uid is accepted whatever its line says.               *)
ReplaysAnything(q) == TRUE

(* Every row the batch did not insert itself has the batch's line.         *)
Replays(q) ==
    \A k \in DOMAIN q.uids : q.uids[k] \notin q.mine => ledger[q.uids[k]] = q.lines[k]

(* The comparison decides between commit and rollback; the answer may be   *)
(* lost on its way.                                                        *)
FinishBatch(p) ==
    LET q == posts[p]
        line(u) == q.lines[CHOOSE k \in DOMAIN q.uids : q.uids[k] = u] IN
    /\ q.pc = "insert" /\ q.next > Len(q.uids)
    /\ IF Replays(q)
       THEN /\ ledger' = [u \in DOMAIN ledger \cup q.mine |->
                             IF u \in q.mine THEN line(u) ELSE ledger[u]]
            /\ \E heard \in BOOLEAN :
                  acked' = IF heard THEN acked \cup {<<q.uids[k], q.lines[k]>> : k \in DOMAIN q.uids}
                           ELSE acked
       ELSE UNCHANGED <<ledger, acked>>
    /\ posts' = [posts EXCEPT ![p] = Quiet]
    /\ UNCHANGED <<invoiceVars, reconVars, transcriptVars>>

-----------------------------------------------------------------------------
(* SpendService.invoice.                                                   *)

(* Fault: the identity is not locked.                                      *)
InvoiceUnlocked(i) == TRUE

InvoiceFree(i) == invoiceLock[i] = Free

(* The identity's lock, and the row that is there once it is held.         *)
ReadInvoice(b, i, amount) ==
    /\ bills[b] = Quiet /\ InvoiceFree(i)
    /\ invoiceLock' = [invoiceLock EXCEPT ![i] = b]
    /\ bills' = [bills EXCEPT ![b] =
          [pc |-> "write", ref |-> i, amount |-> amount,
           existing |-> {n \in DOMAIN invoices : invoices[n].ref = i}]]
    /\ UNCHANGED <<invoices, spendVars, reconVars, transcriptVars>>

(* A row that is there is compared, and answers the retry or the conflict. *)
WriteInvoice(b) ==
    /\ bills[b].pc = "write"
    /\ invoices' = IF bills[b].existing # {} THEN invoices
                   ELSE Append(invoices, [ref |-> bills[b].ref, amount |-> bills[b].amount])
    /\ bills' = [bills EXCEPT ![b] = Quiet]
    /\ invoiceLock' = [invoiceLock EXCEPT ![bills[b].ref] = Free]
    /\ UNCHANGED <<spendVars, reconVars, transcriptVars>>

-----------------------------------------------------------------------------
(* ReconciliationService.reconcile_once.                                   *)

(* The broker bills a call before anybody writes its receipt.              *)
Bill(line) ==
    /\ broker' = broker + Cost[line]
    /\ UNCHANGED <<observations, recon, reconLock, begun, spendVars, invoiceVars, transcriptVars>>

LedgerTotal == MapThenSumSet(LAMBDA u : Cost[ledger[u]], DOMAIN ledger)

(* The transaction's now(), which will be the row's ts, is taken here.     *)
BeginReconcile(r) ==
    /\ recon[r] = Quiet /\ begun < MaxObservations
    /\ begun' = begun + 1
    /\ recon' = [recon EXCEPT ![r] = [pc |-> "lock", ts |-> begun + 1]]
    /\ UNCHANGED <<broker, observations, reconLock, spendVars, invoiceVars, transcriptVars>>

ReconFree == reconLock = Free

ReadLedger(r) ==
    /\ recon[r].pc = "lock" /\ ReconFree
    /\ reconLock' = r
    /\ recon' = [recon EXCEPT ![r] =
          [pc |-> "broker", ts |-> recon[r].ts, ledger |-> LedgerTotal]]
    /\ UNCHANGED <<broker, observations, begun, spendVars, invoiceVars, transcriptVars>>

Successful == {n \in DOMAIN observations : observations[n].status # "unavailable"}

(* ORDER BY ts, event_uid LIMIT 1 over the successful rows.                *)
Baseline(rows) ==
    CHOOSE n \in rows : \A m \in rows : observations[n].ts <= observations[m].ts

Abs(n) == IF n < 0 THEN -n ELSE n

Unavailable(ts) == [ts |-> ts, status |-> "unavailable"]

(* _successful_row: the first success is the baseline, a later one its     *)
(* growth since the oldest; negative growth is an invalid answer.          *)
Observation(r, usage) ==
    LET c == recon[r]
        b == observations[Baseline(Successful)]
        drift == (c.ledger - b.ledger) - (usage - b.broker) IN
    IF Successful = {}
    THEN [ts |-> c.ts, status |-> "baseline", broker |-> usage, ledger |-> c.ledger, drift |-> 0]
    ELSE IF usage < b.broker \/ c.ledger < b.ledger THEN Unavailable(c.ts)
    ELSE [ts |-> c.ts, status |-> IF Abs(drift) > Tolerance THEN "drift" ELSE "balanced",
          broker |-> usage, ledger |-> c.ledger, drift |-> drift]

(* The broker is asked inside the transaction and may not answer; the rows *)
(* before are read once it did.                                            *)
AskBroker(r) ==
    /\ recon[r].pc = "broker"
    /\ \E row \in {Observation(r, broker), Unavailable(recon[r].ts)} :
          recon' = [recon EXCEPT ![r] = [pc |-> "commit", row |-> row]]
    /\ UNCHANGED <<broker, observations, reconLock, begun, spendVars, invoiceVars, transcriptVars>>

CommitObservation(r) ==
    /\ recon[r].pc = "commit"
    /\ observations' = Append(observations, recon[r].row)
    /\ recon' = [recon EXCEPT ![r] = Quiet]
    /\ reconLock' = Free
    /\ UNCHANGED <<broker, begun, spendVars, invoiceVars, transcriptVars>>

-----------------------------------------------------------------------------
(* TranscriptService.append: one transaction under the principal's lock.   *)

(* Replayed records are the stored ones, the first new one is the next.    *)
Extends(lines, from, to) ==
    /\ from <= Len(transcript) + 1
    /\ \A n \in from .. to : n <= Len(transcript) => transcript[n] = lines[n]

(* A hub ships any stretch of its journal, as a retry after a lost answer  *)
(* or a crash does; a conflict rolls the batch back.                       *)
ShipLines(h, from, to) ==
    /\ from <= to /\ to <= Len(Journal[h])
    /\ Extends(Journal[h], from, to)
    /\ transcript' = [n \in 1 .. Max({to, Len(transcript)}) |->
                         IF n <= Len(transcript) THEN transcript[n] ELSE Journal[h][n]]
    /\ \E heard \in BOOLEAN :
          shipped' = IF heard THEN [shipped EXCEPT ![h] = @ \cup (from .. to)] ELSE shipped
    /\ UNCHANGED <<spendVars, invoiceVars, reconVars>>

-----------------------------------------------------------------------------
LedgersInit ==
    /\ ledger = <<>> /\ acked = {} /\ posts = [p \in Poster |-> Quiet]
    /\ invoices = <<>> /\ bills = [b \in Biller |-> Quiet]
    /\ invoiceLock = [i \in InvoiceId |-> Free]
    /\ broker = 0 /\ observations = <<>> /\ begun = 0
    /\ recon = [r \in Spine |-> Quiet] /\ reconLock = Free
    /\ transcript = <<>> /\ shipped = [h \in Hub |-> {}]

PostStep(p) == InsertRow(p) \/ DeadlockVictim(p) \/ FinishBatch(p)

ReconcileStep(r) ==
    BeginReconcile(r) \/ ReadLedger(r) \/ AskBroker(r) \/ CommitObservation(r)

LedgersNext ==
    \/ \E p \in Poster, n \in Nat : \E uids \in [1 .. n -> Uid], lines \in [1 .. n -> Line] :
          SendBatch(p, uids, lines)
    \/ \E p \in Poster : PostStep(p)
    \/ \E b \in Biller, i \in InvoiceId, amount \in Nat : ReadInvoice(b, i, amount)
    \/ \E b \in Biller : WriteInvoice(b)
    \/ \E line \in Line : Bill(line)
    \/ \E r \in Spine : ReconcileStep(r)
    \/ \E h \in Hub, from, to \in Nat \ {0} : ShipLines(h, from, to)

LedgersSpec == LedgersInit /\ [][LedgersNext]_ledgerVars

-----------------------------------------------------------------------------
(* Rows are well formed; an observation with amounts has all of them.      *)
LedgerTypes ==
    /\ ledger \in ReceiptRows /\ invoices \in Seq(InvoiceRow)
    /\ observations \in Seq(ObservationRow) /\ broker \in Nat
    /\ transcript \in TranscriptRows

ShippedLines == UNION {{<<n, Journal[h][n]>> : n \in shipped[h]} : h \in Hub}

Receipts == INSTANCE Register WITH store <- ledger, promised <- acked
Records == INSTANCE Register WITH store <- transcript, promised <- ShippedLines

(***************************************************************************)
(* Both append-only ledgers implement the register: a receipt or a line a  *)
(* client was told is stored stands as it was sent, whatever batches with  *)
(* other contents, replays, forks of a journal or aborted transactions     *)
(* race it (the append of SpendService and of TranscriptService).          *)
(***************************************************************************)
LedgersAreRegisters == Receipts!RegisterSpec /\ Records!RegisterSpec

(***************************************************************************)
(* What no key of the tables says: one invoice is one row, and only one    *)
(* observation is the baseline, although retries overlap the request they  *)
(* repeat and the processes of a rolling deploy reconcile at once (invoice,*)
(* reconcile_once).                                                        *)
(***************************************************************************)
LocksStandForKeys ==
    /\ \A m, n \in DOMAIN invoices : invoices[m].ref = invoices[n].ref => m = n
    /\ \A m, n \in DOMAIN observations :
          observations[m].status = "baseline" /\ observations[n].status = "baseline" => m = n
=============================================================================
