------------------------------ MODULE MCQueue -------------------------------
(* TLC instances of ApprovalQueue; each cfg picks the pipelines it runs.   *)
EXTENDS ApprovalQueue, TLC

CONSTANTS m1, m2, m3, m4, c1, w1, w2, b1, b2, b3, batch1

MC3Mem == {m1, m2, m3}
MC4Mem == {m1, m2, m3, m4}

(* b1 and b2 are near, b3 is far from both.                                *)
MCBody == {b1, b2, b3}
MCBand == [q \in MCBody \X MCBody |->
              IF q[1] = q[2] THEN "duplicate"
              ELSE IF b3 \in {q[1], q[2]} THEN "distinct" ELSE "similar"]

n1 == <<"n1", 0>>
n2 == <<"n2", 0>>
Nothing == {}

MCDrafts == {[label |-> n1, body |-> b1]}
MCSplits == {[label |-> n1, body |-> b1], [label |-> n2, body |-> b2]}

no == [label |-> Keep, body |-> Keep, status |-> Keep]
MCPatches == {[no EXCEPT !.status = "tombstoned"], [no EXCEPT !.status = "active"]}
MCRemoval == {[no EXCEPT !.status = "tombstoned"]}
MCRewrites == {[no EXCEPT !.body = b2]}

(* A new fact, and each way one may bear on another.                       *)
MCProposals ==
    {[label |-> n1, body |-> b1, verdict |-> "new"]}
    \cup {[label |-> n1, body |-> b2, verdict |-> v] :
             v \in {"merge", "contradict"}}

(* One document under one batch uid, split in two.                         *)
MCDocuments ==
    {[batch |-> batch1, source |-> b3,
      children |-> <<[label |-> n1, body |-> b1, verdict |-> "new"],
                     [label |-> n1, body |-> b2, verdict |-> "supersede"]>>],
     [batch |-> batch1, source |-> b3,
      children |-> <<[label |-> n1, body |-> b1, verdict |-> "new"],
                     [label |-> n1, body |-> b2, verdict |-> "new"]>>]}

MCRepairs == {[action |-> a, label |-> n2, body |-> b2] :
                 a \in {"supersede", "contradict", "retire", "keyword_repair", "split"}}

SymMem3 == Permutations(MC3Mem)
SymMem4 == Permutations(MC4Mem)
SymWorkers3 == Permutations(MC3Mem) \cup Permutations(Worker)

(* The queue with extraction as its one pipeline; documents and curators   *)
(* are MCReview's.                                                         *)
ThreadNext ==
    \/ (\E c \in Client : HandlerNext(c)) /\ UNCHANGED flow
    \/ \E w \in Worker, p \in Principal, d \in Proposals : \E T \in Implicable(p, d.verdict) :
          Extract(w, p, d, T)
    \/ \E w \in Worker :
          \/ DraftCheck(w) \/ CandidateInsert(w) \/ EnqueueCheck(w) \/ CardInsert(w)
          \/ Discard(w) \/ LoopEnd(w) \/ WorkerCrash(w)
    \/ \E i \in DOMAIN cards, signal \in Signal : Decide(i, signal)

ThreadSpec == QueueInit /\ [][ThreadNext]_queueVars
=============================================================================
