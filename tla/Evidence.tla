------------------------------ MODULE Evidence ------------------------------
(***************************************************************************)
(* What a gate shows and what the learner reads from it: scorer-v0's pin,  *)
(* rank and budget law (src/spine/inject/scorer.py, score_and_select) and  *)
(* the evidence for a larger or a smaller memory room that a recorded gate *)
(* is projected to (src/spine/learner/evidence.py).  Scores are ranks, a   *)
(* share of the context is its number of tokens.                           *)
(***************************************************************************)
EXTENDS Integers, Sequences, SequencesExt, FiniteSetsExt

CONSTANTS
    Tau,            \* the score that is worth showing
    NearMissK       \* near_miss_k

ASSUME EvidenceAssumption == Tau \in Int /\ NearMissK \in Nat

VARIABLE gate       \* [pool, share, liked, outcome]: one prepared gate

Memory == [kind : {"pinned", "locked", "regular"}, score : Int, cost : Nat]
Recorded(g) == g.pool \in Seq(Memory) /\ g.share \in Nat

(* Fault: the first memory that does not fit ends the selection.           *)
FitsPrefix(state, cost) == state.cuts = {} /\ cost <= state.left

Fits(state, cost) == cost <= state.left

(* One turn of the loop over the ranked candidates.                        *)
Considered(pool, state, i) ==
    IF pool[i].score >= Tau /\ Fits(state, pool[i].cost)
    THEN [state EXCEPT !.left = @ - pool[i].cost, !.selected = Append(@, i)]
    ELSE [state EXCEPT !.unselected = Append(@, i),
                       !.cuts = IF pool[i].score >= Tau THEN @ \cup {i} ELSE @]

OfKind(pool, kind) == {i \in DOMAIN pool : pool[i].kind = kind}
Tokens(pool, S) == MapThenSumSet(LAMBDA i : pool[i].cost, S)

(* By descending score, the memory's id breaking ties: the k-th has k - 1  *)
(* before it.                                                              *)
Before(pool, S, i) ==
    {j \in S : pool[j].score > pool[i].score \/ (pool[j].score = pool[i].score /\ j < i)}
Ranked(pool, S) ==
    [k \in 1 .. Cardinality(S) |-> CHOOSE i \in S : Cardinality(Before(pool, S, i)) = k - 1]

(* What the thread has locked comes off the share first, and the rest is   *)
(* taken in rank order while it fits.                                      *)
Budget(pool, share) == Max({0, share - Tokens(pool, OfKind(pool, "locked"))})
Loop(pool, share) ==
    FoldLeft(LAMBDA state, i : Considered(pool, state, i),
             [left |-> Budget(pool, share), selected |-> <<>>, unselected |-> <<>>, cuts |-> {}],
             Ranked(pool, OfKind(pool, "regular")))

(* Pins are free of the budget, what is locked is shown whatever it costs. *)
ScoreAndSelect(pool, share) ==
    LET end == Loop(pool, share) IN
    [pins |-> OfKind(pool, "pinned"),
     regular |-> Ranked(pool, OfKind(pool, "locked")) \o end.selected,
     nearMisses |-> SubSeq(end.unselected, 1, Min({NearMissK, Len(end.unselected)})),
     cuts |-> end.cuts]

-----------------------------------------------------------------------------
(* _share_boundaries of one gate that hygiene did not exclude.             *)

Used(g) == Tokens(g.pool, Range(ScoreAndSelect(g.pool, g.share).regular))

(* Fault: pins that just fill the share count as an overflow.              *)
RoomUpFull(g) ==
    LET s == ScoreAndSelect(g.pool, g.share)
        total == Used(g) + Tokens(g.pool, s.pins) IN
    {Used(g) + g.pool[i].cost : i \in s.cuts \cap g.liked}
    \cup IF s.pins # {} /\ total >= g.share THEN {total} ELSE {}

(* Room up: a memory that was cut and that somebody values, and pins that  *)
(* overflow the share.                                                     *)
RoomUp(g) ==
    LET s == ScoreAndSelect(g.pool, g.share)
        total == Used(g) + Tokens(g.pool, s.pins) IN
    {Used(g) + g.pool[i].cost : i \in s.cuts \cap g.liked}
    \cup IF s.pins # {} /\ total > g.share THEN {total} ELSE {}

(* Room down: the last memory shown was removed, or kept and never cited.  *)
RoomDown(g) ==
    IF ScoreAndSelect(g.pool, g.share).regular # <<>> /\ g.outcome \in {"removed", "kept"}
    THEN {Used(g)} ELSE {}

-----------------------------------------------------------------------------
(* Sets of relevant memories that fit beside the locked ones, and what it  *)
(* means that A comes before B in rank order.                              *)
Feasible(pool, share) ==
    {S \in SUBSET {i \in OfKind(pool, "regular") : pool[i].score >= Tau} :
        Tokens(pool, S) <= Budget(pool, share)}
RankedAhead(rank, A, B) ==
    \E n \in DOMAIN rank : /\ rank[n] \in A \ B
                           /\ \A m \in 1 .. n - 1 : rank[m] \in A <=> rank[m] \in B

(***************************************************************************)
(* The law of the budget against a definition that knows no loop: among    *)
(* all sets of relevant memories that fit beside the locked ones, a gate   *)
(* shows the first in rank order, so no memory gives way to one ranked     *)
(* below it unless it did not fit (score_and_select).                      *)
(***************************************************************************)
SelectionIsFirst ==
    LET locked == OfKind(gate.pool, "locked")
        all == Range(ScoreAndSelect(gate.pool, gate.share).regular)
        rank == Ranked(gate.pool, OfKind(gate.pool, "regular")) IN
    /\ all \ locked \in Feasible(gate.pool, gate.share) /\ locked \subseteq all
    /\ \A S \in Feasible(gate.pool, gate.share) \ {all \ locked} : RankedAhead(rank, all \ locked, S)

(***************************************************************************)
(* The learner is never told the opposite of what happened: evidence for   *)
(* more room asks for more than the gate had, evidence for less names no   *)
(* more than it had, unless the locked memories alone overran it           *)
(* (score_and_select, then _share_boundaries).                             *)
(***************************************************************************)
RoomEvidenceIsTrue ==
    /\ \A n \in RoomUp(gate) : n > gate.share
    /\ \A n \in RoomDown(gate) :
          n <= gate.share \/ Tokens(gate.pool, OfKind(gate.pool, "locked")) > gate.share
=============================================================================
