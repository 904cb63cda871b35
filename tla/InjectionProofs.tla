-------------------------- MODULE InjectionProofs --------------------------
(***************************************************************************)
(* Proofs about Injection.  A prepare may work on its snapshot for as long *)
(* as it likes: every write of a head and every veto moves the revision of *)
(* that head, so a head that stands at the snapshot's revision is the head *)
(* the snapshot shows and no thread has vetoed it since.                   *)
(***************************************************************************)
EXTENDS Injection, ProofBasics, FiniteSetTheorems, TLAPS

(* What a prepare in progress may rely on.                                 *)
SnapshotOK(c) ==
    /\ Stampable(c.asks, c.snap.thread)
    /\ \A m \in Pool(c.snap) :
        /\ c.snap.units[m].revision <= units[m].revision
        /\ ~HeadMoved(c, m) => units[m] = c.snap.units[m] /\ m \notin Vetoed(c.thread)

CallOK(h) == call[h].at = "prepare" => SnapshotOK(call[h])
CallsOK == \A h \in Handler : CallOK(h)

(* A near miss is never kept, and a batch holds one decidable card of a    *)
(* memory.                                                                 *)
NearOutcome == {"null", "never", "added_back", "auto_exited"} \cup Feedbacks

EventsOK ==
    /\ \A k \in DOMAIN events : events[k].thread \in DOMAIN threads
    /\ \A k \in DOMAIN events : k[3] = "near_miss" => events[k].outcome \in NearOutcome
    /\ \A j, k \in DOMAIN events :
        /\ j[1] = k[1] /\ j[2] = k[2] /\ j[3] # "budget_cut" /\ k[3] # "budget_cut"
        => j = k

InjectionInv ==
    /\ InjectionTypes /\ CallsOK /\ EventsOK
    /\ OutcomesCountedOnce /\ CardsAreFrozen /\ OneGatePerThread /\ KillsQuarantine

-----------------------------------------------------------------------------
(* Writes of heads.                                                        *)

Rewritten(m, u, reason) ==
    units'[m] = [u EXCEPT !.revision = @ + 1] /\ rows'[m] = Append(rows[m], reason)

Untouched(m) == units'[m] = units[m] /\ rows'[m] = rows[m]

LEMMA UnitFields ==
    ASSUME NEW u \in Unit
    PROVE  /\ u.status \in Status /\ u.revision \in Nat /\ u.injections \in Nat
           /\ u.removals \in Nat /\ u.kills \in Nat /\ u.citations \in Nat
           /\ Bumped(u) \in Unit /\ Bumped(u).revision = u.revision + 1
BY DEF Unit, Bumped

LEMMA HeadTypes ==
    ASSUME InjectionTypes, NEW m \in Memory
    PROVE  units[m] \in Unit /\ rows[m] \in Seq(Reason) /\ units[m].revision = Len(rows[m])
BY DEF InjectionTypes

LEMMA HeadWrite ==
    ASSUME InjectionTypes, NEW changed, NEW reason, DOMAIN changed \subseteq Memory,
           \A m \in DOMAIN changed :
              /\ changed[m] \in Unit /\ changed[m].revision = units[m].revision
              /\ reason[m] \in Reason,
           WriteHeads(changed, reason)
    PROVE  /\ units' \in [Memory -> Unit] /\ rows' \in [Memory -> Seq(Reason)]
           /\ \A m \in Memory : units'[m].revision = Len(rows'[m])
           /\ \A m \in DOMAIN changed : Rewritten(m, changed[m], reason[m])
           /\ \A m \in Memory \ DOMAIN changed : Untouched(m)
<1>1. ASSUME NEW m \in DOMAIN changed
      PROVE  /\ units'[m] = Bumped(changed[m]) /\ rows'[m] = Append(rows[m], reason[m])
             /\ units'[m] \in Unit /\ rows'[m] \in Seq(Reason)
             /\ units'[m].revision = Len(rows'[m])
  <2>1. units'[m] = Bumped(changed[m]) /\ rows'[m] = Append(rows[m], reason[m])
    BY <1>1 DEF WriteHeads
  <2>2. rows[m] \in Seq(Reason) /\ units[m].revision = Len(rows[m])
    BY HeadTypes
  <2>3. rows'[m] \in Seq(Reason) /\ Len(rows'[m]) = units[m].revision + 1
    BY <2>1, <2>2
  <2> QED
    BY <2>1, <2>3, UnitFields
<1>2. ASSUME NEW m \in Memory \ DOMAIN changed
      PROVE  /\ Untouched(m) /\ units'[m] \in Unit /\ rows'[m] \in Seq(Reason)
             /\ units'[m].revision = Len(rows'[m])
  BY <1>2, HeadTypes DEF WriteHeads, Untouched
<1>3. /\ units' = [m \in Memory |-> units'[m]]
      /\ rows' = [m \in Memory |-> rows'[m]]
  BY DEF WriteHeads
<1>4. units' \in [Memory -> Unit] /\ rows' \in [Memory -> Seq(Reason)]
  BY <1>1, <1>2, <1>3
<1> QED
  BY <1>1, <1>2, <1>4 DEF Rewritten, Bumped

(* What is known of the head of every memory after any write.              *)
LEMMA RewrittenMoves ==
    ASSUME NEW m, NEW u \in Unit, u.revision = units[m].revision, NEW reason,
           Rewritten(m, u, reason)
    PROVE  /\ units'[m].revision = units[m].revision + 1
           /\ units'[m].status = u.status /\ units'[m].kills = u.kills
           /\ units'[m].injections = u.injections /\ units'[m].removals = u.removals
           /\ units'[m].citations = u.citations
BY DEF Rewritten, Unit

-----------------------------------------------------------------------------
(* A prepare in progress: the others' writes move the heads they write.    *)

LEMMA CallKept ==
    ASSUME InjectionTypes, CallsOK, InjectionTypes', NEW h \in Handler, call'[h] = call[h],
           \A m \in Memory : \/ units'[m] = units[m]
                             \/ units'[m].revision = units[m].revision + 1,
           \A t \in Thread : \A m \in Memory :
              m \in Vetoed(t)' => \/ m \in Vetoed(t)
                                  \/ units'[m].revision = units[m].revision + 1
    PROVE  CallOK(h)'
<1> SUFFICES ASSUME call[h].at = "prepare" PROVE CallOK(h)'
  BY DEF CallOK
<1> DEFINE c == call[h]
<1>1. SnapshotOK(c)
  BY DEF CallsOK, CallOK
<1>2. c \in Call /\ c.thread \in Thread /\ c.snap \in Snapshot
  BY DEF InjectionTypes, Call
<1>3. ASSUME NEW m \in Pool(c.snap)
      PROVE  /\ c.snap.units[m].revision <= units'[m].revision
             /\ units'[m].revision = c.snap.units[m].revision
                => units'[m] = c.snap.units[m] /\ m \notin Vetoed(c.thread)'
  <2>1. m \in Memory /\ c.snap.units[m] \in Unit
    BY <1>2 DEF Pool, Snapshot
  <2>2. c.snap.units[m].revision \in Nat /\ units[m].revision \in Nat
    BY <2>1, HeadTypes, UnitFields
  <2>3. c.snap.units[m].revision <= units[m].revision
    BY <1>1 DEF SnapshotOK
  <2>4. CASE units'[m].revision = units[m].revision + 1
    BY <2>2, <2>3, <2>4
  <2>5. CASE units'[m].revision # units[m].revision + 1
    <3>1. units'[m] = units[m] /\ (m \in Vetoed(c.thread)' => m \in Vetoed(c.thread))
      BY <1>2, <2>1, <2>5
    <3> QED
      BY <1>1, <2>3, <3>1 DEF SnapshotOK, HeadMoved
  <2> QED
    BY <2>4, <2>5
<1>4. Stampable(c.asks, c.snap.thread)
  BY <1>1 DEF SnapshotOK
<1> QED
  BY <1>3, <1>4 DEF CallOK, SnapshotOK, HeadMoved

-----------------------------------------------------------------------------
(* Sets of events about a memory.                                          *)

LEMMA EventKey ==
    ASSUME InjectionTypes, NEW k \in DOMAIN events
    PROVE  /\ k[1] \in 1 .. batches /\ k[2] \in Memory /\ k[3] \in Shown
           /\ k = <<k[1], k[2], k[3]>> /\ events[k] \in Event
BY DEF InjectionTypes

LEMMA AboutFinite ==
    ASSUME InjectionTypes, NEW m \in Memory, NEW shown, NEW outcomes
    PROVE  /\ IsFiniteSet(About(m, shown, outcomes))
           /\ Cardinality(About(m, shown, outcomes)) \in Nat
<1> DEFINE S == About(m, shown, outcomes)
           T == (1 .. batches) \X Shown
           f == [k \in S |-> <<k[1], k[3]>>]
<1>1. IsFiniteSet(Shown)
  <2>1. /\ IsFiniteSet({"injected"})
        /\ IsFiniteSet({"injected"} \cup {"near_miss"})
        /\ IsFiniteSet(({"injected"} \cup {"near_miss"}) \cup {"budget_cut"})
    BY FS_Singleton, FS_AddElement
  <2> QED
    BY <2>1 DEF Shown
<1>2. IsFiniteSet(1 .. batches)
  <2>1. batches \in Int
    BY DEF InjectionTypes
  <2> QED
    BY <2>1, FS_Interval
<1>3. IsFiniteSet(T)
  BY <1>1, <1>2, FS_Product
<1>4. \A k \in S : /\ k[1] \in 1 .. batches /\ k[2] = m /\ k[3] \in Shown
                   /\ k = <<k[1], m, k[3]>>
  BY EventKey DEF About
<1>5. f \in [S -> T]
  BY <1>4
<1>6. \A j, k \in S : f[j] = f[k] => j = k
  BY <1>4
<1>7. f \in Injection(S, T)
  BY <1>5, <1>6 DEF Injection, IsInjective
<1> HIDE DEF S, T, f
<1>8. IsFiniteSet(S)
  BY <1>3, <1>7, FS_Injection
<1> QED
  BY <1>8, FS_CardinalityType DEF S

Fits(k, e, shown, outcomes) == k[3] \in shown /\ e.outcome \in outcomes

LEMMA OneRetagged ==
    ASSUME InjectionTypes, NEW m \in Memory, NEW shown, NEW outcomes,
           DOMAIN events' = DOMAIN events, NEW k \in DOMAIN events, k[2] = m,
           \A j \in DOMAIN events : j[2] = m /\ j # k => events'[j].outcome = events[j].outcome
    PROVE  LET was == Fits(k, events[k], shown, outcomes)
               is == Fits(k, events'[k], shown, outcomes)
               n == Cardinality(About(m, shown, outcomes))
               after == Cardinality(About(m, shown, outcomes)') IN
           /\ n \in Nat
           /\ was /\ is => after = n
           /\ ~was /\ ~is => after = n
           /\ ~was /\ is => after = n + 1
           /\ was /\ ~is => after = n - 1
<1> DEFINE S == About(m, shown, outcomes)
<1>1. IsFiniteSet(S) /\ Cardinality(S) \in Nat
  BY AboutFinite
<1>2. k \in S <=> Fits(k, events[k], shown, outcomes)
  BY DEF About, Fits
<1>3. Fits(k, events'[k], shown, outcomes) => About(m, shown, outcomes)' = S \cup {k}
  BY DEF About, Fits
<1>4. ~Fits(k, events'[k], shown, outcomes) => About(m, shown, outcomes)' = S \ {k}
  BY DEF About, Fits
<1> HIDE DEF S
<1>5. Cardinality(S \cup {k}) = IF k \in S THEN Cardinality(S) ELSE Cardinality(S) + 1
  BY <1>1, FS_AddElement
<1>6. Cardinality(S \ {k}) = IF k \in S THEN Cardinality(S) - 1 ELSE Cardinality(S)
  BY <1>1, FS_RemoveElement
<1> QED
  BY <1>1, <1>2, <1>3, <1>4, <1>5, <1>6 DEF S

-----------------------------------------------------------------------------
(* Steps that write heads and outcomes, and insert no event.               *)

HeadsTyped ==
    /\ units \in [Memory -> Unit] /\ rows \in [Memory -> Seq(Reason)]
    /\ \A m \in Memory : units[m].revision = Len(rows[m])

Moves(m) ==
    \E u \in Unit, reason \in Reason :
        u.revision = units[m].revision /\ Rewritten(m, u, reason)

Retag ==
    /\ UNCHANGED <<threads, batches, call>>
    /\ DOMAIN events' = DOMAIN events
    /\ events' \in [DOMAIN events -> Event]
    /\ \A k \in DOMAIN events :
        /\ events'[k].thread = events[k].thread /\ events'[k].version = events[k].version
        /\ events'[k].actor = events[k].actor /\ events'[k].frozen = events[k].frozen

Counted(m) ==
    LET u == units[m]
        shown == Cardinality(About(m, {"injected"}, Outcome)) IN
    /\ u.kills = Cardinality(About(m, Shown, {"never"}))
    /\ u.citations = Cardinality(About(m, Shown, {"cited"}))
    /\ u.removals >= Cardinality(About(m, Shown, {"never", "removed", "mid_thread_removed"}))
    /\ u.injections >= shown + Cardinality(About(m, {"near_miss"}, {"added_back", "cited"}))
    /\ u.injections <= shown + Cardinality(About(m, {"near_miss"}, {"added_back"} \cup Feedbacks))

Kills(m) == {i \in DOMAIN rows[m] : rows[m][i] = "never"}
Quarantined(m) ==
    units[m].status = "active" /\ (\A v \in Version : units[m].kills >= KillLimit[v])
    => \E i \in DOMAIN rows[m] : rows[m][i] = "patched" /\ \A j \in Kills(m) : j < i

LEMMA ByMemory ==
    /\ OutcomesCountedOnce <=> \A m \in Memory : Counted(m)
    /\ KillsQuarantine <=> \A m \in Memory : Quarantined(m)
BY DEF OutcomesCountedOnce, Counted, KillsQuarantine, Quarantined, Kills

LEMMA RowsGrow ==
    ASSUME InjectionTypes, NEW m \in Memory, Untouched(m) \/ Moves(m)
    PROVE  /\ Len(rows[m]) \in Nat /\ Len(rows'[m]) \in Nat /\ Len(rows[m]) <= Len(rows'[m])
           /\ DOMAIN rows[m] = 1 .. Len(rows[m]) /\ DOMAIN rows'[m] = 1 .. Len(rows'[m])
           /\ \A i \in DOMAIN rows[m] : rows'[m][i] = rows[m][i]
<1>1. rows[m] \in Seq(Reason)
  BY HeadTypes
<1>2. CASE Untouched(m)
  BY <1>1, <1>2 DEF Untouched
<1>3. CASE Moves(m)
  <2>1. PICK reason \in Reason : rows'[m] = Append(rows[m], reason)
    BY <1>3 DEF Moves, Rewritten
  <2> QED
    BY <1>1, <2>1, AppendFacts
<1> QED
  BY <1>2, <1>3

LEMMA FrozenStay ==
    ASSUME InjectionTypes, CardsAreFrozen, \A m \in Memory : Untouched(m) \/ Moves(m),
           NEW k \in DOMAIN events, k[3] = "injected"
    PROVE  /\ events[k].frozen < Len(rows'[k[2]])
           /\ rows'[k[2]][events[k].frozen + 1] = "prepare"
<1>1. k[2] \in Memory /\ events[k].frozen \in Nat
  BY EventKey DEF Event
<1>2. /\ events[k].frozen < Len(rows[k[2]])
      /\ rows[k[2]][events[k].frozen + 1] = "prepare"
  BY DEF CardsAreFrozen
<1>3. /\ Len(rows[k[2]]) \in Nat /\ Len(rows'[k[2]]) \in Nat
      /\ Len(rows[k[2]]) <= Len(rows'[k[2]])
      /\ DOMAIN rows[k[2]] = 1 .. Len(rows[k[2]])
      /\ \A i \in DOMAIN rows[k[2]] : rows'[k[2]][i] = rows[k[2]][i]
  BY <1>1, RowsGrow
<1>4. events[k].frozen + 1 \in DOMAIN rows[k[2]]
  BY <1>1, <1>2, <1>3
<1> QED
  BY <1>1, <1>2, <1>3, <1>4

LEMMA RetagKeeps ==
    ASSUME InjectionInv, Retag, HeadsTyped', \A m \in Memory : Untouched(m) \/ Moves(m),
           \A k \in DOMAIN events :
              /\ k[3] = "near_miss" => events'[k].outcome \in NearOutcome
              /\ events'[k].outcome = "never"
                 => events[k].outcome = "never" \/ Moves(k[2]),
           \A m \in Memory : Counted(m)' /\ Quarantined(m)'
    PROVE  InjectionInv'
<1>1. InjectionTypes /\ CallsOK /\ EventsOK /\ CardsAreFrozen /\ OneGatePerThread
  BY DEF InjectionInv
<1>2. InjectionTypes'
  BY <1>1 DEF InjectionTypes, Retag, HeadsTyped
<1>3. CallsOK'
  <2>1. \A m \in Memory : Moves(m) => units'[m].revision = units[m].revision + 1
    BY RewrittenMoves DEF Moves
  <2>2. \A m \in Memory : \/ units'[m] = units[m]
                          \/ units'[m].revision = units[m].revision + 1
    BY <2>1 DEF Untouched
  <2>3. \A t \in Thread : \A m \in Memory :
            m \in Vetoed(t)' => m \in Vetoed(t) \/ units'[m].revision = units[m].revision + 1
    BY <2>1 DEF Vetoed, OfThread, Retag
  <2>4. ASSUME NEW h \in Handler PROVE CallOK(h)'
    BY <1>1, <1>2, <2>2, <2>3, CallKept DEF Retag
  <2> QED
    BY <2>4 DEF CallsOK
<1>4. EventsOK'
  BY <1>1 DEF EventsOK, Retag
<1>5. CardsAreFrozen'
  <2>1. \A k \in DOMAIN events : k[3] = "injected" =>
            /\ events[k].frozen < Len(rows'[k[2]])
            /\ rows'[k[2]][events[k].frozen + 1] = "prepare"
    BY <1>1, FrozenStay
  <2> QED
    BY <1>1, <2>1 DEF CardsAreFrozen, Retag
<1>6. OneGatePerThread'
  BY <1>1 DEF OneGatePerThread, OfThread, Retag
<1>7. OutcomesCountedOnce' /\ KillsQuarantine'
  <2>1. /\ OutcomesCountedOnce' <=> \A m \in Memory : Counted(m)'
        /\ KillsQuarantine' <=> \A m \in Memory : Quarantined(m)'
    BY DEF OutcomesCountedOnce, Counted, KillsQuarantine, Quarantined, Kills
  <2> QED
    BY <2>1
<1> QED
  BY <1>2, <1>3, <1>4, <1>5, <1>6, <1>7 DEF InjectionInv

(* What keeps a memory's counters true: its one event that changes.        *)
LEMMA CountedAfter ==
    ASSUME InjectionTypes, HeadsTyped', NEW m \in Memory, Counted(m),
           DOMAIN events' = DOMAIN events, NEW k \in DOMAIN events, k[2] = m,
           \A j \in DOMAIN events : j[2] = m /\ j # k => events'[j].outcome = events[j].outcome,
           NEW old \in Outcome \ {"never", "cited", "removed"}, NEW new \in Outcome \ {old},
           events[k].outcome = old, events'[k].outcome = new,
           units'[m].kills = units[m].kills + (IF new = "never" THEN 1 ELSE 0),
           units'[m].citations = units[m].citations + (IF new = "cited" THEN 1 ELSE 0),
           units'[m].removals = units[m].removals
              + (IF new \in {"never", "removed", "mid_thread_removed"} THEN 1 ELSE 0),
           units'[m].injections = units[m].injections + (IF new = "added_back" THEN 1 ELSE 0),
           new = "added_back" => k[3] = "near_miss" /\ old = "null",
           k[3] = "near_miss" /\ new = "cited" => old = "added_back",
           k[3] = "near_miss" /\ old \in {"added_back"} \cup Feedbacks
              => new \in {"added_back"} \cup Feedbacks
    PROVE  Counted(m)'
<1> DEFINE A(shown, outcomes) == Cardinality(About(m, shown, outcomes))
           B(shown, outcomes) == Cardinality(About(m, shown, outcomes)')
<1>0. /\ units[m].kills \in Nat /\ units[m].citations \in Nat /\ units[m].removals \in Nat
      /\ units[m].injections \in Nat /\ k[3] \in Shown
  BY HeadTypes, UnitFields, EventKey
<1>1. B(Shown, {"never"}) = A(Shown, {"never"}) + (IF new = "never" THEN 1 ELSE 0)
  <2>1. /\ ~Fits(k, events[k], Shown, {"never"})
        /\ Fits(k, events'[k], Shown, {"never"}) <=> new = "never"
    BY <1>0 DEF Fits
  <2> QED
    BY <2>1, OneRetagged
<1>2. B(Shown, {"cited"}) = A(Shown, {"cited"}) + (IF new = "cited" THEN 1 ELSE 0)
  <2>1. /\ ~Fits(k, events[k], Shown, {"cited"})
        /\ Fits(k, events'[k], Shown, {"cited"}) <=> new = "cited"
    BY <1>0 DEF Fits
  <2> QED
    BY <2>1, OneRetagged
<1>3. LET gone == {"never", "removed", "mid_thread_removed"} IN
      /\ A(Shown, gone) \in Nat /\ B(Shown, gone) \in Int
      /\ B(Shown, gone) <= A(Shown, gone) + (IF new \in gone THEN 1 ELSE 0)
  <2> DEFINE gone == {"never", "removed", "mid_thread_removed"}
  <2> HIDE DEF gone
  <2>1. Fits(k, events'[k], Shown, gone) <=> new \in gone
    BY <1>0 DEF Fits
  <2>2. /\ A(Shown, gone) \in Nat /\ B(Shown, gone) \in Int
        /\ B(Shown, gone) <= A(Shown, gone) + (IF new \in gone THEN 1 ELSE 0)
    BY <2>1, OneRetagged
  <2> QED
    BY <2>2 DEF gone
<1>4. A({"injected"}, Outcome) \in Nat /\ B({"injected"}, Outcome) = A({"injected"}, Outcome)
  <2>1. Fits(k, events[k], {"injected"}, Outcome) <=> Fits(k, events'[k], {"injected"}, Outcome)
    BY DEF Fits
  <2> QED
    BY <2>1, OneRetagged
<1>5. LET back == {"added_back", "cited"} IN
      /\ A({"near_miss"}, back) \in Nat /\ B({"near_miss"}, back) \in Int
      /\ B({"near_miss"}, back)
         <= A({"near_miss"}, back) + (IF new = "added_back" THEN 1 ELSE 0)
  <2> DEFINE back == {"added_back", "cited"}
  <2>1. /\ Fits(k, events'[k], {"near_miss"}, back) /\ new # "added_back"
           => Fits(k, events[k], {"near_miss"}, back)
    BY DEF Fits
  <2> HIDE DEF back
  <2>2. /\ A({"near_miss"}, back) \in Nat /\ B({"near_miss"}, back) \in Int
        /\ B({"near_miss"}, back)
           <= A({"near_miss"}, back) + (IF new = "added_back" THEN 1 ELSE 0)
    BY <2>1, OneRetagged
  <2> QED
    BY <2>2 DEF back
<1>6. LET perhaps == {"added_back"} \cup Feedbacks IN
      /\ A({"near_miss"}, perhaps) \in Nat /\ B({"near_miss"}, perhaps) \in Int
      /\ A({"near_miss"}, perhaps) + (IF new = "added_back" THEN 1 ELSE 0)
         <= B({"near_miss"}, perhaps)
  <2> DEFINE perhaps == {"added_back"} \cup Feedbacks
  <2>1. /\ Fits(k, events[k], {"near_miss"}, perhaps)
           => Fits(k, events'[k], {"near_miss"}, perhaps) /\ new # "added_back"
        /\ new = "added_back" => Fits(k, events'[k], {"near_miss"}, perhaps)
    BY DEF Fits, Feedbacks
  <2> HIDE DEF perhaps
  <2>2. /\ A({"near_miss"}, perhaps) \in Nat /\ B({"near_miss"}, perhaps) \in Int
        /\ A({"near_miss"}, perhaps) + (IF new = "added_back" THEN 1 ELSE 0)
           <= B({"near_miss"}, perhaps)
    BY <2>1, OneRetagged
  <2> QED
    BY <2>2 DEF perhaps
<1>7. /\ units[m].kills = A(Shown, {"never"}) /\ units[m].citations = A(Shown, {"cited"})
      /\ units[m].removals >= A(Shown, {"never", "removed", "mid_thread_removed"})
      /\ units[m].injections
         >= A({"injected"}, Outcome) + A({"near_miss"}, {"added_back", "cited"})
      /\ units[m].injections
         <= A({"injected"}, Outcome) + A({"near_miss"}, {"added_back"} \cup Feedbacks)
  BY DEF Counted
<1>8. Counted(m)' <=>
      /\ units'[m].kills = B(Shown, {"never"}) /\ units'[m].citations = B(Shown, {"cited"})
      /\ units'[m].removals >= B(Shown, {"never", "removed", "mid_thread_removed"})
      /\ units'[m].injections
         >= B({"injected"}, Outcome) + B({"near_miss"}, {"added_back", "cited"})
      /\ units'[m].injections
         <= B({"injected"}, Outcome) + B({"near_miss"}, {"added_back"} \cup Feedbacks)
  BY DEF Counted
<1> HIDE DEF A, B
<1> QED
  BY <1>0, <1>1, <1>2, <1>3, <1>4, <1>5, <1>6, <1>7, <1>8

LEMMA CountedStill ==
    ASSUME NEW m, Counted(m), DOMAIN events' = DOMAIN events,
           \A k \in DOMAIN events : k[2] = m => events'[k].outcome = events[k].outcome,
           units'[m].kills = units[m].kills, units'[m].citations = units[m].citations,
           units'[m].removals = units[m].removals, units'[m].injections = units[m].injections
    PROVE  Counted(m)'
<1>1. \A shown, outcomes : About(m, shown, outcomes)' = About(m, shown, outcomes)
  BY DEF About
<1> QED
  BY <1>1 DEF Counted

LEMMA QuarantinedAfter ==
    ASSUME InjectionTypes, NEW m \in Memory, Quarantined(m),
           \/ Untouched(m)
           \/ \E u \in Unit, reason \in Reason :
              /\ u.revision = units[m].revision /\ Rewritten(m, u, reason)
              /\ \/ reason = "patched"
                 \/ /\ reason # "never"
                    /\ u.status = units[m].status /\ u.kills = units[m].kills
                 \/ u.status = "active" => \E v \in Version : u.kills < KillLimit[v]
    PROVE  Quarantined(m)'
<1> DEFINE last == Len(rows[m]) + 1
<1>1. CASE Untouched(m)
  BY <1>1 DEF Untouched, Quarantined, Kills
<1>2. ASSUME NEW u \in Unit, NEW reason \in Reason, u.revision = units[m].revision,
             Rewritten(m, u, reason)
      PROVE  /\ DOMAIN rows'[m] = DOMAIN rows[m] \cup {last} /\ last \notin DOMAIN rows[m]
             /\ \A i \in DOMAIN rows[m] : rows'[m][i] = rows[m][i] /\ i < last
             /\ rows'[m][last] = reason /\ last \in Nat
             /\ units'[m].status = u.status /\ units'[m].kills = u.kills
  <2>1. rows[m] \in Seq(Reason) /\ rows'[m] = Append(rows[m], reason)
    BY <1>2, HeadTypes DEF Rewritten
  <2>2. units'[m].status = u.status /\ units'[m].kills = u.kills
    BY <1>2, RewrittenMoves
  <2> QED
    BY <2>1, <2>2, AppendFacts
<1>3. ASSUME NEW u \in Unit, u.revision = units[m].revision, Rewritten(m, u, "patched")
      PROVE  Quarantined(m)'
  <2>1. "patched" \in Reason
    BY DEF Reason
  <2>2. /\ DOMAIN rows'[m] = DOMAIN rows[m] \cup {last}
        /\ \A i \in DOMAIN rows[m] : i < last
        /\ rows'[m][last] = "patched"
    BY <1>2, <1>3, <2>1
  <2>3. \A j \in Kills(m)' : j < last
    BY <2>2 DEF Kills
  <2> QED
    BY <2>2, <2>3 DEF Quarantined
<1>4. ASSUME NEW u \in Unit, NEW reason \in Reason \ {"never"}, u.revision = units[m].revision,
             Rewritten(m, u, reason), u.status = units[m].status, u.kills = units[m].kills
      PROVE  Quarantined(m)'
  <2>1. /\ DOMAIN rows'[m] = DOMAIN rows[m] \cup {last}
        /\ \A i \in DOMAIN rows[m] : rows'[m][i] = rows[m][i]
        /\ rows'[m][last] = reason
        /\ units'[m].status = u.status /\ units'[m].kills = u.kills
    BY <1>2, <1>4
  <2>2. Kills(m)' = Kills(m)
    BY <2>1 DEF Kills
  <2> QED
    BY <1>4, <2>1, <2>2 DEF Quarantined
<1>5. ASSUME NEW u \in Unit, NEW reason \in Reason, u.revision = units[m].revision,
             Rewritten(m, u, reason),
             u.status = "active" => \E v \in Version : u.kills < KillLimit[v]
      PROVE  Quarantined(m)'
  <2>1. units'[m].status = u.status /\ units'[m].kills = u.kills /\ u.kills \in Nat
    BY <1>2, <1>5, UnitFields
  <2>2. u.status = "active" => \E v \in Version : ~(u.kills >= KillLimit[v])
    BY <1>5, <2>1, InjectionAssumption
  <2> QED
    BY <2>1, <2>2 DEF Quarantined
<1> QED
  BY <1>1, <1>3, <1>4, <1>5

-----------------------------------------------------------------------------
(* The actions.                                                            *)

LEMMA PatchStep ==
    ASSUME InjectionInv, NEW m \in Memory, NEW status \in Status, Patch(m, status)
    PROVE  /\ InjectionInv' /\ UNCHANGED <<threads, events, batches, call>>
           /\ Rewritten(m, [units[m] EXCEPT !.status = status], "patched")
           /\ \A n \in Memory \ {m} : Untouched(n)
<1> DEFINE u == [units[m] EXCEPT !.status = status]
           changed == [x \in {m} |-> u]
           reason == [x \in {m} |-> "patched"]
<1>1. InjectionTypes
  BY DEF InjectionInv
<1>2. /\ u \in Unit /\ u.revision = units[m].revision /\ u.kills = units[m].kills
      /\ u.citations = units[m].citations /\ u.removals = units[m].removals
      /\ u.injections = units[m].injections
  BY <1>1, HeadTypes DEF Unit
<1>3. WriteHeads(changed, reason) /\ UNCHANGED <<threads, events, batches, call>>
  BY DEF Patch
<1>4. DOMAIN changed = {m} /\ changed[m] = u /\ reason[m] = "patched" /\ "patched" \in Reason
  BY DEF Reason
<1> HIDE DEF changed, reason, u
<1>5. /\ HeadsTyped' /\ Rewritten(m, u, "patched")
      /\ \A n \in Memory \ {m} : Untouched(n)
  BY <1>1, <1>2, <1>3, <1>4, HeadWrite DEF HeadsTyped
<1>6. Moves(m)
  BY <1>2, <1>4, <1>5 DEF Moves
<1>7. Retag
  BY <1>1, <1>3 DEF Retag, InjectionTypes
<1>8. \A n \in Memory : Counted(n) /\ Quarantined(n)
  BY ByMemory DEF InjectionInv
<1>9. ASSUME NEW n \in Memory PROVE Counted(n)' /\ Quarantined(n)'
  <2>1. /\ units'[n].kills = units[n].kills /\ units'[n].citations = units[n].citations
        /\ units'[n].removals = units[n].removals
        /\ units'[n].injections = units[n].injections
    BY <1>2, <1>5, RewrittenMoves DEF Untouched
  <2>2. Counted(n)'
    BY <1>3, <1>8, <2>1, CountedStill
  <2>3. Quarantined(n)'
    BY <1>1, <1>2, <1>4, <1>5, <1>8, QuarantinedAfter
  <2> QED
    BY <2>2, <2>3
<1>10. \A k \in DOMAIN events : k[3] = "near_miss" => events[k].outcome \in NearOutcome
  BY DEF InjectionInv, EventsOK
<1>11. InjectionInv'
  BY <1>3, <1>5, <1>6, <1>7, <1>9, <1>10, RetagKeeps
<1> QED
  BY <1>3, <1>5, <1>11 DEF u

(* What feedback does to the event and to the head.                        *)
LEMMA FeedbackFacts ==
    ASSUME InjectionInv, NEW k \in DOMAIN events, NEW signal \in Feedbacks, Feedback(k, signal)
    PROVE  LET u == Heard(units[k[2]], signal) IN
           /\ Retag /\ HeadsTyped'
           /\ events'[k].outcome = signal
           /\ \A j \in DOMAIN events \ {k} : events'[j] = events[j]
           /\ FeedbackAllowed(k, signal)
           /\ IF signal = "mid_thread_added" THEN Untouched(k[2])
              ELSE /\ u \in Unit /\ u.revision = units[k[2]].revision
                   /\ Rewritten(k[2], u, signal) /\ signal \in Reason \ {"never", "patched"}
           /\ \A n \in Memory \ {k[2]} : Untouched(n)
<1> DEFINE m == k[2]
           u == Heard(units[m], signal)
<1>1. InjectionTypes
  BY DEF InjectionInv
<1>2. m \in Memory /\ events[k] \in Event
  BY <1>1, EventKey
<1>3. u \in Unit /\ u.revision = units[m].revision
  <2>1. units[m] \in Unit
    BY <1>1, <1>2, HeadTypes
  <2> HIDE DEF m
  <2> QED
    BY <2>1 DEF Unit, Heard
<1>4. /\ events' = [events EXCEPT ![k].outcome = signal]
      /\ UNCHANGED <<threads, batches, call>> /\ FeedbackAllowed(k, signal)
  BY DEF Feedback
<1>5. Retag
  BY <1>1, <1>2, <1>4 DEF Retag, InjectionTypes, Event, Outcome
<1>6. events'[k].outcome = signal /\ \A j \in DOMAIN events \ {k} : events'[j] = events[j]
  BY <1>1, <1>2, <1>4 DEF InjectionTypes, Event
<1>7. CASE signal = "mid_thread_added"
  <2>1. UNCHANGED <<units, rows>>
    BY <1>7 DEF Feedback
  <2>2. HeadsTyped' /\ \A n \in Memory : Untouched(n)
    BY <1>1, <2>1 DEF HeadsTyped, InjectionTypes, Untouched
  <2> QED
    BY <1>2, <1>4, <1>5, <1>6, <1>7, <2>2
<1>8. CASE signal # "mid_thread_added"
  <2> DEFINE changed == [x \in {m} |-> u]
             reason == [x \in {m} |-> signal]
  <2>1. WriteHeads(changed, reason)
    BY <1>8 DEF Feedback
  <2>2. /\ DOMAIN changed = {m} /\ changed[m] = u /\ reason[m] = signal
        /\ signal \in Reason \ {"never", "patched"}
    BY <1>8 DEF Reason, Feedbacks
  <2> HIDE DEF changed, reason
  <2>3. HeadsTyped' /\ Rewritten(m, u, signal) /\ \A n \in Memory \ {m} : Untouched(n)
    BY <1>1, <1>2, <1>3, <2>1, <2>2, HeadWrite DEF HeadsTyped
  <2> QED
    BY <1>3, <1>4, <1>5, <1>6, <1>8, <2>2, <2>3
<1> QED
  BY <1>7, <1>8

LEMMA FeedbackStep ==
    ASSUME InjectionInv, NEW k \in DOMAIN events, NEW signal \in Feedbacks, Feedback(k, signal)
    PROVE  InjectionInv'
<1> DEFINE m == k[2]
           u == Heard(units[m], signal)
           old == events[k].outcome
<1>1. InjectionTypes /\ m \in Memory /\ events[k] \in Event /\ k[3] \in Shown
  BY EventKey DEF InjectionInv
<1>2. /\ Retag /\ HeadsTyped' /\ events'[k].outcome = signal
      /\ \A j \in DOMAIN events \ {k} : events'[j] = events[j]
      /\ FeedbackAllowed(k, signal) /\ \A n \in Memory \ {m} : Untouched(n)
  BY FeedbackFacts
<1>3. \/ signal = "mid_thread_added" /\ Untouched(m)
      \/ /\ signal \in {"cited", "mid_thread_removed"}
         /\ u \in Unit /\ u.revision = units[m].revision
         /\ Rewritten(m, u, signal) /\ signal \in Reason \ {"never", "patched"}
  BY FeedbackFacts DEF Feedbacks
<1>4. \A n \in Memory : Untouched(n) \/ Moves(n)
  BY <1>2, <1>3 DEF Moves
<1>5. \A n \in Memory : Counted(n) /\ Quarantined(n)
  BY ByMemory DEF InjectionInv
<1>6. /\ old \in Outcome \ {"never", "cited", "removed"} /\ signal \in Outcome \ {old}
      /\ k[3] = "near_miss" /\ signal = "cited" => old = "added_back"
  <2>1. old \in Outcome /\ signal \in Outcome
    BY <1>1 DEF Event, Outcome
  <2>2. k[3] = "near_miss" => old \in NearOutcome
    BY DEF InjectionInv, EventsOK
  <2> QED
    BY <1>2, <2>1, <2>2 DEF FeedbackAllowed, Feedbacks, NearOutcome
<1>7. /\ units'[m].kills = units[m].kills
      /\ units'[m].citations = units[m].citations + (IF signal = "cited" THEN 1 ELSE 0)
      /\ units'[m].removals = units[m].removals
            + (IF signal \in {"never", "removed", "mid_thread_removed"} THEN 1 ELSE 0)
      /\ units'[m].injections = units[m].injections
      /\ units[m] \in Unit /\ units[m].status = u.status /\ units[m].kills = u.kills
  <2>1. units[m] \in Unit
    BY <1>1, HeadTypes
  <2>2. CASE signal = "mid_thread_added" /\ Untouched(m)
    BY <2>1, <2>2 DEF Untouched, Unit, Heard
  <2>3. CASE /\ signal \in {"cited", "mid_thread_removed"}
             /\ u \in Unit /\ u.revision = units[m].revision /\ Rewritten(m, u, signal)
    <3>1. /\ units'[m].kills = u.kills /\ units'[m].citations = u.citations
          /\ units'[m].removals = u.removals /\ units'[m].injections = u.injections
      BY <2>3, RewrittenMoves
    <3>2. /\ u.kills = units[m].kills /\ u.injections = units[m].injections
          /\ u.status = units[m].status
          /\ u.citations = units[m].citations + (IF signal = "cited" THEN 1 ELSE 0)
          /\ u.removals = units[m].removals + (IF signal = "cited" THEN 0 ELSE 1)
      BY <2>1, <2>3 DEF Heard, Unit
    <3> QED
      BY <2>1, <2>3, <3>1, <3>2 DEF Unit
  <2> QED
    BY <1>3, <2>2, <2>3
<1>8. Counted(m)'
  <2>1. /\ DOMAIN events' = DOMAIN events
        /\ \A j \in DOMAIN events : j[2] = m /\ j # k => events'[j].outcome = events[j].outcome
    BY <1>2 DEF Retag
  <2>2. /\ signal # "added_back" /\ signal # "never"
        /\ signal \in {"added_back"} \cup Feedbacks
    BY DEF Feedbacks
  <2>3. /\ units[m].kills \in Nat /\ units[m].injections \in Nat
    BY <1>7, UnitFields
  <2>4. /\ units'[m].kills = units[m].kills + (IF signal = "never" THEN 1 ELSE 0)
        /\ units'[m].injections = units[m].injections + (IF signal = "added_back" THEN 1 ELSE 0)
    BY <1>7, <2>2, <2>3
  <2> HIDE DEF m, old
  <2> QED
    BY <1>1, <1>2, <1>5, <1>6, <1>7, <2>1, <2>2, <2>4, CountedAfter DEF m, old
<1>9. ASSUME NEW n \in Memory PROVE Counted(n)' /\ Quarantined(n)'
  <2>1. CASE n = m
    <3>1. Quarantined(m)'
      BY <1>1, <1>3, <1>5, <1>7, QuarantinedAfter
    <3> QED
      BY <1>8, <2>1, <3>1
  <2>2. CASE n # m
    <3>1. Untouched(n)
      BY <1>2, <2>2
    <3>2. DOMAIN events' = DOMAIN events /\ \A j \in DOMAIN events :
              j[2] = n => events'[j].outcome = events[j].outcome
      BY <1>2, <2>2 DEF Retag
    <3> QED
      BY <1>1, <1>5, <3>1, <3>2, CountedStill, QuarantinedAfter DEF Untouched
  <2> QED
    BY <2>1, <2>2
<1>10. ASSUME NEW j \in DOMAIN events
       PROVE  /\ j[3] = "near_miss" => events'[j].outcome \in NearOutcome
              /\ events'[j].outcome = "never" => events[j].outcome = "never" \/ Moves(j[2])
  <2>1. j[3] = "near_miss" => events[j].outcome \in NearOutcome
    BY DEF InjectionInv, EventsOK
  <2> QED
    BY <1>2, <2>1 DEF NearOutcome, Feedbacks
<1> QED
  BY <1>2, <1>4, <1>9, <1>10, RetagKeeps

(* What commit does to an event it decides, and to the head of its memory. *)
Decided(k) ==
    LET was == events[k].outcome
        is == events'[k].outcome
        u == HeadAfter(k, is) IN
    /\ was = "null" /\ is \in {"kept", "never", "removed", "added_back"}
    /\ is \in {"kept", "removed"} => k[3] # "near_miss"
    /\ is = "added_back" => k[3] = "near_miss"
    /\ IF is = "kept" THEN Untouched(k[2])
       ELSE /\ u \in Unit /\ u.revision = units[k[2]].revision
            /\ Rewritten(k[2], u, is) /\ is \in Reason \ {"patched"}

LEMMA HeadAfterTypes ==
    ASSUME InjectionTypes, NEW k \in DOMAIN events, NEW is \in {"never", "removed", "added_back"}
    PROVE  LET u == HeadAfter(k, is) IN
           /\ u \in Unit /\ u.revision = units[k[2]].revision
           /\ u.kills = units[k[2]].kills + (IF is = "never" THEN 1 ELSE 0)
           /\ u.removals = units[k[2]].removals + (IF is = "added_back" THEN 0 ELSE 1)
           /\ u.injections = units[k[2]].injections + (IF is = "added_back" THEN 1 ELSE 0)
           /\ u.citations = units[k[2]].citations
           /\ is # "never" => u.status = units[k[2]].status
           /\ u.status # units[k[2]].status =>
                 /\ units[k[2]].status = "active" /\ u.status = "quarantined"
                 /\ u.kills >= LimitOf(k)
           /\ is = "never" /\ u.status = "active" => u.kills < LimitOf(k)
<1>1. k[2] \in Memory /\ events[k].version \in Version
  BY EventKey DEF Event
<1>2. units[k[2]] \in Unit
  BY <1>1, HeadTypes
<1>3. LimitOf(k) \in Nat
  BY <1>1, InjectionAssumption DEF LimitOf
<1> DEFINE v == units[k[2]]
<1>4. v \in Unit /\ v = units[k[2]]
  BY <1>2
<1> HIDE DEF v
<1>5. CASE is = "never"
  <2>1. HeadAfter(k, is) = Killed(v, LimitOf(k))
    BY <1>4, <1>5 DEF HeadAfter
  <2>2. ASSUME NEW limit \in Nat
        PROVE  LET u == Killed(v, limit) IN
               /\ u \in Unit /\ u.revision = v.revision /\ u.kills = v.kills + 1
               /\ u.removals = v.removals + 1 /\ u.injections = v.injections
               /\ u.citations = v.citations
               /\ u.status = IF v.status = "active" /\ v.kills + 1 >= limit
                             THEN "quarantined" ELSE v.status
    <3> DEFINE w == IF v.status = "active" /\ v.kills + 1 >= limit
                    THEN "quarantined" ELSE v.status
    <3>1. w \in Status
      BY <1>4, UnitFields DEF Status
    <3>2. Killed(v, limit) = [v EXCEPT !.removals = @ + 1, !.kills = @ + 1, !.status = w]
      BY DEF Killed
    <3>3. w = IF v.status = "active" /\ v.kills + 1 >= limit THEN "quarantined" ELSE v.status
      OBVIOUS
    <3> HIDE DEF w
    <3>4. LET u == Killed(v, limit) IN
          /\ u \in Unit /\ u.revision = v.revision /\ u.kills = v.kills + 1
          /\ u.removals = v.removals + 1 /\ u.injections = v.injections
          /\ u.citations = v.citations /\ u.status = w
      <4>1. Killed(v, limit) =
               [status |-> w, revision |-> v.revision, injections |-> v.injections,
                removals |-> v.removals + 1, kills |-> v.kills + 1, citations |-> v.citations]
        BY <1>4, <3>2 DEF Unit
      <4> QED
        BY <1>4, <3>1, <4>1, UnitFields DEF Unit
    <3> QED
      BY <3>3, <3>4
  <2>3. v.kills \in Nat /\ v.injections \in Nat
    BY <1>4, UnitFields
  <2> HIDE DEF Unit
  <2> QED
    BY <1>3, <1>4, <1>5, <2>1, <2>2, <2>3
<1>6. CASE is = "removed"
  <2>1. HeadAfter(k, is) = [v EXCEPT !.removals = @ + 1]
    BY <1>4, <1>6 DEF HeadAfter
  <2> QED
    BY <1>4, <1>6, <2>1 DEF Unit
<1>7. CASE is = "added_back"
  <2>1. HeadAfter(k, is) = [v EXCEPT !.injections = @ + 1]
    BY <1>4, <1>7 DEF HeadAfter
  <2> QED
    BY <1>4, <1>7, <2>1 DEF Unit
<1> QED
  BY <1>5, <1>6, <1>7

LEMMA CommitFacts ==
    ASSUME InjectionInv, NEW b \in 1 .. batches, NEW choice \in Choices(b), Commit(b, choice)
    PROVE  /\ Retag /\ HeadsTyped'
           /\ \A k \in DOMAIN events : events'[k] = events[k] \/ Decided(k)
           /\ \A k \in DOMAIN events : \A j \in DOMAIN events \ {k} :
                 Decided(k) /\ j[2] = k[2] => events'[j] = events[j]
           /\ \A m \in Memory :
                 Untouched(m) \/ \E k \in DOMAIN events : k[2] = m /\ Decided(k)
<1> DEFINE want(k) == Desired(k, choice)
           new == {k \in Members(b) : IsNew(k, want(k))}
           effects == {k \in new : want(k) # "kept"}
           keyOf(m) == CHOOSE k \in effects : k[2] = m
           touched == {k[2] : k \in effects}
           changed == [m \in touched |-> HeadAfter(keyOf(m), want(keyOf(m)))]
           reason == [m \in touched |-> want(keyOf(m))]
<1>1. InjectionTypes /\ EventsOK
  BY DEF InjectionInv
<1>2. /\ WriteHeads(changed, reason) /\ UNCHANGED <<threads, batches, call>>
      /\ events' = [k \in DOMAIN events |->
            IF k \in new THEN [events[k] EXCEPT !.outcome = want(k)] ELSE events[k]]
  BY DEF Commit
<1>3. ASSUME NEW k \in new
      PROVE  /\ k \in DOMAIN events /\ k[1] = b /\ k[3] # "budget_cut"
             /\ events[k].outcome = "null" /\ want(k) \in {"kept", "never", "removed", "added_back"}
             /\ want(k) \in {"kept", "removed"} => k[3] # "near_miss"
             /\ want(k) = "added_back" => k[3] = "near_miss"
  <2>1. /\ k \in Members(b) /\ k \in DOMAIN events /\ k[1] = b /\ k[3] # "budget_cut"
        /\ events[k].outcome = "null" /\ want(k) # "null"
    BY DEF IsNew, Members, Batch
  <2>2. choice[k[2]] \in Verdicts(k)
    BY <2>1 DEF Choices
  <2>3. k[3] \in {"injected", "near_miss"}
    BY <1>1, <2>1, EventKey DEF Shown
  <2> QED
    BY <2>1, <2>2, <2>3 DEF Verdicts, Desired
<1>4. \A j, k \in new : j[2] = k[2] => j = k
  BY <1>1, <1>3 DEF EventsOK
<1>5. \A k \in effects : keyOf(k[2]) = k
  <2>1. SUFFICES ASSUME NEW k \in effects PROVE keyOf(k[2]) = k
    OBVIOUS
  <2>2. \A j \in effects : j[2] = k[2] => j = k
    BY <1>4
  <2> HIDE DEF effects
  <2> QED
    BY <2>2
<1>6. \A k \in effects : want(k) \in {"never", "removed", "added_back"}
  BY <1>3
<1>7. \A k \in new : k[2] \in Memory
  BY <1>1, <1>3, EventKey
<1> HIDE DEF want, new, keyOf
<1>8. /\ DOMAIN changed = touched /\ touched \subseteq Memory
      /\ \A k \in effects : changed[k[2]] = HeadAfter(k, want(k)) /\ reason[k[2]] = want(k)
  BY <1>5, <1>7
<1> HIDE DEF changed, reason
<1>9. \A m \in touched : \E k \in effects : k[2] = m
  OBVIOUS
<1>10. \A k \in effects : /\ HeadAfter(k, want(k)) \in Unit /\ want(k) \in Reason \ {"patched"}
                          /\ HeadAfter(k, want(k)).revision = units[k[2]].revision
  <2>1. SUFFICES ASSUME NEW k \in effects
                 PROVE  /\ HeadAfter(k, want(k)) \in Unit /\ want(k) \in Reason \ {"patched"}
                        /\ HeadAfter(k, want(k)).revision = units[k[2]].revision
    OBVIOUS
  <2>2. k \in DOMAIN events /\ want(k) \in {"never", "removed", "added_back"}
    BY <1>3, <1>6
  <2> QED
    BY <1>1, <2>2, HeadAfterTypes DEF Reason
<1>11. \A m \in DOMAIN changed : /\ changed[m] \in Unit /\ changed[m].revision = units[m].revision
                                 /\ reason[m] \in Reason
  BY <1>8, <1>9, <1>10
<1>12. /\ HeadsTyped' /\ \A m \in Memory \ touched : Untouched(m)
       /\ \A m \in touched : Rewritten(m, changed[m], reason[m])
  BY <1>1, <1>2, <1>8, <1>11, HeadWrite DEF HeadsTyped
<1>13. \A k \in effects : Rewritten(k[2], HeadAfter(k, want(k)), want(k))
  BY <1>8, <1>12
<1>14. \A k \in DOMAIN events :
          /\ k \notin new => events'[k] = events[k]
          /\ k \in new => events'[k] = [events[k] EXCEPT !.outcome = want(k)]
  BY <1>2
<1>15. Retag
  <2>1. \A k \in new : want(k) \in Outcome
    BY <1>3 DEF Outcome
  <2> QED
    BY <1>1, <1>2, <2>1 DEF Retag, InjectionTypes, Event
<1>16. ASSUME NEW k \in new PROVE Decided(k) /\ events'[k].outcome = want(k)
  <2>1. k \in DOMAIN events /\ events[k] \in Event
    BY <1>1, <1>3, EventKey
  <2>2. events'[k].outcome = want(k)
    BY <1>14, <2>1 DEF Event
  <2>3. CASE want(k) = "kept"
    <3>1. k[2] \notin touched
      BY <1>4, <2>3
    <3>2. Untouched(k[2])
      BY <1>7, <1>12, <3>1
    <3> QED
      BY <1>3, <2>2, <2>3, <3>2 DEF Decided
  <2>4. CASE want(k) # "kept"
    <3>1. k \in effects
      BY <2>4
    <3> QED
      BY <1>3, <1>10, <1>13, <2>2, <2>4, <3>1 DEF Decided
  <2> QED
    BY <2>3, <2>4
<1>17. \A k \in DOMAIN events : events'[k] = events[k] \/ Decided(k)
  BY <1>14, <1>16
<1>18. \A m \in Memory : Untouched(m) \/ \E k \in DOMAIN events : k[2] = m /\ Decided(k)
  BY <1>3, <1>9, <1>12, <1>16
<1>19. ASSUME NEW k \in DOMAIN events, NEW j \in DOMAIN events \ {k}, Decided(k), j[2] = k[2]
       PROVE  events'[j] = events[j]
  <2>1. k \in new
    BY <1>14, <1>19 DEF Decided
  <2>2. j \notin new
    BY <1>4, <1>19, <2>1
  <2> QED
    BY <1>14, <2>2
<1> QED
  BY <1>12, <1>15, <1>17, <1>18, <1>19

LEMMA CommitStep ==
    ASSUME InjectionInv, NEW b \in 1 .. batches, NEW choice \in Choices(b), Commit(b, choice)
    PROVE  InjectionInv'
<1>1. InjectionTypes /\ EventsOK
  BY DEF InjectionInv
<1>2. /\ Retag /\ HeadsTyped'
      /\ \A k \in DOMAIN events : events'[k] = events[k] \/ Decided(k)
      /\ \A k \in DOMAIN events : \A j \in DOMAIN events \ {k} :
            Decided(k) /\ j[2] = k[2] => events'[j] = events[j]
      /\ \A m \in Memory :
            Untouched(m) \/ \E k \in DOMAIN events : k[2] = m /\ Decided(k)
  BY CommitFacts
<1>3. \A m \in Memory : Counted(m) /\ Quarantined(m)
  BY ByMemory DEF InjectionInv
<1>4. \A k \in DOMAIN events : Decided(k) /\ events'[k].outcome # "kept" => Moves(k[2])
  BY DEF Decided, Moves
<1>5. \A m \in Memory : Untouched(m) \/ Moves(m)
  BY <1>2, <1>4 DEF Decided
<1>6. ASSUME NEW k \in DOMAIN events, Decided(k) PROVE Counted(k[2])' /\ Quarantined(k[2])'
  <2> DEFINE m == k[2]
             is == events'[k].outcome
             u == HeadAfter(k, is)
  <2>1. m \in Memory /\ events[k].version \in Version
    BY <1>1, EventKey DEF Event
  <2>2. /\ events[k].outcome = "null" /\ is \in {"kept", "never", "removed", "added_back"}
        /\ is = "added_back" => k[3] = "near_miss"
    BY <1>6 DEF Decided
  <2>3. units[m] \in Unit
    BY <1>1, <2>1, HeadTypes
  <2>4. /\ units'[m].kills = units[m].kills + (IF is = "never" THEN 1 ELSE 0)
        /\ units'[m].citations = units[m].citations + (IF is = "cited" THEN 1 ELSE 0)
        /\ units'[m].removals = units[m].removals
              + (IF is \in {"never", "removed", "mid_thread_removed"} THEN 1 ELSE 0)
        /\ units'[m].injections = units[m].injections + (IF is = "added_back" THEN 1 ELSE 0)
    <3>1. CASE is = "kept"
      <4>1. units'[m] = units[m]
        BY <1>6, <3>1 DEF Decided, Untouched
      <4>2. /\ units[m].kills \in Nat /\ units[m].citations \in Nat
            /\ units[m].removals \in Nat /\ units[m].injections \in Nat
        BY <2>3, UnitFields
      <4> HIDE DEF m, is
      <4> QED
        BY <3>1, <4>1, <4>2
    <3>2. CASE is # "kept"
      <4>1. u \in Unit /\ u.revision = units[m].revision /\ Rewritten(m, u, is)
        BY <1>6, <3>2 DEF Decided
      <4>2. /\ units'[m].kills = u.kills /\ units'[m].citations = u.citations
            /\ units'[m].removals = u.removals /\ units'[m].injections = u.injections
        BY <4>1, RewrittenMoves
      <4>3. /\ u.kills = units[m].kills + (IF is = "never" THEN 1 ELSE 0)
            /\ u.removals = units[m].removals + (IF is = "added_back" THEN 0 ELSE 1)
            /\ u.injections = units[m].injections + (IF is = "added_back" THEN 1 ELSE 0)
            /\ u.citations = units[m].citations
        BY <1>1, <2>2, <3>2, HeadAfterTypes
      <4>4. units[m].citations \in Nat
        BY <2>3, UnitFields
      <4> HIDE DEF m, is, u
      <4> QED
        BY <2>2, <3>2, <4>2, <4>3, <4>4
    <3> QED
      BY <3>1, <3>2
  <2>5. Counted(m)'
    <3>1. /\ DOMAIN events' = DOMAIN events
          /\ \A j \in DOMAIN events : j[2] = m /\ j # k => events'[j].outcome = events[j].outcome
      BY <1>2, <1>6 DEF Retag
    <3>2. /\ "null" \in Outcome \ {"never", "cited", "removed"} /\ is \in Outcome \ {"null"}
          /\ "null" \notin {"added_back"} \cup Feedbacks /\ is # "cited"
      BY <2>2 DEF Outcome, Feedbacks
    <3>3. Counted(m)
      BY <1>3, <2>1
    <3> HIDE DEF m, is
    <3> QED
      BY <1>1, <1>2, <2>1, <2>2, <2>4, <3>1, <3>2, <3>3, CountedAfter DEF m, is
  <2>6. Quarantined(m)'
    <3>1. CASE is = "kept"
      <4>1. Untouched(m)
        BY <1>6, <3>1 DEF Decided
      <4> QED
        BY <1>1, <1>3, <2>1, <4>1, QuarantinedAfter
    <3>2. CASE is # "kept"
      <4>1. /\ u \in Unit /\ u.revision = units[m].revision /\ Rewritten(m, u, is)
            /\ is \in Reason
        BY <1>6, <3>2 DEF Decided
      <4>2. /\ is # "never" => u.status = units[m].status
                               /\ u.kills = units[m].kills + 0
            /\ is = "never" /\ u.status = "active" => u.kills < KillLimit[events[k].version]
        BY <1>1, <2>2, <3>2, HeadAfterTypes DEF LimitOf
      <4>3. is # "never" => u.kills = units[m].kills
        BY <2>3, <4>2, UnitFields
      <4> HIDE DEF m, is, u
      <4>4. \/ is # "never" /\ u.status = units[m].status /\ u.kills = units[m].kills
            \/ u.status = "active" => \E v \in Version : u.kills < KillLimit[v]
        BY <2>1, <4>2, <4>3
      <4>5. Quarantined(m)
        BY <1>3, <2>1
      <4> QED
        BY <1>1, <2>1, <4>1, <4>4, <4>5, QuarantinedAfter
    <3> QED
      BY <3>1, <3>2
  <2> QED
    BY <2>5, <2>6
<1>7. ASSUME NEW m \in Memory PROVE Counted(m)' /\ Quarantined(m)'
  <2>1. CASE \E k \in DOMAIN events : k[2] = m /\ Decided(k)
    BY <1>6, <2>1
  <2>2. CASE ~ \E k \in DOMAIN events : k[2] = m /\ Decided(k)
    <3>1. Untouched(m)
      BY <1>2, <2>2
    <3>2. DOMAIN events' = DOMAIN events /\ \A j \in DOMAIN events :
              j[2] = m => events'[j].outcome = events[j].outcome
      BY <1>2, <2>2 DEF Retag
    <3> QED
      BY <1>1, <1>3, <3>1, <3>2, CountedStill, QuarantinedAfter DEF Untouched
  <2> QED
    BY <2>1, <2>2
<1>8. ASSUME NEW k \in DOMAIN events
      PROVE  /\ k[3] = "near_miss" => events'[k].outcome \in NearOutcome
             /\ events'[k].outcome = "never" => events[k].outcome = "never" \/ Moves(k[2])
  <2>1. k[3] = "near_miss" => events[k].outcome \in NearOutcome
    BY <1>1 DEF EventsOK
  <2>2. CASE events'[k] = events[k]
    BY <2>1, <2>2
  <2>3. CASE Decided(k)
    BY <1>4, <2>3 DEF Decided, NearOutcome
  <2> QED
    BY <1>2, <2>2, <2>3
<1> QED
  BY <1>2, <1>5, <1>7, <1>8, RetagKeeps

-----------------------------------------------------------------------------
(* Prepare: the snapshots of its attempts.                                 *)

LEMMA OnlyCalls ==
    ASSUME InjectionInv, UNCHANGED <<units, rows, threads, events, batches>>,
           call' \in [Handler -> Call], \A h \in Handler : call'[h] = call[h] \/ CallOK(h)'
    PROVE  InjectionInv'
<1>1. InjectionTypes /\ CallsOK
  BY DEF InjectionInv
<1>2. InjectionTypes'
  BY <1>1 DEF InjectionTypes
<1>3. \A t : Vetoed(t)' = Vetoed(t)
  BY DEF Vetoed, OfThread
<1>4. CallsOK'
  <2>1. ASSUME NEW h \in Handler PROVE CallOK(h)'
    BY <1>1, <1>2, <1>3, CallKept
  <2> QED
    BY <2>1 DEF CallsOK
<1>5. EventsOK' /\ CardsAreFrozen' /\ OneGatePerThread' /\ KillsQuarantine'
  BY DEF InjectionInv, EventsOK, CardsAreFrozen, OneGatePerThread, OfThread, KillsQuarantine
<1>6. OutcomesCountedOnce'
  BY DEF InjectionInv, OutcomesCountedOnce, About
<1> QED
  BY <1>2, <1>4, <1>5, <1>6 DEF InjectionInv

LEMMA FreshSnapshot ==
    ASSUME InjectionTypes, NEW t \in Thread, NEW r \in Request, NEW snap \in Admitted(t, r)
    PROVE  /\ snap \in Snapshot /\ Stampable(r, snap.thread)
           /\ \A m \in Pool(snap) : m \in Memory /\ snap.units[m] = units[m] /\ m \notin Vetoed(t)
<1> DEFINE pool == Eligible(t, r)
           seen == [m \in Memory |-> IF m \in pool THEN units[m] ELSE Unseen]
<1>1. PICK v \in Version : snap = [thread |-> Row(t), units |-> seen, version |-> v, ts |-> batches]
  BY DEF Admitted, Snapshots
<1>2. \A m \in Memory : units[m] \in Unit
  BY HeadTypes
<1>3. seen \in [Memory -> Unit \cup {Unseen}]
  BY <1>2
<1>4. Row(t) \in ThreadRow \cup {Absent} /\ batches \in Nat
  BY DEF InjectionTypes, Row
<1>5. \A m \in Memory : seen[m] # Unseen => seen[m] = units[m] /\ m \notin Vetoed(t)
  BY DEF Eligible
<1> HIDE DEF seen
<1>6. snap.units = seen /\ snap \in Snapshot
  BY <1>1, <1>3, <1>4 DEF Snapshot
<1> QED
  BY <1>5, <1>6 DEF Pool, Admitted

(* A handler that has just taken a snapshot may rely on it.                *)
LEMMA FreshCall ==
    ASSUME InjectionInv, UNCHANGED <<units, rows, threads, events, batches>>,
           NEW h \in Handler, call' \in [Handler -> Call], NEW t \in Thread, NEW r \in Request,
           NEW snap \in Admitted(t, r), call'[h].asks = r,
           call'[h].thread = t, call'[h].snap = snap,
           \A g \in Handler \ {h} : call'[g] = call[g]
    PROVE  InjectionInv'
<1> DEFINE c == call'[h]
<1>1. InjectionTypes
  BY DEF InjectionInv
<1>2. /\ snap \in Snapshot /\ Stampable(r, snap.thread)
      /\ \A m \in Pool(snap) : m \in Memory /\ snap.units[m] = units[m] /\ m \notin Vetoed(t)
  BY <1>1, FreshSnapshot
<1>3. SnapshotOK(call[h])'
  <2>1. Vetoed(t)' = Vetoed(t)
    BY DEF Vetoed, OfThread
  <2>2. \A m \in Memory : units[m].revision \in Nat
    BY <1>1, HeadTypes, UnitFields
  <2> QED
    BY <1>2, <2>1, <2>2 DEF SnapshotOK, HeadMoved
<1>4. CallOK(h)'
  BY <1>3 DEF CallOK
<1> QED
  BY <1>4, OnlyCalls

LEMMA PrepareBeginStep ==
    ASSUME InjectionInv, NEW h \in Handler, NEW t \in Thread, NEW r \in Requests[h],
           PrepareBegin(h, t, r)
    PROVE  InjectionInv'
<1>1. r \in Request /\ MaxAttempts \in Nat /\ InjectionTypes
  BY InjectionAssumption DEF InjectionInv
<1> DEFINE c(snap) == [at |-> "prepare", thread |-> t, asks |-> r, left |-> MaxAttempts,
                       snap |-> snap]
<1>2. PICK snap \in Admitted(t, r) : call' = [call EXCEPT ![h] = c(snap)]
  BY DEF PrepareBegin
<1>3. c(snap) \in Call /\ c(snap).thread = t /\ c(snap).asks = r /\ c(snap).snap = snap
  BY <1>1, FreshSnapshot DEF Call
<1> HIDE DEF c
<1>4. /\ call' \in [Handler -> Call] /\ call'[h] = c(snap)
      /\ \A g \in Handler \ {h} : call'[g] = call[g]
  BY <1>1, <1>2, <1>3 DEF InjectionTypes
<1> QED
  BY <1>1, <1>3, <1>4, FreshCall DEF PrepareBegin

(* What is known of a handler in the middle of a prepare.                  *)
LEMMA PrepareCall ==
    ASSUME InjectionInv, NEW h \in Handler, call[h].at = "prepare"
    PROVE  LET c == call[h] IN
           /\ c.thread \in Thread /\ c.asks \in Request /\ c.snap \in Snapshot /\ c.left \in Nat
           /\ SnapshotOK(c)
           /\ c \in [at : {"prepare"}, thread : Thread, asks : Request, left : Nat,
                     snap : Snapshot]
<1>1. call[h] \in Call
  BY DEF InjectionInv, InjectionTypes
<1>2. SnapshotOK(call[h])
  BY DEF InjectionInv, CallsOK, CallOK
<1> QED
  BY <1>1, <1>2 DEF Call

LEMMA PrepareRetryStep ==
    ASSUME InjectionInv, NEW h \in Handler, PrepareRetry(h)
    PROVE  InjectionInv'
<1> DEFINE c == call[h]
<1>1. /\ c.at = "prepare" /\ c.left > 1 /\ UNCHANGED <<units, rows, threads, events, batches>>
      /\ InjectionTypes
  BY DEF PrepareRetry, InjectionInv
<1>2. /\ c.thread \in Thread /\ c.asks \in Request /\ c.left \in Nat
      /\ c \in [at : {"prepare"}, thread : Thread, asks : Request, left : Nat,
                snap : Snapshot]
  BY <1>1, PrepareCall
<1>3. PICK snap \in Admitted(c.thread, c.asks) :
         call' = [call EXCEPT ![h].left = @ - 1, ![h].snap = snap]
  BY DEF PrepareRetry
<1>4. snap \in Snapshot
  BY <1>1, <1>2, FreshSnapshot
<1> DEFINE d == [c EXCEPT !.left = @ - 1, !.snap = snap]
<1>5. call \in [Handler -> Call]
  BY <1>1 DEF InjectionTypes
<1>6. call'[h] = d /\ \A g \in Handler \ {h} : call'[g] = call[g]
  BY <1>3, <1>5
<1>7. DOMAIN call' = Handler /\ call' = [g \in DOMAIN call' |-> call'[g]]
  BY <1>3, <1>5
<1>8. d.thread = c.thread /\ d.asks = c.asks /\ d.snap = snap /\ d \in Call
  <2> DEFINE Prepares == [at : {"prepare"}, thread : Thread, asks : Request, left : Nat,
                          snap : Snapshot]
             n == c.left - 1
  <2>1. n \in Nat
    BY <1>1, <1>2
  <2>2. c \in Prepares /\ d = [c EXCEPT !.left = n, !.snap = snap]
    BY <1>2
  <2> HIDE DEF c, n, d
  <2>3. d.thread = c.thread /\ d.asks = c.asks /\ d.snap = snap /\ d \in Prepares
    BY <1>4, <2>1, <2>2
  <2> QED
    BY <2>3 DEF Call
<1> HIDE DEF d
<1>9. call' \in [Handler -> Call]
  BY <1>5, <1>6, <1>7, <1>8
<1> HIDE DEF c
<1> QED
  BY <1>1, <1>2, <1>6, <1>8, <1>9, FreshCall

LEMMA PrepareFailsStep ==
    ASSUME InjectionInv, NEW h \in Handler, PrepareFails(h)
    PROVE  InjectionInv'
<1>1. call \in [Handler -> Call]
  BY DEF InjectionInv, InjectionTypes
<1>2. Idle \in Call /\ Idle.at # "prepare"
  BY DEF Idle, Call
<1>3. call' = [call EXCEPT ![h] = Idle] /\ UNCHANGED <<units, rows, threads, events, batches>>
  BY DEF PrepareFails
<1>4. call' \in [Handler -> Call] /\ \A g \in Handler : call'[g] = call[g] \/ CallOK(g)'
  BY <1>1, <1>2, <1>3 DEF CallOK
<1> QED
  BY <1>3, <1>4, OnlyCalls

-----------------------------------------------------------------------------
(* Prepare: the attempt that commits.                                      *)

LEMMA SelectionFacts ==
    ASSUME NEW c, NEW s \in Selections(c)
    PROVE  /\ s.injected \subseteq Pool(c.snap)
           /\ s.rest \subseteq Pool(c.snap) \ s.injected
           /\ s.near \subseteq s.rest /\ s.cut \subseteq s.rest
<1> DEFINE pool == Pool(c.snap)
           Pairs(rest) == {q \in (SUBSET rest) \X (SUBSET rest) :
              /\ Cardinality(q[1]) = IF NearK < Cardinality(rest) THEN NearK
                                     ELSE Cardinality(rest)
              /\ q[1] \subseteq q[2] \/ q[2] \subseteq q[1]}
           Ranked(injected, rest) == {Selection(injected, rest, q[1], q[2]) : q \in Pairs(rest)}
           Rests(injected) == {R \in SUBSET (pool \ injected) :
                                  c.asks.current \subseteq injected \cup R}
           Splits(injected) == UNION {Ranked(injected, rest) : rest \in Rests(injected)}
           Fitting == {I \in SUBSET pool : c.asks.confirmed \subseteq I}
<1>1. s \in UNION {Splits(injected) : injected \in Fitting}
  BY DEF Selections
<1> HIDE DEF Splits, Fitting
<1>2. PICK injected \in Fitting : s \in Splits(injected)
  BY <1>1
<1>3. injected \subseteq pool
  BY DEF Fitting
<1> USE DEF Splits
<1> HIDE DEF Rests, Ranked
<1>4. PICK rest \in Rests(injected) : s \in Ranked(injected, rest)
  BY <1>2
<1>5. rest \subseteq pool \ injected
  BY DEF Rests
<1>6. PICK q \in Pairs(rest) : s = Selection(injected, rest, q[1], q[2])
  BY <1>4 DEF Ranked
<1>7. q[1] \subseteq rest /\ q[2] \subseteq rest
  BY DEF Pairs
<1>8. s.injected = injected /\ s.rest = rest /\ s.near = q[1] /\ s.cut = q[2]
  BY <1>6 DEF Selection
<1> QED
  BY <1>3, <1>5, <1>7, <1>8

(* What the batch of a prepare adds: cards, counters and the stamp.        *)
NewCard(k, c, injected) ==
    LET e == events'[k] IN
    /\ k = <<batches + 1, k[2], k[3]>> /\ k[2] \in Memory /\ k[3] \in Shown
    /\ k[3] = "injected" <=> k[2] \in injected
    /\ e \in Event /\ e.thread = c.thread /\ e.frozen = c.snap.units[k[2]].revision
    /\ e.actor = IF c.asks.mode = "gate" THEN "human" ELSE "passive"
    /\ e.outcome \in {"null", "kept", "auto_entered", "auto_exited", "budget_cut"}
    /\ k[3] = "near_miss" => e.outcome \in {"null", "auto_exited"}

Landed(c, injected) ==
    /\ HeadsTyped'
    /\ injected \subseteq Memory
    /\ \A m \in injected : /\ units[m] = c.snap.units[m] /\ m \notin Vetoed(c.thread)
                           /\ Rewritten(m, [units[m] EXCEPT !.injections = @ + 1], "prepare")
                           /\ <<batches + 1, m, "injected">> \in DOMAIN events'
    /\ \A m \in Memory \ injected : Untouched(m)
    /\ DOMAIN events \subseteq DOMAIN events'
    /\ events' = [k \in DOMAIN events' |-> events'[k]]
    /\ \A k \in DOMAIN events : events'[k] = events[k]
    /\ \A k \in DOMAIN events' \ DOMAIN events : NewCard(k, c, injected)

LEMMA NewEventFacts ==
    ASSUME InjectionTypes, NEW c, c.snap \in Snapshot, c.asks \in Request, c.thread \in Thread,
           NEW s \in Selections(c), NEW k \in DOMAIN NewEvents(c, s)
    PROVE  LET e == NewEvents(c, s)[k] IN
           /\ k = <<batches + 1, k[2], k[3]>> /\ k[2] \in Memory /\ k[3] \in Shown
           /\ k[3] = "injected" => k[2] \in s.injected
           /\ k[3] # "injected" => k[2] \notin s.injected
           /\ e \in Event /\ e.thread = c.thread /\ e.frozen = c.snap.units[k[2]].revision
           /\ e.actor = IF c.asks.mode = "gate" THEN "human" ELSE "passive"
           /\ e.outcome \in {"null", "kept", "auto_entered", "auto_exited", "budget_cut"}
           /\ k[3] = "near_miss" => e.outcome \in {"null", "auto_exited"}
<1>1. /\ s.injected \subseteq Pool(c.snap) /\ s.rest \subseteq Pool(c.snap) \ s.injected
      /\ s.near \subseteq s.rest /\ s.cut \subseteq s.rest
  BY SelectionFacts
<1>2. PICK card \in Cards(c, s) : k = <<batches + 1, card[1], card[2]>>
  BY DEF NewEvents
<1>3. /\ card[2] = "injected" => card[1] \in s.injected
      /\ card[2] # "injected" => card[1] \in s.rest
      /\ card[2] \in Shown
  BY <1>1 DEF Cards, Shown
<1>4. /\ k = <<batches + 1, k[2], k[3]>> /\ k[2] = card[1] /\ k[3] = card[2]
  BY <1>2
<1>5. k[2] \in Pool(c.snap) /\ k[2] \in Memory
  BY <1>1, <1>3, <1>4 DEF Pool
<1>6. c.snap.units[k[2]] \in Unit /\ c.snap.version \in Version
  BY <1>5 DEF Pool, Snapshot
<1>7. c.asks.mode \in {"gate", "autonomous"}
  BY DEF Request
<1> DEFINE o == FirstOutcome(c, k[2], k[3])
           a == IF c.asks.mode = "gate" THEN "human" ELSE "passive"
           f == c.snap.units[k[2]].revision
<1>8. /\ o \in {"null", "kept", "auto_entered", "auto_exited", "budget_cut"}
      /\ k[3] = "near_miss" => o \in {"null", "auto_exited"}
  BY <1>3, <1>4, <1>7 DEF FirstOutcome, Shown
<1>9. NewEvents(c, s)[k] = [thread |-> c.thread, version |-> c.snap.version, actor |-> a,
                            frozen |-> f, outcome |-> o]
  BY DEF NewEvents
<1>10. a \in {"human", "passive"} /\ f \in Nat /\ o \in Outcome
  BY <1>6, <1>8, UnitFields DEF Outcome
<1> HIDE DEF o, a, f
<1>11. LET e == NewEvents(c, s)[k] IN
       /\ e \in Event /\ e.thread = c.thread /\ e.frozen = f /\ e.actor = a /\ e.outcome = o
  BY <1>6, <1>9, <1>10 DEF Event
<1> QED
  BY <1>1, <1>3, <1>4, <1>5, <1>8, <1>11 DEF a, f

LEMMA LandFacts ==
    ASSUME InjectionInv, NEW h \in Handler, PrepareLand(h)
    PROVE  LET c == call[h] IN
           /\ c.thread \in Thread /\ c.asks \in Request /\ c.snap \in Snapshot /\ SnapshotOK(c)
           /\ ~ThreadMoved(c) /\ batches' = batches + 1 /\ call' = [call EXCEPT ![h] = Idle]
           /\ threads' = [t \in DOMAIN threads \cup {c.thread} |->
                IF t = c.thread THEN [principal |-> c.asks.principal, stamp |-> c.snap.ts]
                ELSE threads[t]]
           /\ \E injected : Landed(c, injected)
<1> DEFINE c == call[h]
<1>1. /\ c.at = "prepare" /\ ~ThreadMoved(c) /\ batches' = batches + 1
      /\ call' = [call EXCEPT ![h] = Idle]
      /\ threads' = [t \in DOMAIN threads \cup {c.thread} |->
           IF t = c.thread THEN [principal |-> c.asks.principal, stamp |-> c.snap.ts]
           ELSE threads[t]]
  BY DEF PrepareLand
<1>2. c.thread \in Thread /\ c.asks \in Request /\ c.snap \in Snapshot /\ SnapshotOK(c)
  BY <1>1, PrepareCall
<1>3. PICK s \in Selections(c) :
         /\ HeadsStill(c, s)
         /\ WriteHeads(Injected(c, s), [m \in s.injected |-> "prepare"])
         /\ LET new == NewEvents(c, s) IN
            events' = [k \in DOMAIN events \cup DOMAIN new |->
                          IF k \in DOMAIN new THEN new[k] ELSE events[k]]
  BY DEF PrepareLand
<1>4. InjectionTypes
  BY DEF InjectionInv
<1> HIDE DEF c
<1>5. s.injected \subseteq Pool(c.snap) /\ s.injected \subseteq Memory
  BY SelectionFacts DEF Pool
<1>6. \A m \in s.injected : units[m] = c.snap.units[m] /\ m \notin Vetoed(c.thread)
  BY <1>2, <1>3, <1>5 DEF HeadsStill, SnapshotOK
<1> DEFINE changed == Injected(c, s)
           reason == [m \in s.injected |-> "prepare"]
<1>7. /\ DOMAIN changed = s.injected
      /\ \A m \in s.injected : /\ changed[m] = [units[m] EXCEPT !.injections = @ + 1]
                               /\ reason[m] = "prepare"
  BY <1>6 DEF Injected
<1>8. \A m \in s.injected : LET u == [units[m] EXCEPT !.injections = @ + 1] IN
                            u \in Unit /\ u.revision = units[m].revision
  <2>1. SUFFICES ASSUME NEW v \in Unit
                 PROVE  LET u == [v EXCEPT !.injections = @ + 1] IN
                        u \in Unit /\ u.revision = v.revision
    BY <1>4, <1>5, HeadTypes
  <2> QED
    BY DEF Unit
<1> HIDE DEF changed, reason
<1>9. /\ HeadsTyped' /\ \A m \in s.injected : Rewritten(m, changed[m], reason[m])
      /\ \A m \in Memory \ s.injected : Untouched(m)
  <2>1. WriteHeads(changed, reason)
    BY <1>3 DEF changed, reason
  <2>2. "prepare" \in Reason
    BY DEF Reason
  <2> QED
    <3>1. \A m \in DOMAIN changed : /\ changed[m] \in Unit /\ reason[m] \in Reason
                                    /\ changed[m].revision = units[m].revision
      BY <1>7, <1>8, <2>2
    <3>2. DOMAIN changed \subseteq Memory
      BY <1>5, <1>7
    <3>3. /\ HeadsTyped' /\ \A m \in DOMAIN changed : Rewritten(m, changed[m], reason[m])
          /\ \A m \in Memory \ DOMAIN changed : Untouched(m)
      BY <1>4, <2>1, <3>1, <3>2, HeadWrite DEF HeadsTyped
    <3> QED
      BY <1>7, <3>3
<1> DEFINE new == NewEvents(c, s)
<1>10. /\ DOMAIN events' = DOMAIN events \cup DOMAIN new
       /\ events' = [k \in DOMAIN events' |-> events'[k]]
       /\ \A k \in DOMAIN new : events'[k] = new[k]
       /\ \A k \in DOMAIN events \ DOMAIN new : events'[k] = events[k]
  BY <1>3
<1>11. ASSUME NEW k \in DOMAIN new
       PROVE  NewCard(k, c, s.injected) /\ k \notin DOMAIN events
  <2>1. NewCard(k, c, s.injected)
    BY <1>2, <1>4, <1>10, NewEventFacts DEF NewCard
  <2>2. k[1] = batches + 1 /\ batches \in Nat
    BY <1>4, <2>1 DEF NewCard, InjectionTypes
  <2> HIDE DEF new
  <2>3. k \in DOMAIN events => k[1] \in 1 .. batches
    BY <1>4, EventKey
  <2> QED
    BY <2>1, <2>2, <2>3
<1>12. ASSUME NEW m \in s.injected PROVE <<batches + 1, m, "injected">> \in DOMAIN new
  <2>1. <<m, "injected">> \in Cards(c, s)
    BY DEF Cards
  <2> QED
    BY <2>1 DEF NewEvents
<1> HIDE DEF new
<1>13. Landed(c, s.injected)
  BY <1>5, <1>6, <1>7, <1>9, <1>10, <1>11, <1>12 DEF Landed
<1> QED
  BY <1>1, <1>2, <1>13 DEF c

(* The counters of a memory, whether the batch injects it or not.          *)
LEMMA LandCounts ==
    ASSUME InjectionTypes, NEW c, NEW injected, Landed(c, injected),
           NEW m \in Memory, Counted(m), Quarantined(m)
    PROVE  Counted(m)' /\ Quarantined(m)' /\ (Untouched(m) \/ Moves(m))
<1> DEFINE card == <<batches + 1, m, "injected">>
           New == DOMAIN events' \ DOMAIN events
           A(shown, outcomes) == About(m, shown, outcomes)
           B(shown, outcomes) == About(m, shown, outcomes)'
           Later == {"never", "cited", "removed", "mid_thread_removed", "added_back"} \cup Feedbacks
<1>1. units[m] \in Unit /\ batches \in Nat
  BY HeadTypes DEF InjectionTypes
<1>2. /\ DOMAIN events \subseteq DOMAIN events' /\ \A k \in DOMAIN events : events'[k] = events[k]
      /\ \A k \in New : NewCard(k, c, injected)
      /\ m \in injected => card \in DOMAIN events'
  BY DEF Landed
<1>3. ASSUME NEW shown, NEW outcomes \in SUBSET Later PROVE B(shown, outcomes) = A(shown, outcomes)
  <2>1. \A k \in New : events'[k].outcome \notin outcomes
    BY <1>2 DEF NewCard, Feedbacks
  <2> QED
    BY <1>2, <2>1 DEF About
<1>4. card \notin DOMAIN events
  <2>1. card \in DOMAIN events => card[1] \in 1 .. batches
    BY EventKey
  <2> QED
    BY <1>1, <2>1
<1>5. m \notin injected => B({"injected"}, Outcome) = A({"injected"}, Outcome)
  <2>1. ASSUME m \notin injected, NEW k \in New, k[2] = m PROVE k[3] # "injected"
    BY <1>2, <2>1 DEF NewCard
  <2> QED
    BY <1>2, <2>1 DEF About
<1>6. m \in injected => B({"injected"}, Outcome) = A({"injected"}, Outcome) \cup {card}
  <2>1. ASSUME NEW k \in New, k[2] = m, k[3] = "injected" PROVE k = card
    BY <1>2, <2>1 DEF NewCard
  <2>2. ASSUME m \in injected
        PROVE  /\ card \in New /\ card[2] = m /\ card[3] = "injected"
               /\ events'[card].outcome \in Outcome
    BY <1>2, <1>4, <2>2 DEF NewCard, Event
  <2>3. ASSUME m \in injected, NEW k
        PROVE  k \in B({"injected"}, Outcome) <=> k \in A({"injected"}, Outcome) \cup {card}
    BY <1>2, <2>1, <2>2, <2>3 DEF About
  <2> QED
    BY <2>3
<1>7. /\ Cardinality(A({"injected"}, Outcome)) \in Nat
      /\ Cardinality(A({"injected"}, Outcome) \cup {card}) = Cardinality(A({"injected"}, Outcome)) + 1
  <2>1. IsFiniteSet(A({"injected"}, Outcome)) /\ card \notin A({"injected"}, Outcome)
    BY <1>4, AboutFinite DEF About
  <2>2. Cardinality(A({"injected"}, Outcome)) \in Nat
    BY AboutFinite
  <2> HIDE DEF A
  <2> QED
    BY <2>1, <2>2, FS_AddElement
<1>8. \A shown : /\ B(shown, {"never"}) = A(shown, {"never"})
                 /\ B(shown, {"cited"}) = A(shown, {"cited"})
                 /\ B(shown, {"never", "removed", "mid_thread_removed"})
                    = A(shown, {"never", "removed", "mid_thread_removed"})
                 /\ B(shown, {"added_back", "cited"}) = A(shown, {"added_back", "cited"})
                 /\ B(shown, {"added_back"} \cup Feedbacks) = A(shown, {"added_back"} \cup Feedbacks)
  <2>1. \A shown : \A outcomes \in SUBSET Later : B(shown, outcomes) = A(shown, outcomes)
    BY <1>3
  <2> HIDE DEF A, B
  <2> QED
    BY <2>1
<1>9. /\ Cardinality(A({"near_miss"}, {"added_back", "cited"})) \in Nat
      /\ Cardinality(A({"near_miss"}, {"added_back"} \cup Feedbacks)) \in Nat
  BY AboutFinite
<1>10. CASE m \in injected
  <2> DEFINE u == [units[m] EXCEPT !.injections = @ + 1]
  <2>1. /\ u \in Unit /\ u.revision = units[m].revision /\ u.status = units[m].status
        /\ u.kills = units[m].kills /\ u.citations = units[m].citations
        /\ u.removals = units[m].removals /\ u.injections = units[m].injections + 1
        /\ units[m].injections \in Nat
    BY <1>1 DEF Unit
  <2>2. Rewritten(m, u, "prepare") /\ "prepare" \in Reason \ {"never"}
    BY <1>10 DEF Landed, Reason
  <2> HIDE DEF u
  <2>3. /\ units'[m].kills = units[m].kills /\ units'[m].citations = units[m].citations
        /\ units'[m].removals = units[m].removals
        /\ units'[m].injections = units[m].injections + 1
    BY <2>1, <2>2, RewrittenMoves
  <2>4. Quarantined(m)'
    BY <2>1, <2>2, QuarantinedAfter
  <2>5. Moves(m)
    BY <2>1, <2>2 DEF Moves
  <2>6. Cardinality(B({"injected"}, Outcome)) = Cardinality(A({"injected"}, Outcome)) + 1
    BY <1>6, <1>7, <1>10
  <2>7. Counted(m)'
    <3> DEFINE a(shown, outcomes) == Cardinality(A(shown, outcomes))
               b(shown, outcomes) == Cardinality(B(shown, outcomes))
               gone == {"never", "removed", "mid_thread_removed"}
    <3>1. /\ units[m].kills = a(Shown, {"never"}) /\ units[m].citations = a(Shown, {"cited"})
          /\ units[m].removals >= a(Shown, gone)
          /\ units[m].injections >= a({"injected"}, Outcome) + a({"near_miss"}, {"added_back", "cited"})
          /\ units[m].injections
             <= a({"injected"}, Outcome) + a({"near_miss"}, {"added_back"} \cup Feedbacks)
      BY DEF Counted
    <3>2. Counted(m)' <=>
          /\ units'[m].kills = b(Shown, {"never"}) /\ units'[m].citations = b(Shown, {"cited"})
          /\ units'[m].removals >= b(Shown, gone)
          /\ units'[m].injections >= b({"injected"}, Outcome) + b({"near_miss"}, {"added_back", "cited"})
          /\ units'[m].injections
             <= b({"injected"}, Outcome) + b({"near_miss"}, {"added_back"} \cup Feedbacks)
      BY DEF Counted
    <3>3. \A shown : /\ b(shown, {"never"}) = a(shown, {"never"})
                     /\ b(shown, {"cited"}) = a(shown, {"cited"})
                     /\ b(shown, gone) = a(shown, gone)
                     /\ b(shown, {"added_back", "cited"}) = a(shown, {"added_back", "cited"})
                     /\ b(shown, {"added_back"} \cup Feedbacks) = a(shown, {"added_back"} \cup Feedbacks)
      BY <1>8
    <3>4. b({"injected"}, Outcome) = a({"injected"}, Outcome) + 1 /\ a({"injected"}, Outcome) \in Nat
      BY <1>7, <2>6
    <3>5. /\ a({"near_miss"}, {"added_back", "cited"}) \in Nat
          /\ a({"near_miss"}, {"added_back"} \cup Feedbacks) \in Nat
      BY <1>9
    <3>6. /\ b(Shown, {"never"}) = a(Shown, {"never"}) /\ b(Shown, {"cited"}) = a(Shown, {"cited"})
          /\ b(Shown, gone) = a(Shown, gone)
          /\ b({"near_miss"}, {"added_back", "cited"}) = a({"near_miss"}, {"added_back", "cited"})
          /\ b({"near_miss"}, {"added_back"} \cup Feedbacks)
             = a({"near_miss"}, {"added_back"} \cup Feedbacks)
      BY <3>3
    <3> HIDE DEF a, b, gone
    <3>7. \A n, i, x, y \in Nat : /\ n >= i + x => n + 1 >= i + 1 + x
                                  /\ n <= i + y => n + 1 <= i + 1 + y
      OBVIOUS
    <3>8. /\ units'[m].injections >= b({"injected"}, Outcome) + b({"near_miss"}, {"added_back", "cited"})
          /\ units'[m].injections
             <= b({"injected"}, Outcome) + b({"near_miss"}, {"added_back"} \cup Feedbacks)
      BY <2>1, <2>3, <3>1, <3>4, <3>5, <3>6, <3>7
    <3> QED
      BY <2>3, <3>1, <3>2, <3>6, <3>8
  <2> QED
    BY <2>4, <2>5, <2>7
<1>11. CASE m \notin injected
  <2>1. Untouched(m)
    BY <1>11 DEF Landed
  <2>2. Counted(m)'
    BY <1>5, <1>8, <1>11, <2>1 DEF Counted, Untouched
  <2> QED
    BY <2>1, <2>2, QuarantinedAfter
<1> QED
  BY <1>10, <1>11

LEMMA LandFrozen ==
    ASSUME InjectionTypes, CardsAreFrozen, NEW c, NEW injected, Landed(c, injected),
           \A m \in Memory : Untouched(m) \/ Moves(m)
    PROVE  CardsAreFrozen'
<1> DEFINE New == DOMAIN events' \ DOMAIN events
<1>1. /\ DOMAIN events \subseteq DOMAIN events' /\ \A k \in DOMAIN events : events'[k] = events[k]
      /\ \A k \in New : NewCard(k, c, injected) /\ injected \subseteq Memory
  BY DEF Landed
<1>2. ASSUME NEW k \in New, k[3] = "injected"
      PROVE  /\ k[2] \in Memory /\ k = <<batches + 1, k[2], "injected">>
             /\ events'[k].frozen = Len(rows[k[2]]) /\ Len(rows[k[2]]) \in Nat
             /\ events'[k].frozen < Len(rows'[k[2]])
             /\ rows'[k[2]][events'[k].frozen + 1] = "prepare"
  <2>1. /\ k[2] \in Memory /\ k = <<batches + 1, k[2], "injected">> /\ k[2] \in injected
        /\ events'[k].frozen = c.snap.units[k[2]].revision
    BY <1>1, <1>2 DEF NewCard
  <2>2. units[k[2]] = c.snap.units[k[2]] /\ rows'[k[2]] = Append(rows[k[2]], "prepare")
    BY <2>1 DEF Landed, Rewritten
  <2>3. rows[k[2]] \in Seq(Reason) /\ units[k[2]].revision = Len(rows[k[2]])
    BY <2>1, HeadTypes
  <2>4. "prepare" \in Reason
    BY DEF Reason
  <2> QED
    BY <2>1, <2>2, <2>3, <2>4, AppendFacts
<1>3. ASSUME NEW k \in DOMAIN events, k[3] = "injected"
      PROVE  /\ events'[k].frozen = events[k].frozen /\ events[k].frozen \in Nat
             /\ events[k].frozen < Len(rows[k[2]])
             /\ events'[k].frozen < Len(rows'[k[2]])
             /\ rows'[k[2]][events'[k].frozen + 1] = "prepare"
  <2>1. events'[k] = events[k] /\ events[k] \in Event /\ events[k].frozen < Len(rows[k[2]])
    BY <1>1, <1>3, EventKey DEF CardsAreFrozen
  <2>2. /\ events[k].frozen < Len(rows'[k[2]])
        /\ rows'[k[2]][events[k].frozen + 1] = "prepare"
    BY <1>3, FrozenStay
  <2> QED
    BY <2>1, <2>2 DEF Event
<1>4. ASSUME NEW j \in DOMAIN events', NEW k \in DOMAIN events', j[3] = "injected",
             k[3] = "injected", j # k, j[2] = k[2]
      PROVE  events'[j].frozen # events'[k].frozen
  <2>1. CASE j \in DOMAIN events /\ k \in DOMAIN events
    BY <1>1, <1>4, <2>1 DEF CardsAreFrozen
  <2>2. CASE j \in New /\ k \in New
    BY <1>2, <1>4, <2>2
  <2>3. CASE j \in DOMAIN events /\ k \in New
    BY <1>2, <1>3, <1>4, <2>3
  <2>4. CASE j \in New /\ k \in DOMAIN events
    BY <1>2, <1>3, <1>4, <2>4
  <2> QED
    BY <2>1, <2>2, <2>3, <2>4
<1> QED
  BY <1>2, <1>3, <1>4 DEF CardsAreFrozen

LEMMA LandStep ==
    ASSUME InjectionInv, NEW h \in Handler, PrepareLand(h)
    PROVE  InjectionInv'
<1> DEFINE c == call[h]
           New == DOMAIN events' \ DOMAIN events
<1>1. /\ InjectionTypes /\ CallsOK /\ EventsOK /\ CardsAreFrozen /\ OneGatePerThread
      /\ \A m \in Memory : Counted(m) /\ Quarantined(m)
  BY ByMemory DEF InjectionInv
<1>2. /\ c.thread \in Thread /\ c.asks \in Request /\ c.snap \in Snapshot /\ SnapshotOK(c)
      /\ ~ThreadMoved(c) /\ batches' = batches + 1 /\ call' = [call EXCEPT ![h] = Idle]
      /\ threads' = [t \in DOMAIN threads \cup {c.thread} |->
           IF t = c.thread THEN [principal |-> c.asks.principal, stamp |-> c.snap.ts]
           ELSE threads[t]]
  BY LandFacts
<1>3. PICK injected : Landed(c, injected)
  BY LandFacts
<1>4. /\ HeadsTyped' /\ DOMAIN events \subseteq DOMAIN events'
      /\ events' = [k \in DOMAIN events' |-> events'[k]]
      /\ \A k \in DOMAIN events : events'[k] = events[k]
      /\ \A k \in New : NewCard(k, c, injected)
  BY <1>3 DEF Landed
<1>5. \A m \in Memory : Counted(m)' /\ Quarantined(m)' /\ (Untouched(m) \/ Moves(m))
  BY <1>1, <1>3, LandCounts
<1>6. batches \in Nat /\ \A k \in DOMAIN events : k[1] \in 1 .. batches /\ events[k] \in Event
  BY <1>1, EventKey DEF InjectionTypes
<1>7. InjectionTypes'
  <2>1. DOMAIN threads' \subseteq Thread /\ threads' \in [DOMAIN threads' -> ThreadRow]
    <3>1. [principal |-> c.asks.principal, stamp |-> c.snap.ts] \in ThreadRow
      BY <1>2 DEF ThreadRow, Request, Snapshot
    <3>2. DOMAIN threads \subseteq Thread /\ threads \in [DOMAIN threads -> ThreadRow]
      BY <1>1 DEF InjectionTypes
    <3> HIDE DEF c
    <3> QED
      BY <1>2, <3>1, <3>2
  <2>2. DOMAIN events' \subseteq (1 .. batches') \X Memory \X Shown
    <3>1. ASSUME NEW k \in DOMAIN events PROVE k \in (1 .. batches') \X Memory \X Shown
      BY <1>1, <1>2, <1>6, EventKey
    <3>2. ASSUME NEW k \in New PROVE k \in (1 .. batches') \X Memory \X Shown
      <4>1. k = <<batches + 1, k[2], k[3]>> /\ k[2] \in Memory /\ k[3] \in Shown
        BY <1>4 DEF NewCard
      <4>2. batches + 1 \in 1 .. batches'
        BY <1>2, <1>6
      <4> QED
        BY <4>1, <4>2
    <3> QED
      BY <3>1, <3>2
  <2>3. \A k \in DOMAIN events' : events'[k] \in Event
    BY <1>4, <1>6 DEF NewCard
  <2>4. events' \in [DOMAIN events' -> Event]
    <3> DEFINE E == events'
    <3>1. E = [k \in DOMAIN E |-> E[k]] /\ \A k \in DOMAIN E : E[k] \in Event
      BY <1>4, <2>3
    <3> HIDE DEF E
    <3>2. E \in [DOMAIN E -> Event]
      BY <3>1
    <3> QED
      BY <3>2 DEF E
  <2>5. batches' \in Nat /\ call' \in [Handler -> Call]
    <3>1. Idle \in Call
      BY DEF Idle, Call
    <3> QED
      BY <1>1, <1>2, <1>6, <3>1 DEF InjectionTypes
  <2> QED
    BY <1>4, <2>1, <2>2, <2>4, <2>5 DEF InjectionTypes, HeadsTyped
<1>8. CallsOK'
  <2>1. \A m \in Memory : \/ units'[m] = units[m]
                          \/ units'[m].revision = units[m].revision + 1
    BY <1>5, RewrittenMoves DEF Untouched, Moves
  <2>2. \A t : Vetoed(t)' \subseteq Vetoed(t)
    <3>1. \A k \in New : events'[k].outcome # "never"
      BY <1>4 DEF NewCard
    <3> QED
      BY <1>4, <3>1 DEF Vetoed, OfThread
  <2>3. call \in [Handler -> Call]
    BY <1>1 DEF InjectionTypes
  <2>4. ASSUME NEW g \in Handler PROVE CallOK(g)'
    <3>1. CASE g = h
      <4>1. call'[g].at # "prepare"
        BY <1>2, <2>3, <3>1 DEF Idle
      <4> QED
        BY <4>1 DEF CallOK
    <3>2. CASE g # h
      <4>1. call'[g] = call[g]
        BY <1>2, <2>3, <3>2
      <4> QED
        BY <1>1, <1>7, <2>1, <2>2, <4>1, CallKept
    <3> QED
      BY <3>1, <3>2
  <2> QED
    BY <2>4 DEF CallsOK
<1>9. DOMAIN threads' = DOMAIN threads \cup {c.thread}
  BY <1>2
<1>10. EventsOK'
  <2>1. \A k \in DOMAIN events' : events'[k].thread \in DOMAIN threads'
    <3>1. \A k \in DOMAIN events : events[k].thread \in DOMAIN threads
      BY <1>1 DEF EventsOK
    <3>2. \A k \in New : events'[k].thread = c.thread
      BY <1>4 DEF NewCard
    <3> HIDE DEF c
    <3> QED
      BY <1>4, <1>9, <3>1, <3>2
  <2>2. \A k \in DOMAIN events' : k[3] = "near_miss" => events'[k].outcome \in NearOutcome
    <3>1. \A k \in DOMAIN events : k[3] = "near_miss" => events[k].outcome \in NearOutcome
      BY <1>1 DEF EventsOK
    <3> QED
      BY <1>4, <3>1 DEF NewCard, NearOutcome
  <2>3. ASSUME NEW j \in DOMAIN events', NEW k \in DOMAIN events', j[1] = k[1], j[2] = k[2],
               j[3] # "budget_cut", k[3] # "budget_cut"
        PROVE  j = k
    <3>1. \A i \in New : i[1] = batches + 1
      BY <1>4 DEF NewCard
    <3>2. CASE j \in DOMAIN events /\ k \in DOMAIN events
      BY <1>1, <2>3, <3>2 DEF EventsOK
    <3>3. CASE j \in New /\ k \in New
      BY <1>4, <2>3, <3>3 DEF NewCard, Shown
    <3>4. CASE j \in New <=> k \notin New
      BY <1>6, <2>3, <3>1, <3>4
    <3> QED
      BY <3>2, <3>3, <3>4
  <2> QED
    BY <2>1, <2>2, <2>3 DEF EventsOK
<1>11. CardsAreFrozen'
  BY <1>1, <1>3, <1>5, LandFrozen
<1>12. OneGatePerThread'
  <2> DEFINE gate == c.asks.mode = "gate"
  <2>1. gate => \A k \in DOMAIN events : events[k].thread # c.thread
    <3>1. gate => c.snap.thread = Absent
      BY <1>2 DEF SnapshotOK, Stampable
    <3>2. c.thread \in DOMAIN threads => Row(c.thread) \in ThreadRow
      BY <1>1 DEF InjectionTypes, Row
    <3>3. Absent \notin ThreadRow
      BY DEF Absent, ThreadRow
    <3>4. gate => c.thread \notin DOMAIN threads
      BY <1>2, <3>1, <3>2, <3>3 DEF ThreadMoved
    <3> QED
      BY <1>1, <3>4 DEF EventsOK
  <2>2. \A k \in New : /\ k[1] = batches + 1 /\ events'[k].thread = c.thread
                       /\ events'[k].actor = IF gate THEN "human" ELSE "passive"
    BY <1>4 DEF NewCard
  <2> HIDE DEF gate
  <2>3. SUFFICES ASSUME NEW j \in DOMAIN events', NEW k \in DOMAIN events',
                        events'[j].thread = events'[k].thread, events'[j].actor = "human"
                 PROVE  /\ events'[k].actor = "human" => j[1] = k[1]
                        /\ events'[k].actor = "passive" => j[1] < k[1]
    BY DEF OneGatePerThread, OfThread
  <2>4. CASE j \in New
    BY <1>4, <2>1, <2>2, <2>3, <2>4
  <2>5. CASE j \in DOMAIN events /\ k \in New
    <3>1. ~gate
      BY <1>4, <2>1, <2>2, <2>3, <2>5
    <3> QED
      BY <1>6, <2>2, <2>5, <3>1
  <2>6. CASE j \in DOMAIN events /\ k \in DOMAIN events
    <3>1. /\ events'[j] = events[j] /\ events'[k] = events[k]
          /\ events[j].thread \in DOMAIN threads
      BY <1>1, <1>4, <2>6 DEF EventsOK
    <3> QED
      BY <1>1, <2>3, <2>6, <3>1 DEF OneGatePerThread, OfThread
  <2> QED
    BY <2>4, <2>5, <2>6
<1>13. OutcomesCountedOnce' /\ KillsQuarantine'
  <2>1. /\ OutcomesCountedOnce' <=> \A m \in Memory : Counted(m)'
        /\ KillsQuarantine' <=> \A m \in Memory : Quarantined(m)'
    BY DEF OutcomesCountedOnce, Counted, KillsQuarantine, Quarantined, Kills
  <2> QED
    BY <1>5, <2>1
<1> QED
  BY <1>7, <1>8, <1>10, <1>11, <1>12, <1>13 DEF InjectionInv

-----------------------------------------------------------------------------
(* The specification.                                                      *)

LEMMA InjectionInitInv == InjectionInit => InjectionInv
<1> SUFFICES ASSUME InjectionInit PROVE InjectionInv
  OBVIOUS
<1> USE DEF InjectionInit
<1>1. InjectionTypes
  <2>1. NewUnit \in Unit
    BY DEF NewUnit, Unit, Status
  <2>2. <<"created">> \in Seq(Reason) /\ Len(<<"created">>) = 1 /\ NewUnit.revision = 1
    BY DEF Reason, NewUnit
  <2>3. /\ units \in [Memory -> Unit] /\ rows \in [Memory -> Seq(Reason)]
        /\ \A m \in Memory : units[m].revision = Len(rows[m])
    BY <2>1, <2>2
  <2>4. DOMAIN threads = {} /\ DOMAIN events = {}
    BY DEF InjectionInit
  <2>5. threads \in [DOMAIN threads -> ThreadRow] /\ events \in [DOMAIN events -> Event]
    BY DEF InjectionInit
  <2>6. call \in [Handler -> Call]
    BY DEF Idle, Call
  <2> QED
    BY <2>3, <2>4, <2>5, <2>6 DEF InjectionTypes
<1>2. CallsOK
  BY DEF CallsOK, CallOK, Idle
<1>3. DOMAIN events = {} /\ DOMAIN threads = {}
  OBVIOUS
<1>4. EventsOK /\ CardsAreFrozen /\ OneGatePerThread
  BY <1>3 DEF EventsOK, CardsAreFrozen, OneGatePerThread, OfThread
<1>5. OutcomesCountedOnce
  <2>1. \A m \in Memory : /\ units[m].kills = 0 /\ units[m].citations = 0
                          /\ units[m].removals = 0 /\ units[m].injections = 0
    BY DEF NewUnit
  <2>2. \A m, shown, outcomes : About(m, shown, outcomes) = {}
    BY <1>3 DEF About
  <2>3. Cardinality({}) = 0
    BY FS_EmptySet
  <2>4. ASSUME NEW m \in Memory PROVE Counted(m)
    <3>1. \A shown, outcomes : Cardinality(About(m, shown, outcomes)) = 0
      BY <2>2, <2>3
    <3>2. 0 + 0 = 0 /\ 0 >= 0 /\ 0 <= 0
      OBVIOUS
    <3> HIDE DEF InjectionInit
    <3> QED
      BY <2>1, <3>1, <3>2 DEF Counted
  <2> QED
    BY <2>4, ByMemory
<1>6. KillsQuarantine
  <2>1. ASSUME NEW m \in Memory PROVE Quarantined(m)
    <3>1. PICK v \in Version : KillLimit[v] \in Nat \ {0}
      BY InjectionAssumption
    <3>2. units[m].kills = 0
      BY DEF NewUnit
    <3>3. ~(units[m].kills >= KillLimit[v])
      BY <3>1, <3>2
    <3> QED
      BY <3>3 DEF Quarantined
  <2> QED
    BY <2>1, ByMemory
<1> QED
  BY <1>1, <1>2, <1>4, <1>5, <1>6 DEF InjectionInv

LEMMA InjectionStutter ==
    ASSUME InjectionInv, UNCHANGED injectionVars
    PROVE  InjectionInv'
<1>1. call' \in [Handler -> Call] /\ UNCHANGED <<units, rows, threads, events, batches>>
  BY DEF InjectionInv, InjectionTypes, injectionVars
<1>2. \A h \in Handler : call'[h] = call[h]
  BY DEF injectionVars
<1> QED
  BY <1>1, <1>2, OnlyCalls

LEMMA InjectionStep ==
    ASSUME InjectionInv, [InjectionNext]_injectionVars
    PROVE  InjectionInv'
<1>1. CASE \E h \in Handler, t \in Thread : \E r \in Requests[h] : PrepareBegin(h, t, r)
  BY <1>1, PrepareBeginStep
<1>2. CASE \E h \in Handler : PrepareRetry(h) \/ PrepareFails(h) \/ PrepareLand(h)
  BY <1>2, PrepareRetryStep, PrepareFailsStep, LandStep
<1>3. CASE \E b \in 1 .. batches : \E choice \in Choices(b) : Commit(b, choice)
  BY <1>3, CommitStep
<1>4. CASE \E k \in DOMAIN events, signal \in Feedbacks : Feedback(k, signal)
  BY <1>4, FeedbackStep
<1>5. CASE \E m \in Memory, status \in Status \ {"quarantined"} : Patch(m, status)
  BY <1>5, PatchStep
<1>6. CASE UNCHANGED injectionVars
  BY <1>6, InjectionStutter
<1> QED
  BY <1>1, <1>2, <1>3, <1>4, <1>5, <1>6 DEF InjectionNext

(* The inductive invariant.                                                *)
LEMMA InjectionAlways == InjectionSpec => []InjectionInv
<1>1. InjectionInv /\ [InjectionNext]_injectionVars => InjectionInv'
  BY InjectionStep
<1> QED
  BY <1>1, InjectionInitInv, PTL DEF InjectionSpec

(* The tables keep their types, and a head's revision is its number of rows*)
THEOREM InjectionTypesHold == InjectionSpec => []InjectionTypes
<1>1. InjectionInv => InjectionTypes
  BY DEF InjectionInv
<1> QED
  BY <1>1, InjectionAlways, PTL

(* However commits, feedback and prepares of a batch interleave or repeat, *)
(* the counters of a memory (_commit_head_changes, _increment_injection_   *)
(* stats, the feedback writes) are the outcomes of its events, each once.  *)
THEOREM OutcomesCountedOnceHolds == InjectionSpec => []OutcomesCountedOnce
<1>1. InjectionInv => OutcomesCountedOnce
  BY DEF InjectionInv
<1> QED
  BY <1>1, InjectionAlways, PTL

(* The revision an injected card froze is the one its own prepare replaced.*)
THEOREM CardsAreFrozenHolds == InjectionSpec => []CardsAreFrozen
<1>1. InjectionInv => CardsAreFrozen
  BY DEF InjectionInv
<1> QED
  BY <1>1, InjectionAlways, PTL

(* _stamp_thread opens the human gate of a thread once, and first.         *)
THEOREM OneGatePerThreadHolds == InjectionSpec => []OneGatePerThread
<1>1. InjectionInv => OneGatePerThread
  BY DEF InjectionInv
<1> QED
  BY <1>1, InjectionAlways, PTL

(* A memory killed as often as every scorer's limit is out of circulation, *)
(* unless a PATCH after the last kill has brought it back.                 *)
THEOREM KillsQuarantineHolds == InjectionSpec => []KillsQuarantine
<1>1. InjectionInv => KillsQuarantine
  BY DEF InjectionInv
<1> QED
  BY <1>1, InjectionAlways, PTL

-----------------------------------------------------------------------------
(* What a step may never do.                                               *)

LEMMA NoneRevivedByStep ==
    ASSUME InjectionInv, [InjectionNext]_injectionVars
    PROVE  NoneRevived
<1>1. ASSUME DOMAIN events' = DOMAIN events PROVE NoneRevived
  BY <1>1 DEF NoneRevived
<1>2. ASSUME NEW h \in Handler, PrepareLand(h) PROVE NoneRevived
  <2>1. PICK injected : Landed(call[h], injected)
    BY <1>2, LandFacts
  <2>2. SUFFICES ASSUME NEW k \in DOMAIN events' \ DOMAIN events, k[3] = "injected"
                 PROVE  k[2] \notin Vetoed(events'[k].thread)
    BY DEF NoneRevived
  <2>3. k[2] \in injected /\ events'[k].thread = call[h].thread
    BY <2>1, <2>2 DEF Landed, NewCard
  <2> QED
    BY <2>1, <2>3 DEF Landed
<1>3. ASSUME NEW b \in 1 .. batches, NEW choice \in Choices(b), Commit(b, choice)
      PROVE  DOMAIN events' = DOMAIN events
  BY <1>3, CommitFacts DEF Retag
<1>4. ASSUME NEW k \in DOMAIN events, NEW signal \in Feedbacks, Feedback(k, signal)
      PROVE  DOMAIN events' = DOMAIN events
  BY <1>4, FeedbackFacts DEF Retag
<1>5. ASSUME \/ \E h \in Handler, t \in Thread : \E r \in Requests[h] : PrepareBegin(h, t, r)
             \/ \E h \in Handler : PrepareRetry(h) \/ PrepareFails(h)
             \/ \E m \in Memory, status \in Status \ {"quarantined"} : Patch(m, status)
             \/ UNCHANGED injectionVars
      PROVE  DOMAIN events' = DOMAIN events
  BY <1>5 DEF PrepareBegin, PrepareRetry, PrepareFails, Patch, injectionVars
<1> QED
  BY <1>1, <1>2, <1>3, <1>4, <1>5 DEF InjectionNext

(* No prepare injects into a thread what that thread has vetoed, even when *)
(* the veto committed after the prepare had loaded its candidates: the     *)
(* veto wrote the head, and the compare-and-swap then fails.               *)
THEOREM VetoesHoldAlways == InjectionSpec => VetoesHold
<1>1. InjectionInv /\ [InjectionNext]_injectionVars => [NoneRevived]_injectionVars
  BY NoneRevivedByStep
<1> QED
  BY <1>1, InjectionAlways, PTL DEF InjectionSpec, VetoesHold

LEMMA StatusEarnedByStep ==
    ASSUME InjectionInv, [InjectionNext]_injectionVars
    PROVE  StatusEarned
<1>0. InjectionTypes
  BY DEF InjectionInv
<1> DEFINE Earned(m) ==
              \/ units'[m].status = units[m].status
              \/ rows'[m][Len(rows'[m])] = "patched"
              \/ /\ units[m].status = "active" /\ units'[m].status = "quarantined"
                 /\ \E k \in DOMAIN events' :
                       /\ k[2] = m /\ events'[k].outcome = "never"
                       /\ events[k].outcome # "never"
                       /\ units'[m].kills >= KillLimit[events'[k].version]
<1>1. SUFFICES ASSUME NEW m \in Memory PROVE Earned(m)
  BY DEF StatusEarned
<1>2. ASSUME Untouched(m) PROVE Earned(m)
  BY <1>2 DEF Untouched
<1>3. ASSUME NEW h \in Handler, PrepareLand(h) PROVE Earned(m)
  <2>1. PICK injected : Landed(call[h], injected)
    BY <1>3, LandFacts
  <2>2. CASE m \in injected
    <3>1. Rewritten(m, [units[m] EXCEPT !.injections = @ + 1], "prepare")
      BY <2>1, <2>2 DEF Landed
    <3>2. units[m] \in Unit
      BY <1>0, HeadTypes
    <3>3. units'[m].status = units[m].status
      BY <3>1, <3>2 DEF Rewritten, Unit
    <3> QED
      BY <3>3
  <2>3. CASE m \notin injected
    BY <1>2, <2>1, <2>3 DEF Landed
  <2> QED
    BY <2>2, <2>3
<1>4. ASSUME NEW b \in 1 .. batches, NEW choice \in Choices(b), Commit(b, choice)
      PROVE  Earned(m)
  <2>1. CASE Untouched(m)
    BY <1>2, <2>1
  <2>2. CASE ~Untouched(m)
    <3>1. PICK k \in DOMAIN events : k[2] = m /\ Decided(k)
      BY <1>4, <2>2, CommitFacts
    <3> DEFINE is == events'[k].outcome
               u == HeadAfter(k, is)
    <3>2. /\ events[k].outcome = "null" /\ is \in {"never", "removed", "added_back"}
          /\ u \in Unit /\ u.revision = units[m].revision /\ Rewritten(m, u, is)
      BY <2>2, <3>1 DEF Decided
    <3>3. units'[m].status = u.status /\ units'[m].kills = u.kills
      BY <3>2, RewrittenMoves
    <3>4. /\ is # "never" => u.status = units[m].status
          /\ u.status # units[m].status =>
                /\ units[m].status = "active" /\ u.status = "quarantined"
                /\ u.kills >= LimitOf(k)
      BY <1>0, <3>1, <3>2, HeadAfterTypes
    <3>5. k \in DOMAIN events' /\ LimitOf(k) = KillLimit[events'[k].version]
      BY <1>4, CommitFacts DEF Retag, LimitOf
    <3> HIDE DEF u, is
    <3>6. CASE u.status = units[m].status
      BY <3>3, <3>6
    <3>7. CASE u.status # units[m].status
      <4>1. is = "never" /\ units[m].status = "active" /\ u.status = "quarantined"
        BY <3>4, <3>7
      <4> QED
        BY <3>1, <3>2, <3>3, <3>4, <3>5, <3>7, <4>1 DEF is
    <3> QED
      BY <3>6, <3>7
  <2> QED
    BY <2>1, <2>2
<1>5. ASSUME NEW k \in DOMAIN events, NEW signal \in Feedbacks, Feedback(k, signal)
      PROVE  Earned(m)
  <2>1. CASE Untouched(m)
    BY <1>2, <2>1
  <2>2. CASE ~Untouched(m)
    <3> DEFINE u == Heard(units[m], signal)
    <3>1. k[2] = m /\ u \in Unit /\ u.revision = units[m].revision /\ Rewritten(m, u, signal)
      BY <1>5, <2>2, FeedbackFacts
    <3>2. units'[m].status = u.status
      BY <3>1, RewrittenMoves
    <3>3. u.status = units[m].status
      <4>1. units[m] \in Unit
        BY <1>0, HeadTypes
      <4> QED
        BY <4>1 DEF Heard, Unit
    <3> QED
      BY <3>2, <3>3
  <2> QED
    BY <2>1, <2>2
<1>6. ASSUME NEW n \in Memory, NEW status \in Status, Patch(n, status) PROVE Earned(m)
  <2>1. CASE m # n
    BY <1>2, <1>6, <2>1, PatchStep
  <2>2. CASE m = n
    <3>1. rows'[m] = Append(rows[m], "patched") /\ rows[m] \in Seq(Reason)
      BY <1>0, <1>6, <2>2, PatchStep, HeadTypes DEF Rewritten
    <3>2. rows'[m][Len(rows'[m])] = "patched"
      BY <3>1, AppendFacts DEF Reason
    <3> QED
      BY <3>2
  <2> QED
    BY <2>1, <2>2
<1>7. ASSUME \/ \E h \in Handler, t \in Thread : \E r \in Requests[h] : PrepareBegin(h, t, r)
             \/ \E h \in Handler : PrepareRetry(h) \/ PrepareFails(h)
             \/ UNCHANGED injectionVars
      PROVE  Untouched(m)
  BY <1>7 DEF PrepareBegin, PrepareRetry, PrepareFails, injectionVars, Untouched
<1> HIDE DEF Earned
<1> QED
  BY <1>2, <1>3, <1>4, <1>5, <1>6, <1>7 DEF InjectionNext

(* Only a PATCH, or the kill that reaches the limit of the scorer that     *)
(* showed the card, changes what a memory's status is.                     *)
THEOREM QuarantineIsEarnedHolds == InjectionSpec => QuarantineIsEarned
<1>1. InjectionInv /\ [InjectionNext]_injectionVars => [StatusEarned]_injectionVars
  BY StatusEarnedByStep
<1> QED
  BY <1>1, InjectionAlways, PTL DEF InjectionSpec, QuarantineIsEarned
=============================================================================
