----------------------------- MODULE ModelPolicy -----------------------------
(***************************************************************************)
(* Which model serves a thread (src/spine/model_policy.py): the selection  *)
(* rules over the broker's benchmark table, the catalogue client's cache,  *)
(* and the resolver that keeps one choice per thread while policies and    *)
(* tables change between its awaits.  Prices are whole numbers; the        *)
(* logarithm of a price is a constant.                                     *)
(***************************************************************************)
EXTENDS Integers, Sequences, SequencesExt, FiniteSetsExt

CONSTANTS
    Log,            \* price -> log10, on positive prices
    Willingness,    \* values of slope:<lambda>
    Catalog,        \* what the broker may list: [rows, entries]
    Policy,         \* [kind, value]
    Static,         \* the configured model
    Chosen,         \* models turns are sent to by name
    Thread, Asker,
    NoRow           \* what a failed selection is instead of a row

(* A row of the broker's table; the slug stands for its place in the       *)
(* alphabet, and a price below 0 for one that is missing.                  *)
Row == [slug : Int, index : Int, price : Int, completion : Int]

ASSUME TablesAssumption ==
    \A catalog \in Catalog :
        /\ catalog.rows \subseteq Row /\ IsFiniteSet(catalog.rows)
        /\ \A row \in catalog.rows : row.price > 0 => row.price \in DOMAIN Log

ASSUME ModelPolicyAssumption ==
    /\ Log \in [DOMAIN Log -> Int] /\ DOMAIN Log \subseteq Nat \ {0}
    /\ \A p, q \in DOMAIN Log : p < q => Log[p] < Log[q]
    /\ Willingness \subseteq Nat \ {0}
    /\ Policy # {} /\ Catalog # {}
    /\ <<>> \notin Asker

(* parse_model_policy: the five forms, a number among them positive.       *)
Parsed(p) ==
    \/ p.kind \in {"max", "elbow", "pinned"}
    \/ p.kind \in {"slope", "floor"} /\ p.value > 0

ASSUME PolicyAssumption == \A p \in Policy : Parsed(p)

VARIABLES
    listed,         \* what the broker lists now
    policy,         \* the resolver's policy
    cached,         \* the catalogue client's last catalogue, if it is fresh
    retained,       \* thread -> [model, images] of its resolution
    confirmed,      \* models whose image input the catalogue confirmed
    asker,          \* where each request stands
    resolverLock,
    answers         \* thread and model of every answer to resolve

policyVars == <<listed, policy, cached, retained, confirmed, asker, resolverLock, answers>>

NoModel == <<>>
Asking == [pc |-> "rest"]

-----------------------------------------------------------------------------
(* select_model.                                                           *)

Dominates(other, row) ==
    /\ other.index >= row.index /\ other.price <= row.price
    /\ other.index > row.index \/ other.price < row.price

(* One row per coordinate, and none that is dominated.                     *)
Unique(rows) ==
    {row \in rows : \A other \in rows :
        other.index = row.index /\ other.price = row.price => row.slug <= other.slug}
Undominated(rows) ==
    {row \in Unique(rows) : ~ \E other \in Unique(rows) : Dominates(other, row)}

(* In order of intelligence: the k-th has k - 1 below it.                  *)
Below(S, row) == {other \in S : other.index < row.index}
ParetoFrontier(rows) ==
    LET S == Undominated(rows) IN
    [k \in 1 .. Cardinality(S) |-> CHOOSE row \in S : Cardinality(Below(S, row)) = k - 1]

(* The row with the least key, the slug breaking ties.                     *)
Earlier(k, o) == \E n \in DOMAIN k : k[n] < o[n] /\ \A m \in 1 .. n - 1 : k[m] = o[m]
Least(key) ==
    LET full == [row \in DOMAIN key |-> Append(key[row], row.slug)] IN
    CHOOSE row \in DOMAIN key : \A other \in DOMAIN key :
        full[row] = full[other] \/ Earlier(full[row], full[other])

SelectMax(rows) == Least([row \in rows |-> <<-row.index, row.price>>])

SelectFloor(rows, floor) ==
    LET eligible == {row \in rows : row.index >= floor} IN
    IF eligible = {} THEN NoRow
    ELSE Least([row \in eligible |-> <<row.price, row.completion>>])

(* A free model is priced as the cheapest of the table that is not free.   *)
PricedAt(rows, row) ==
    IF row.price > 0 THEN row.price ELSE Min({r.price : r \in {x \in rows : x.price > 0}})

(* x - y of the unit square, multiplied out.                               *)
Offset(rows, frontier, row) ==
    LET first == frontier[1]
        last == frontier[Len(frontier)]
        log(r) == Log[PricedAt(rows, r)] IN
    (row.index - first.index) * (log(last) - log(first))
    - (log(row) - log(first)) * (last.index - first.index)

SelectElbow(rows) ==
    LET frontier == ParetoFrontier(rows)
        points == Range(frontier)
        positive == {row \in points : Offset(rows, frontier, row) > 0} IN
    IF Len(frontier) < 3 \/ positive = {} THEN SelectMax(points)
    ELSE Least([row \in positive |-> <<-Offset(rows, frontier, row), row.price>>])

Cross(first, middle, last) ==
    (middle.index - first.index) * (last.price - first.price)
    - (middle.price - first.price) * (last.index - first.index)

(* Fault: a point above the string is popped only once.                    *)
KeptOnce(hull, row) ==
    IF Len(hull) >= 2 /\ Cross(hull[Len(hull) - 1], hull[Len(hull)], row) < 0
    THEN Len(hull) - 1 ELSE Len(hull)

(* How much of the hull is left when its last points are popped.           *)
Kept(hull, row) ==
    IF hull = <<>> THEN 0
    ELSE Max({n \in DOMAIN hull : n >= 2 => Cross(hull[n - 1], hull[n], row) >= 0})

LowerConvexHull(frontier) ==
    FoldLeft(LAMBDA hull, row : Append(SubSeq(hull, 1, Kept(hull, row)), row), <<>>, frontier)

(* The loop climbs until the first segment that costs too much.            *)
SelectSlope(rows, willingness) ==
    LET hull == LowerConvexHull(ParetoFrontier(rows))
        worth(k) == hull[k + 1].price - hull[k].price
                    <= willingness * (hull[k + 1].index - hull[k].index) IN
    IF Len(ParetoFrontier(rows)) < 2 THEN NoRow
    ELSE hull[Max({n \in DOMAIN hull : \A k \in 1 .. n - 1 : worth(k)})]

SelectModel(p, rows) ==
    CASE p.kind = "max" -> SelectMax(rows)
      [] p.kind = "floor" -> SelectFloor(rows, p.value)
      [] p.kind = "elbow" -> SelectElbow(rows)
      [] p.kind = "slope" -> SelectSlope(rows, p.value)

(* _parse_benchmark_rows: rows that are complete.  Two rows of one model   *)
(* that differ, or none, make the table unavailable.                       *)
Complete(rows) == {row \in rows : row.price >= 0 /\ row.completion >= 0}

Readable(rows) ==
    /\ Complete(rows) # {}
    /\ \A row, other \in Complete(rows) : row.slug = other.slug => row = other

(* _parse_model_routes: the one standard id of a model, or its only id.    *)
RoutesOf(entries, slug) ==
    LET ids == {x \in entries : x.slug = slug}
        standard == {x \in ids : ~x.variant} IN
    {x \in ids : /\ x.context > 0
                 /\ standard = {x} \/ (standard = {} /\ ids = {x})}

-----------------------------------------------------------------------------
(* The resolver.                                                           *)

(* The model a non-pinned policy takes from a catalogue; whatever is not   *)
(* to be had there leaves the configured model.                            *)
ModelFrom(p, catalog) ==
    LET row == SelectModel(p, Complete(catalog.rows)) IN
    IF row = NoRow \/ RoutesOf(catalog.entries, row.slug) = {} THEN Static
    ELSE (CHOOSE x \in RoutesOf(catalog.entries, row.slug) : TRUE).id

Publish(catalog) ==
    /\ listed' = catalog
    /\ UNCHANGED <<policy, cached, retained, confirmed, asker, resolverLock, answers>>

(* Twenty-four hours pass.                                                 *)
Expire ==
    /\ cached # NoModel
    /\ cached' = NoModel
    /\ UNCHANGED <<listed, policy, retained, confirmed, asker, resolverLock, answers>>

SetPolicy(p) ==
    /\ policy' = p
    /\ UNCHANGED <<listed, cached, retained, confirmed, asker, resolverLock, answers>>

Answered(t, model) == answers \cup {<<t, model>>}

Retain(c, t, model) ==
    /\ retained' = [retained EXCEPT ![t] = [model |-> model, images |-> FALSE]]
    /\ answers' = Answered(t, model)
    /\ asker' = [asker EXCEPT ![c] = Asking]
    /\ resolverLock' = NoModel

(* resolve answers from what is retained, or queues for the lock.          *)
Resolve(c, t) ==
    /\ asker[c] = Asking
    /\ IF retained[t] # NoModel
       THEN answers' = Answered(t, retained[t].model) /\ UNCHANGED asker
       ELSE asker' = [asker EXCEPT ![c] = [pc |-> "lock", thread |-> t]] /\ UNCHANGED answers
    /\ UNCHANGED <<listed, policy, cached, retained, confirmed, resolverLock>>

(* Fault: the thread is not looked up again under the lock.                *)
ForgetsOthers(t) == FALSE

ResolvedMeanwhile(t) == retained[t] # NoModel

(* Under the lock: somebody resolved it, or a pin or a fresh cache needs   *)
(* no request, or the catalogue is asked.                                  *)
EnterResolve(c) ==
    LET t == asker[c].thread IN
    /\ asker[c].pc = "lock" /\ resolverLock = NoModel
    /\ \/ /\ ResolvedMeanwhile(t)
          /\ answers' = Answered(t, retained[t].model)
          /\ asker' = [asker EXCEPT ![c] = Asking]
          /\ UNCHANGED <<retained, resolverLock>>
       \/ /\ ~ResolvedMeanwhile(t) /\ policy.kind = "pinned" /\ policy.value = Static
          /\ Retain(c, t, Static)
       \/ /\ ~ResolvedMeanwhile(t) /\ policy.kind # "pinned" /\ cached # NoModel
          /\ Retain(c, t, ModelFrom(policy, cached))
       \/ /\ ~ResolvedMeanwhile(t)
          /\ IF policy.kind = "pinned" THEN policy.value # Static ELSE cached = NoModel
          /\ asker' = [asker EXCEPT ![c] =
                [pc |-> IF policy.kind = "pinned" THEN "named" ELSE "load", thread |-> t]]
          /\ resolverLock' = c
          /\ UNCHANGED <<retained, answers>>
    /\ UNCHANGED <<listed, policy, cached, confirmed>>

(* The policy is read again after the await: one that became a pin while   *)
(* the table was loaded, or stopped being one, is an error to the caller.  *)
Misled(c) ==
    /\ asker' = [asker EXCEPT ![c] = Asking]
    /\ resolverLock' = NoModel
    /\ UNCHANGED <<retained, answers>>

(* load: an answer is cached; without one that can be read the policy      *)
(* fails open.                                                             *)
LoadCatalog(c) ==
    /\ asker[c].pc = "load"
    /\ \E ok \in {FALSE, Readable(listed.rows)} :
          /\ cached' = IF ok THEN listed ELSE cached
          /\ IF ~ok THEN Retain(c, asker[c].thread, Static)
             ELSE IF policy.kind = "pinned" THEN Misled(c)
             ELSE Retain(c, asker[c].thread, ModelFrom(policy, listed))
    /\ UNCHANGED <<listed, policy, confirmed>>

(* load_named_route finds the pin's window, and perhaps its image input,   *)
(* or does not; the pin stands.                                            *)
LoadNamed(c) ==
    /\ asker[c].pc = "named"
    /\ IF policy.kind = "pinned"
       THEN /\ Retain(c, asker[c].thread, policy.value)
            /\ confirmed' \in {confirmed, confirmed \cup {policy.value}}
       ELSE Misled(c) /\ UNCHANGED confirmed
    /\ UNCHANGED <<listed, policy, cached>>

(* What a turn may go by: the thread's own resolution, or one that         *)
(* resolve_named or resolve_hydrated made without touching it.             *)
TurnModels(t) ==
    Chosen \cup IF retained[t] = NoModel THEN {} ELSE {retained[t].model}

(* resolve_image_capability of that resolution.                            *)
ImageTurn(c, t, model) ==
    /\ asker[c] = Asking /\ model \in TurnModels(t) \ confirmed
    /\ asker' = [asker EXCEPT ![c] = [pc |-> "image", thread |-> t, model |-> model]]
    /\ UNCHANGED <<listed, policy, cached, retained, confirmed, resolverLock, answers>>

SameChoice(t, model) == retained[t] # NoModel /\ retained[t].model = model

(* The catalogue answers, with image input or without.                     *)
ImageConfirmed(c) ==
    /\ asker[c].pc = "image"
    /\ confirmed' = confirmed \cup {asker[c].model}
    /\ asker' = [asker EXCEPT ![c].pc = "enrich"]
    /\ UNCHANGED <<listed, policy, cached, retained, resolverLock, answers>>

(* The retained resolution is replaced under the lock.                     *)
Enrich(c) ==
    LET q == asker[c] IN
    /\ q.pc = "enrich" /\ resolverLock = NoModel
    /\ retained' = IF SameChoice(q.thread, q.model)
                   THEN [retained EXCEPT ![q.thread] = [model |-> q.model, images |-> TRUE]]
                   ELSE retained
    /\ asker' = [asker EXCEPT ![c] = Asking]
    /\ UNCHANGED <<listed, policy, cached, confirmed, resolverLock, answers>>

ImageUnknown(c) ==
    /\ asker[c].pc = "image"
    /\ asker' = [asker EXCEPT ![c] = Asking]
    /\ UNCHANGED <<listed, policy, cached, retained, confirmed, resolverLock, answers>>

PolicyInit ==
    /\ listed \in Catalog /\ policy \in Policy
    /\ cached = NoModel /\ confirmed = {} /\ answers = {}
    /\ retained = [t \in Thread |-> NoModel]
    /\ asker = [c \in Asker |-> Asking] /\ resolverLock = NoModel

PolicyNext ==
    \/ \E catalog \in Catalog : Publish(catalog)
    \/ Expire
    \/ \E p \in Policy : SetPolicy(p)
    \/ \E c \in Asker :
        \/ \E t \in Thread : Resolve(c, t) \/ \E model \in TurnModels(t) : ImageTurn(c, t, model)
        \/ EnterResolve(c) \/ LoadCatalog(c) \/ LoadNamed(c)
        \/ ImageConfirmed(c) \/ Enrich(c) \/ ImageUnknown(c)

PolicySpec == PolicyInit /\ [][PolicyNext]_policyVars

-----------------------------------------------------------------------------
(* What intelligence is worth at a willingness l to pay, less its price.   *)
Surplus(l, row) == l * row.index - row.price
Beats(l, pick, row) ==
    \/ Surplus(l, row) < Surplus(l, pick)
    \/ Surplus(l, row) = Surplus(l, pick) /\ row.index <= pick.index

(***************************************************************************)
(* The picks from a table that can be read are the ones A-021 argues for:  *)
(* slope takes the model with the greatest surplus of intelligence at the  *)
(* given price, the most intelligent of several; elbow the one deepest     *)
(* below the chord, and never a dominated one (select_model with           *)
(* pareto_frontier and lower_convex_hull).                                 *)
(***************************************************************************)
PicksAreBest ==
    LET rows == Complete(listed.rows)
        frontier == ParetoFrontier(rows)
        elbow == SelectElbow(rows) IN
    Readable(listed.rows) =>
    /\ \A l \in Willingness :
        LET pick == SelectSlope(rows, l) IN
        pick # NoRow => \A row \in rows : Beats(l, pick, row)
    /\ \A row \in rows :
        /\ ~Dominates(row, elbow)
        /\ Len(frontier) >= 3 =>
              \/ Offset(rows, frontier, row) <= Offset(rows, frontier, elbow)
              \/ Offset(rows, frontier, row) <= 0

(***************************************************************************)
(* A thread keeps its model for the daemon's life: every resolve of it     *)
(* answers the same one although policies and tables change, caches        *)
(* expire, requests race for the lock and image turns of another model     *)
(* rewrite what is retained (resolve, resolve_image_capability).           *)
(***************************************************************************)
ThreadsKeepTheirModel == \A a, b \in answers : a[1] = b[1] => a = b
=============================================================================
