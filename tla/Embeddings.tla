------------------------------ MODULE Embeddings ------------------------------
(***************************************************************************)
(* Embedding calls under the connection pool (src/spine/embeddings with    *)
(* the callers in src/spine/memory/service.py and src/spine/db/engine.py). *)
(* The receipt of a call is appended, on a connection of its own, before   *)
(* the vector is released.  create embeds before it opens its session;     *)
(* create_candidate embeds inside it, with a pooled connection and the     *)
(* principal's lock in hand.                                               *)
(***************************************************************************)
EXTENDS Naturals, FiniteSets

CONSTANTS
    Creator,        \* requests that call create
    Nominator,      \* requests that call create_candidate
    PrincipalOf,    \* request -> principal
    PoolSize        \* pool_size + max_overflow

ASSUME EmbeddingsAssumption ==
    PoolSize \in Nat \ {0} /\ Creator \cap Nominator = {}

VARIABLES
    step,           \* where each request stands
    held,           \* connections checked out by each request
    owner,          \* principal -> request that has its advisory lock
    billed,         \* requests whose embedding the provider charged
    receipted,      \* requests whose receipt is committed
    stored          \* requests whose memory is committed

poolVars == <<step, held, owner, billed, receipted, stored>>

Request == Creator \cup Nominator
Nobody == <<>>
PrincipalIds == {PrincipalOf[r] : r \in Request}

InUse == {c \in Request \X (1 .. 2) : c[2] <= held[c[1]]}

(* A checkout waits for a connection.                                      *)
Available == Cardinality(InUse) < PoolSize

(* The request moves on, with so many connections.                         *)
Goto(r, pc, n) ==
    /\ step' = [step EXCEPT ![r] = pc]
    /\ held' = [held EXCEPT ![r] = n]

-----------------------------------------------------------------------------
(* create: the vector first.                                               *)
StartCreate(r) ==
    /\ r \in Creator /\ step[r] = "start"
    /\ Goto(r, "embed", 0)
    /\ UNCHANGED <<owner, billed, receipted, stored>>

(* create_candidate, and create once it has its vector, open a session.    *)
OpenSession(r) ==
    /\ \/ r \in Nominator /\ step[r] = "start"
       \/ r \in Creator /\ step[r] = "session"
    /\ Available
    /\ Goto(r, "lock", held[r] + 1)
    /\ UNCHANGED <<owner, billed, receipted, stored>>

(* pg_advisory_xact_lock of the principal: waiting keeps the connection.   *)
LockPrincipal(r) ==
    /\ step[r] = "lock" /\ owner[PrincipalOf[r]] = Nobody
    /\ owner' = [owner EXCEPT ![PrincipalOf[r]] = r]
    /\ Goto(r, IF r \in Nominator THEN "embed" ELSE "insert", held[r])
    /\ UNCHANGED <<billed, receipted, stored>>

(* A request that ends gives back its lock and its connections.            *)
Unowned(r) == [p \in DOMAIN owner |-> IF owner[p] = r THEN Nobody ELSE owner[p]]

End(r, pc) ==
    /\ Goto(r, pc, 0)
    /\ owner' = Unowned(r)

(* Fault: the vector is released and the receipt forgotten.                *)
AfterEmbedUnpaid(r) == IF r \in Creator THEN "session" ELSE "insert"

AfterEmbed(r) == "receipt"

AfterReceipt(r) == IF r \in Creator THEN "session" ELSE "insert"

(* The provider answers with usage to receipt.                             *)
Embed(r) ==
    /\ step[r] = "embed"
    /\ billed' = billed \cup {r}
    /\ Goto(r, AfterEmbed(r), held[r])
    /\ UNCHANGED <<owner, receipted, stored>>

(* It answers without usage, so there is nothing to receipt.               *)
EmbedFree(r) ==
    /\ step[r] = "embed"
    /\ Goto(r, AfterReceipt(r), held[r])
    /\ UNCHANGED <<owner, billed, receipted, stored>>

(* Transport, status or vectors that do not validate; some were charged.   *)
EmbedFails(r) ==
    /\ step[r] = "embed"
    /\ \E charged \in BOOLEAN : billed' = IF charged THEN billed \cup {r} ELSE billed
    /\ End(r, "failed")
    /\ UNCHANGED <<receipted, stored>>

(* The receipt's own connection and transaction.                           *)
CheckoutReceipt(r) ==
    /\ step[r] = "receipt" /\ Available
    /\ Goto(r, "append", held[r] + 1)
    /\ UNCHANGED <<owner, billed, receipted, stored>>

AppendReceipt(r) ==
    /\ step[r] = "append"
    /\ receipted' = receipted \cup {r}
    /\ Goto(r, AfterReceipt(r), held[r] - 1)
    /\ UNCHANGED <<owner, billed, stored>>

(* Fault: a checkout waits for ever.                                       *)
NeverTimesOut(r) == FALSE

(* The pool gives up on a checkout that waited its timeout out.            *)
TimedOut(r) == ~Available

(* A receipt that cannot be persisted, and any other checkout that times   *)
(* out, fail the request.                                                  *)
PoolTimeout(r) ==
    /\ \/ step[r] = "receipt"
       \/ r \in Nominator /\ step[r] = "start"
       \/ step[r] = "session"
    /\ TimedOut(r)
    /\ End(r, "failed")
    /\ UNCHANGED <<billed, receipted, stored>>

(* A near copy, or a label that is taken, is refused instead.              *)
Insert(r) ==
    /\ step[r] = "insert"
    /\ stored' \in {stored, stored \cup {r}}
    /\ End(r, "done")
    /\ UNCHANGED <<billed, receipted>>

(* create_candidate looks for a rejected body before it embeds.            *)
RejectedBody(r) ==
    /\ r \in Nominator /\ step[r] = "embed"
    /\ End(r, "done")
    /\ UNCHANGED <<billed, receipted, stored>>

-----------------------------------------------------------------------------
PoolInit ==
    /\ step = [r \in Request |-> "start"] /\ held = [r \in Request |-> 0]
    /\ owner = [p \in PrincipalIds |-> Nobody]
    /\ billed = {} /\ receipted = {} /\ stored = {}

RequestStep(r) ==
    \/ StartCreate(r) \/ OpenSession(r) \/ LockPrincipal(r)
    \/ Embed(r) \/ EmbedFree(r) \/ EmbedFails(r)
    \/ CheckoutReceipt(r) \/ AppendReceipt(r) \/ PoolTimeout(r) \/ Insert(r) \/ RejectedBody(r)

PoolNext == \E r \in Request : RequestStep(r)

(* Coroutines run on and the pool and the lock serve whoever waits.        *)
PoolFairness == \A r \in Request : SF_poolVars(RequestStep(r))

PoolSpec == PoolInit /\ [][PoolNext]_poolVars /\ PoolFairness

-----------------------------------------------------------------------------
(***************************************************************************)
(* A stored vector that was charged has its receipt in the ledger, on      *)
(* either path and however checkouts fail (embed_with_receipt).            *)
(***************************************************************************)
StoredIsReceipted == stored \cap billed \subseteq receipted

(***************************************************************************)
(* Every request that began ends, also when requests that wait for a       *)
(* principal's lock hold all connections and the lock's owner needs one    *)
(* for its receipt: the pool's timeout alone breaks that wait              *)
(* (create_candidate, make_engine).                                        *)
(***************************************************************************)
EveryRequestEnds == []<>(\A r \in Request : step[r] \in {"start", "done", "failed"})
=============================================================================
