--------------------------- MODULE MemoryService ---------------------------
(***************************************************************************)
(* MemoryService (src/spine/memory/service.py): create, split and patch,   *)
(* and the head writes of the injection service, each run by one of several*)
(* concurrent request handlers.                                            *)
(*                                                                         *)
(* A handler that reads, awaits and then writes is two steps, because the  *)
(* transactions of others commit in between: the advisory lock only keeps  *)
(* out those who take it, and under READ COMMITTED every statement sees    *)
(* what was committed before it.  A request refused before it wrote        *)
(* anything changes nothing and is no step.                                *)
(***************************************************************************)
EXTENDS Palace

CONSTANTS
    Client,     \* concurrent request handlers
    Drafts,     \* the labels and bodies writers propose
    Patches,    \* the bodies of PATCH requests: [label, body, status]
    Keep        \* a field such a request leaves out

ASSUME KeepAssumption ==
    Keep \notin Name \X {0} /\ Keep \notin Body /\ Keep \notin Status

(* router.PublicMemoryStatus: what PATCH may set.                          *)
PublicStatus == {"active", "quarantined", "tombstoned"}

PatchBody == [label : (Name \X {0}) \cup {Keep}, body : Body \cup {Keep},
              status : PublicStatus \cup {Keep}]

ASSUME PatchesAssumption == Patches \subseteq PatchBody

Draft == [label : Name \X {0}, body : Body]

ASSUME DraftsAssumption == Drafts \subseteq Draft

VARIABLES
    req,    \* what each handler is doing
    shown   \* injection_event: the memories some prepare has scored

memoryVars == <<tables, lock, req, shown>>

Idle == [at |-> "idle"]

(* A handler between the statements of its request.                        *)
Request ==
    [at : {"idle"}]
    \cup [at : {"create"}, principal : Principal, draft : Draft]
    \cup [at : {"split"}, principal : Principal, source : Body,
          left : Draft, right : Draft]
    \cup [at : {"patch"}, mem : Mem, expected : Nat, patch : PatchBody]
    \cup [at : {"reinforce"}, mem : Mem, expected : Nat, body : Body, count : Nat]

Start(c, r) == req[c] = Idle /\ req' = [req EXCEPT ![c] = r]
Finish(c) == req' = [req EXCEPT ![c] = Idle]

-----------------------------------------------------------------------------
(* create.  The first read under the lock: the dedup band against the      *)
(* active corpus.  A duplicate is refused, and a similar one unless forced.*)
CreateDedup(c, p, d, force) ==
    /\ LockFree(p)
    /\ LET matches == DedupMatches(p, d.body, {"active"}, {}) IN
          /\ Duplicates(p, d.body, matches) = {}
          /\ matches # {} => force
    /\ Start(c, [at |-> "create", principal |-> p, draft |-> d])
    /\ lock' = lock \cup {p}
    /\ UNCHANGED <<tables, shown>>

(* Then the rejected-body and label reads, and the insert.                 *)
CreateInsert(c) ==
    LET r == req[c]
        p == r.principal
        ok == /\ ~RejectedBody(p, r.draft.body)
              /\ FindActiveLabel(p, r.draft.label) = {} IN
    /\ r.at = "create"
    /\ IF ok
       THEN \E m \in Fresh :
               Write(Only(m, Root(p, r.draft.label, r.draft.body, "active",
                                  NoOrigin, NoParent, "created")), None)
       ELSE UNCHANGED <<heads, history>>
    /\ Finish(c)
    /\ lock' = lock \ {p}
    /\ UNCHANGED <<edges, cards, decisions, shown>>

-----------------------------------------------------------------------------
(* _validate_split: distinct labels and distinct bodies.                   *)
ValidSplit(left, right) == left.label # right.label /\ left.body # right.body

(* split.  Under the lock every body of the family is first looked up among*)
(* the rejected ones.                                                      *)
SplitCheck(c, p, source, left, right) ==
    /\ LockFree(p)
    /\ ValidSplit(left, right)
    /\ \A b \in {source, left.body, right.body} : ~RejectedBody(p, b)
    /\ Start(c, [at |-> "split", principal |-> p, source |-> source,
                 left |-> left, right |-> right])
    /\ lock' = lock \cup {p}
    /\ UNCHANGED <<tables, shown>>

(* Then each child's label and dedup band; a family with no refusal is     *)
(* inserted whole: the tombstoned source, its children and their edges.    *)
SourceRowLate(s) == <<s, 2>>    \* Fault: the children name a row yet to come

SourceRow(s) == <<s, 1>>

Siblings(S) == {[from |-> q[1], to |-> q[2], type |-> "relates_to"] :
                    q \in {q \in S \X S : q[1] # q[2]}}

Family(r, s, x, y) ==
    [m \in {s, x, y} |->
        IF m = s
        THEN Root(r.principal, <<SourceName, 0>>, r.source, "tombstoned",
                  NoOrigin, NoParent, "split-source")
        ELSE LET d == IF m = x THEN r.left ELSE r.right IN
             Root(r.principal, d.label, d.body, "active",
                  NoOrigin, SourceRow(s), "split-child")]

SplitInsert(c) ==
    LET r == req[c]
        p == r.principal
        ok == \A d \in {r.left, r.right} :
                /\ FindActiveLabel(p, d.label) = {}
                /\ DedupMatches(p, d.body, {"active"}, {}) = {} IN
    /\ r.at = "split"
    /\ IF ok
       THEN \E s, x, y \in Fresh :
               /\ s # x /\ s # y /\ x # y
               /\ Write(Family(r, s, x, y), None)
               /\ edges' = edges \cup Siblings({x, y})
       ELSE UNCHANGED <<heads, history, edges>>
    /\ Finish(c)
    /\ lock' = lock \ {p}
    /\ UNCHANGED <<cards, decisions, shown>>

-----------------------------------------------------------------------------
(* patch.  The preflight read finds the memory (404 otherwise); the        *)
(* expected revision is one the client has been shown.                     *)
PatchRead(c, m, expected, patch) ==
    /\ m \in Units
    /\ MayEdit
    /\ Start(c, [at |-> "patch", mem |-> m, expected |-> expected, patch |-> patch])
    /\ UNCHANGED <<tables, lock, shown>>

(* Fault: a field the request leaves out is written all the same.          *)
PatchedWhole(h, patch) ==
    [h EXCEPT !.label = patch.label, !.body = patch.body, !.status = patch.status]

Patched(h, patch) ==
    [h EXCEPT !.label = IF patch.label = Keep THEN @ ELSE patch.label,
              !.body = IF patch.body = Keep THEN @ ELSE patch.body,
              !.status = IF patch.status = Keep THEN @ ELSE patch.status]

(* The compare-and-swap: a moved revision is 409, a taken label is 409.    *)
LastWriterWins(m, expected, row) ==     \* Fault: the revision is not compared
    IF Writable(None, Only(m, row))
    THEN Write(None, Only(m, row))
    ELSE UNCHANGED <<heads, history>>

CasOrRefuse(m, expected, row) ==
    IF heads[m].revision = expected /\ Writable(None, Only(m, row))
    THEN Write(None, Only(m, row))
    ELSE UNCHANGED <<heads, history>>

PatchCas(c) ==
    LET r == req[c] IN
    /\ r.at = "patch"
    /\ CasOrRefuse(r.mem, r.expected, Change(Patched(heads[r.mem], r.patch), "patched"))
    /\ Finish(c)
    /\ UNCHANGED <<edges, cards, decisions, lock, shown>>

(* patch with reason remember/reinforce: the preflight read also gives the *)
(* body, which the request must repeat, and the stats that are written     *)
(* back one higher.                                                        *)
ReinforceRead(c, m, expected) ==
    /\ m \in Units
    /\ MayEdit
    /\ Start(c, [at |-> "reinforce", mem |-> m, expected |-> expected,
                 body |-> heads[m].body, count |-> heads[m].reinforcements])
    /\ UNCHANGED <<tables, lock, shown>>

ReinforceCas(c) ==
    LET r == req[c] IN
    /\ r.at = "reinforce"
    /\ CasOrRefuse(r.mem, r.expected,
                   Change([heads[r.mem] EXCEPT !.body = r.body,
                                               !.reinforcements = r.count + 1],
                          "reinforced"))
    /\ Finish(c)
    /\ UNCHANGED <<edges, cards, decisions, lock, shown>>

-----------------------------------------------------------------------------
(* prepare: one transaction scores active heads of a principal and writes  *)
(* the injection count of those it injects, a revision each.               *)
InjectPrepare(p, scored, injected) ==
    /\ scored \subseteq Active \cap Owned(p)
    /\ injected \subseteq scored
    /\ MayEdit
    /\ Write(None, [m \in injected |-> Change(heads[m], "injected")])
    /\ shown' = shown \cup scored
    /\ UNCHANGED <<edges, cards, decisions, lock, req>>

(* commit: an outcome on a shown memory writes its counters, whatever its  *)
(* status is by now; the last tolerated never-kill quarantines it.         *)
InjectOutcome(m, quarantine) ==
    /\ m \in shown /\ MayEdit
    /\ quarantine => heads[m].status = "active"
    /\ Write(None, Only(m, Change([heads[m] EXCEPT !.status =
                                     IF quarantine THEN "quarantined" ELSE @],
                                  "outcome")))
    /\ UNCHANGED <<edges, cards, decisions, lock, req, shown>>

-----------------------------------------------------------------------------
(* A handler dies, or its client gives up: the open transaction is rolled  *)
(* back and its lock released.                                             *)
Crash(c) ==
    /\ req[c] # Idle
    /\ Finish(c)
    /\ lock' = IF req[c].at \in {"create", "split"}
               THEN lock \ {req[c].principal} ELSE lock
    /\ UNCHANGED <<tables, shown>>

Init == EmptyTables /\ req = [c \in Client |-> Idle] /\ shown = {}

HandlerNext(c) ==
    \/ \E p \in Principal, d \in Drafts, force \in BOOLEAN : CreateDedup(c, p, d, force)
    \/ CreateInsert(c)
    \/ \E p \in Principal, s, d, e \in Drafts : SplitCheck(c, p, s.body, d, e)
    \/ SplitInsert(c)
    \/ \E m \in Units, patch \in Patches : \E n \in 1 .. heads[m].revision :
          PatchRead(c, m, n, patch)
    \/ PatchCas(c)
    \/ \E m \in Units : \E n \in 1 .. heads[m].revision : ReinforceRead(c, m, n)
    \/ ReinforceCas(c)
    \/ Crash(c)

InjectNext ==
    \/ \E p \in Principal : \E scored \in SUBSET Active :
          \E injected \in SUBSET scored : InjectPrepare(p, scored, injected)
    \/ \E m \in shown, q \in BOOLEAN : InjectOutcome(m, q)

MemoryNext == (\E c \in Client : HandlerNext(c)) \/ InjectNext

MemoryTypes ==
    /\ MemoryTypeOK
    /\ req \in [Client -> Request]
    /\ shown \subseteq Units

MemorySpec == Init /\ [][MemoryNext]_memoryVars
=============================================================================
