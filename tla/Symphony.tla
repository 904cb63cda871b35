------------------------------ MODULE Symphony ------------------------------
(***************************************************************************)
(* The Symphony memory bridge (src/spine/symphony/service.py) over the     *)
(* queue.  Attempts of a run stage memories under ids of their choosing;   *)
(* one resolution offers the winning subtree's to the owner and tombstones *)
(* the rest.  A resolution reads the staged rows and commits later: it     *)
(* holds its owner's lock and the rows it read, but nothing keeps another  *)
(* stage of the run from committing in between.                            *)
(***************************************************************************)
EXTENDS ApprovalQueue, SequencesExt

CONSTANTS
    RunId,      \* run ULIDs
    Attempt     \* origin_agent paths: what follows <run>/root, mark by mark

Mark == {"0", "1", "2", "3", "4", "5", "6", "7", "8", "9", "."}

ASSUME SymphonyAssumption ==
    /\ \A path \in Attempt : path \in Seq(Mark)
    /\ RunId \X Attempt \subseteq Origin /\ (RunId \X Attempt) \cap Batch = {}

ASSUME FiniteIds == IsFiniteSet(Mem)    \* memory ids are ULIDs, 128 bits wide

VARIABLES
    resolutions,    \* symphony_run_resolution: the row of every closed run
    resolving       \* by owner, the open resolution: its request and the revisions it read

symphonyVars == <<queueVars, resolutions, resolving>>

(* The memories an attempt of the run wrote, and those still staged.       *)
OfRun(run) == {m \in Units : heads[m].origin \in {run} \X Attempt}
StagedOf(run) == {m \in OfRun(run) : heads[m].status = "staged"}

(* _is_origin_prefix: the attempt itself or one below it.                  *)
StartsWith(prefix, path) == IsPrefix(prefix, path)  \* Fault: .10 is taken for a child of .1

IsOriginPrefix(prefix, path) == path = prefix \/ IsPrefix(Append(prefix, "."), path)

Won(m, winner) == IsOriginPrefix(winner, heads[m].origin[2])

(* stage_symphony.  The second look for the id, the insert and the lock on *)
(* the id are one step; an id that exists is an exact replay or a conflict *)
(* and changes nothing.  Nothing asks whether the run is still open.       *)
Stage(m, p, run, path, d) ==
    /\ m \in Fresh
    /\ Write(Only(m, Root(p, d.label, d.body, "staged", <<run, path>>, NoParent, "staged")),
             None)
    /\ UNCHANGED <<edges, cards, decisions, lock, req, shown, flow, resolutions,
                   resolving>>

(* The cards of one resolution, in any order the rows were created.        *)
Orders(S) == Bijection(1 .. Cardinality(S), S)

WinnerCard(m, p, batch) ==
    [candidate |-> m, principal |-> p, birthplace |-> "symphony", batch |-> batch,
     source |-> Keep, judged |-> 0, verdict |-> "new", targets |-> {}, state |-> "pending"]

(* What a resolution makes of a staged row.                                *)
Settled(m, winner) ==
    IF Won(m, winner) THEN Change([heads[m] EXCEPT !.status = "candidate"], "winner")
    ELSE Change([heads[m] EXCEPT !.status = "tombstoned"], "loser")

ResolutionRow(p, batch, winner) == [principal |-> p, batch |-> batch, winner |-> winner]

(* resolve, up to its writes: under the principal's lock, the staged rows  *)
(* of the run, all of them the owner's and some of them winners.  A run    *)
(* that is resolved already is an exact replay or a conflict and changes   *)
(* nothing.                                                                *)
ResolveRead(p, run, winner, batch) ==
    LET rows == StagedOf(run) IN
    /\ LockFree(p)
    /\ run \notin DOMAIN resolutions
    /\ \A m \in rows : heads[m].principal = p
    /\ \E m \in rows : Won(m, winner)
    /\ lock' = lock \cup {p}
    /\ resolving' = [q \in DOMAIN resolving \cup {p} |->
          IF q # p THEN resolving[q]
          ELSE [run |-> run, winner |-> winner, batch |-> batch,
                read |-> [m \in rows |-> heads[m].revision]]]
    /\ UNCHANGED <<tables, req, shown, flow, resolutions>>

(* The end of the transaction, either way: the locks go with it.           *)
Closed(p) ==
    /\ lock' = lock \ {p}
    /\ resolving' = [q \in DOMAIN resolving \ {p} |-> resolving[q]]

(* The rows that are written: the ones that were read.                     *)
RowsReread(p) == StagedOf(resolving[p].run) \* Fault: whatever is staged by now

RowsRead(p) == DOMAIN resolving[p].read

(* The rest of resolve.  Run and batch are keys of the resolution's table, *)
(* and each row is written by comparing the revision that was read.        *)
ResolveCommit(p) ==
    LET r == resolving[p]
        rows == RowsRead(p) IN
    /\ r.run \notin DOMAIN resolutions
    /\ \A q \in DOMAIN resolutions : resolutions[q].batch # r.batch
    /\ \A m \in DOMAIN r.read : heads[m].revision = r.read[m]
    /\ Write(None, [m \in rows |-> Settled(m, r.winner)])
    /\ \E order \in Orders({m \in rows : Won(m, r.winner)}) :
          cards' = cards \o [k \in DOMAIN order |-> WinnerCard(order[k], p, r.batch)]
    /\ resolutions' = [q \in DOMAIN resolutions \cup {r.run} |->
          IF q = r.run THEN ResolutionRow(p, r.batch, r.winner) ELSE resolutions[q]]
    /\ Closed(p)
    /\ UNCHANGED <<edges, decisions, req, shown, flow>>

(* The transaction fails on a key or dies, and is rolled back.             *)
ResolveAbort(p) ==
    /\ Closed(p)
    /\ UNCHANGED <<tables, req, shown, flow, resolutions>>

(* FOR UPDATE: who would write a row a resolution has read waits for it.   *)
RowsHeld ==
    \A p \in DOMAIN resolving : \A m \in DOMAIN resolving[p].read : heads'[m] = heads[m]

SymphonyInit == QueueInit /\ resolutions = None /\ resolving = None

SymphonyNext ==
    \/ QueueNext /\ RowsHeld /\ UNCHANGED <<resolutions, resolving>>
    \/ \E m \in Mem, p \in Principal, run \in RunId, path \in Attempt, d \in Drafts :
          Stage(m, p, run, path, d)
    \/ \E p \in Principal, run \in RunId, winner \in Attempt, b \in Batch :
          ResolveRead(p, run, winner, b)
    \/ \E p \in DOMAIN resolving : ResolveCommit(p)
    \/ \E p \in DOMAIN resolving : ResolveAbort(p)

SymphonySpec == SymphonyInit /\ [][SymphonyNext]_symphonyVars

-----------------------------------------------------------------------------
(* The attempts a path belongs to: what stands before each of its dots, and*)
(* the path itself.                                                        *)
Ancestry(path) ==
    {SubSeq(path, 1, k) : k \in {n \in 0 .. Len(path) : n = Len(path) \/ path[n + 1] = "."}}

EverPatched(m) == \E k \in DOMAIN history[m] : history[m][k].reason = "patched"

(***************************************************************************)
(* Judge promotion moves only the winning prefix (docs/SPEC.md, ADR-021    *)
(* verification): every symphony card offers a memory of a resolved run    *)
(* from inside the winner's subtree, in that run's one batch and under the *)
(* owner the resolution names, however stages, patches and resolutions of  *)
(* other runs interleave.                                                  *)
(***************************************************************************)
OnlyWinnersOffered ==
    \A i \in DOMAIN cards : cards[i].birthplace = "symphony" =>
        LET origin == heads[cards[i].candidate].origin IN
        /\ origin \in (DOMAIN resolutions) \X Attempt
        /\ LET res == resolutions[origin[1]] IN
           /\ res.batch = cards[i].batch
           /\ res.principal = heads[cards[i].candidate].principal
           /\ res.winner \in Ancestry(origin[2])

(***************************************************************************)
(* A losing or unresolved attempt never reaches the corpus: a memory an    *)
(* attempt staged, and no PATCH touched, is active only when its card was  *)
(* approved, and a loser's stays tombstoned.                               *)
(***************************************************************************)
LosersStayOut ==
    \A run \in RunId : \A m \in OfRun(run) :
        \/ EverPatched(m)
        \/ heads[m].status = "staged"
        \/ heads[m].status = "tombstoned" /\ run \in DOMAIN resolutions
        \/ \E i \in DOMAIN cards :
              /\ cards[i].candidate = m /\ cards[i].birthplace = "symphony"
              /\ heads[m].status = "active" => cards[i].state = "approved"

(***************************************************************************)
(* A resolution settles what it read and nothing else: when its run closes,*)
(* each memory it read goes, with the text, label and owner it was read    *)
(* with, to one pending card if its attempt won and to the tombstones if   *)
(* not, whatever patches, stages and resolutions of other runs were at     *)
(* work since; a memory that was staged meanwhile is left as it is         *)
(* (resolve, _locked_run_rows).                                            *)
(***************************************************************************)
OfferedBy(i, m) == cards'[i].candidate = m /\ cards'[i].state = "pending"

SettledAsRead ==
    \A p \in DOMAIN resolving \ DOMAIN resolving' :
        LET r == resolving[p] IN
        r.run \in DOMAIN resolutions' \ DOMAIN resolutions =>
        /\ \A m \in DOMAIN r.read :
              LET row == history[m][r.read[m]]
                  won == r.winner \in Ancestry(heads[m].origin[2]) IN
              /\ heads'[m].body = row.body /\ heads'[m].label = row.label
              /\ heads'[m].principal = p
              /\ heads'[m].status = IF won THEN "candidate" ELSE "tombstoned"
              /\ won <=> \E i \in DOMAIN cards' : OfferedBy(i, m)
              /\ \A i, j \in DOMAIN cards' : OfferedBy(i, m) /\ OfferedBy(j, m) => i = j
        /\ \A m \in StagedOf(r.run) \ DOMAIN r.read : heads'[m] = heads[m]

RunsSettleWhatTheyRead == [][SettledAsRead]_symphonyVars
=============================================================================
