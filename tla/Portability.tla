----------------------------- MODULE Portability -----------------------------
(***************************************************************************)
(* Export and import of one owner's memories (src/spine/portability.py)    *)
(* over the tables of the palace.  An archive is read in one repeatable-   *)
(* read snapshot, so any state the palace can be in may be archived; an    *)
(* import checks the archive's references and inserts it, in one           *)
(* transaction, into a palace that holds none of its ids.                  *)
(***************************************************************************)
EXTENDS ApprovalQueue

(* _SCOPES: the rows of the five tables that belong to the owner.  Rows of *)
(* approval_decision name no owner; the cards they decide do.              *)
EveryDecision(p) == decisions   \* Fault: they are taken for everyone's

ExportedDecisions(p) == {d \in decisions : cards[d.item].principal = p}

Export(p) ==
    [principal |-> p,
     memories |-> Owned(p),
     revisions |-> UNION {{m} \X DOMAIN history[m] : m \in Owned(p)},
     edges |-> {x \in edges : x.from \in Owned(p) /\ x.to \in Owned(p)},
     queue |-> {i \in DOMAIN cards : cards[i].principal = p},
     decisions |-> ExportedDecisions(p)]

(* import_archive: one owner's rows, revision lineage, relationships and   *)
(* review lineage complete, and active labels as the index wants them.     *)
Importable(a) ==
    /\ \A m \in a.memories : heads[m].principal = a.principal
    /\ \A i \in a.queue : cards[i].principal = a.principal
    /\ \A r \in a.revisions :
          LET up == history[r[1]][r[2]].parent IN
          r[1] \in a.memories /\ (up = NoParent \/ up \in a.revisions)
    /\ \A x \in a.edges : x.from \in a.memories /\ x.to \in a.memories
    /\ \A i \in a.queue : cards[i].candidate \in a.memories
    /\ \A d \in a.decisions : d.item \in a.queue
    /\ ActiveLabelIndex([m \in a.memories |-> heads[m]])

(***************************************************************************)
(* An archive taken at any moment, in the middle of any extraction, seed   *)
(* or decision, is one that import accepts: no row the owner's scope picks *)
(* refers to one it leaves behind, another owner's among them (export,     *)
(* import_archive).                                                        *)
(***************************************************************************)
EveryArchiveImports == \A p \in Principal : Importable(Export(p))
=============================================================================
