------------------------------ MODULE MCMemory ------------------------------
(* TLC instance of MemoryService: two concurrent handlers on one palace.   *)
EXTENDS MemoryService, TLC

CONSTANTS m1, m2, m3, c1, c2, b1, b2

MCMem == {m1, m2, m3}
MCClient == {c1, c2}
MCBody == {b1, b2}

(* Two near texts.                                                         *)
MCBand == [q \in MCBody \X MCBody |-> IF q[1] = q[2] THEN "duplicate" ELSE "similar"]

(* Two texts under one label, two labels on one text.                      *)
MCDrafts == {[label |-> <<"n1", 0>>, body |-> b1], [label |-> <<"n2", 0>>, body |-> b1],
             [label |-> <<"n2", 0>>, body |-> b2]}

(* A rewrite and rename onto what others may hold, a removal, a restore.   *)
MCPatches ==
    LET no == [label |-> Keep, body |-> Keep, status |-> Keep] IN
    {[no EXCEPT !.body = b2, !.label = <<"n1", 0>>],
     [no EXCEPT !.status = "tombstoned"], [no EXCEPT !.status = "active"]}

Symmetry == Permutations(MCMem) \cup Permutations(MCClient)
=============================================================================
