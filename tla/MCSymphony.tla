----------------------------- MODULE MCSymphony -----------------------------
(* TLC instance of Symphony: two runs whose attempt .1 has one below it and*)
(* a sibling, .10, that only begins like it; two owners, who patch and     *)
(* decide meanwhile.                                                       *)
EXTENDS Symphony

CONSTANTS m1, m2, m3, c1, b1, b2, r1, r2, g1, g2

MCMem == {m1, m2, m3}
MCBody == {b1, b2}
MCBand == [q \in MCBody \X MCBody |-> IF q[1] = q[2] THEN "duplicate" ELSE "distinct"]
MCAttempt == {<<".", "1">>, <<".", "1", ".", "1">>, <<".", "1", "0">>}
MCRunId == {r1, r2}
MCBatch == {g1, g2}
MCOrigin == MCBatch \cup (MCRunId \X MCAttempt)

Nothing == {}
MCDrafts == {[label |-> <<"n1", 0>>, body |-> b1]}
MCPatches == {[label |-> Keep, body |-> Keep, status |-> "active"]}

Symmetry == Permutations(MCMem) \cup Permutations(MCRunId) \cup Permutations(MCBatch)
            \cup Permutations(Principal)
=============================================================================
