---------------------------- MODULE MCInjection ----------------------------
(* Two memories of one owner, one thread, and a second principal who can   *)
(* only collide with its id.                                               *)
EXTENDS Injection, TLC

CONSTANTS m1, m2, h1, h2, p1, p2

MCOwnerOf == [m \in Memory |-> p1]
MCKillLimit == [v \in Version |-> IF v = "v1" THEN 1 ELSE 2]

Ask(p, mode, current, confirmed, excluded) ==
    [principal |-> p, mode |-> mode, current |-> current, confirmed |-> confirmed,
     excluded |-> excluded]

(* The owner's gate, a re-score that starts over, and one that must keep a *)
(* confirmed memory and may drop the other; beside them a second first     *)
(* prompt, a stranger's under the same thread id, or a re-score with       *)
(* everything excluded.                                                    *)
MCRequests == [h \in Handler |->
    IF h = h1
    THEN {Ask(p1, "gate", {}, {}, {}), Ask(p1, "autonomous", {}, {}, {})}
         \cup {Ask(p1, "autonomous", Memory, {m}, {}) : m \in Memory}
    ELSE {Ask(p1, "gate", {}, {}, {}), Ask(p2, "gate", {}, {}, {}),
          Ask(p1, "autonomous", {}, {}, Memory)}]

Symmetry == Permutations(Memory)
=============================================================================
