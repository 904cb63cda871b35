-------------------------------- MODULE MCNag -------------------------------
(* TLC instance of CuratorPass for the anti-nag law: one site, one curator *)
(* that may lose a pass, and an owner who rejects.                         *)
EXTENDS CuratorPass

MCRank == [s \in Site |-> 1]
MCEvery == [g \in Gauge |-> 1]
=============================================================================
