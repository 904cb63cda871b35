------------------------------- MODULE MCJobs -------------------------------
(* TLC instance of Jobs for the schedule's cursor: one job under a cron    *)
(* line, edited, claimed and finished by two handlers.                     *)
EXTENDS Jobs, TLC

CONSTANTS r1, r2, c1, c2, t1

MCRun == {r1, r2}
MCCaller == {c1, c2}
MCCron == {[schedule |-> "cron", prompt |-> 1]}

Symmetry == Permutations(MCCaller) \cup Permutations(MCRun)
=============================================================================
