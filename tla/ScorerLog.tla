----------------------------- MODULE ScorerLog ------------------------------
(***************************************************************************)
(* The authority over the scorer, as the rest of the system sees it: one   *)
(* version serves at any time, and each entry of the log hands over from   *)
(* the version that serves to the next, once per tap of the owner.         *)
(***************************************************************************)
EXTENDS Naturals, Sequences

CONSTANT First      \* the version a palace starts with

VARIABLES
    serving,    \* versions in service
    log         \* [tap, previous, version] of every activation

LogInit == serving = {First} /\ log = <<>>

HandOver(entry) ==
    /\ log' = Append(log, entry)
    /\ \A k \in DOMAIN log : log[k].tap # entry.tap
    /\ serving = {entry.previous} /\ serving' = {entry.version}

LogNext == Len(log') = Len(log) + 1 /\ HandOver(log'[Len(log')])

LogSpec == LogInit /\ [][LogNext]_<<serving, log>>
=============================================================================
