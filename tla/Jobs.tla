-------------------------------- MODULE Jobs --------------------------------
(***************************************************************************)
(* Named recipes and their runs (src/spine/jobs.py).  save reads the clock *)
(* before its transaction opens; claim locks the job's row, looks, and     *)
(* inserts the run; finish touches the run alone.  All rows are one        *)
(* owner's: a request of another owner finds nothing and is refused.       *)
(***************************************************************************)
EXTENDS Naturals, FiniteSets

CONSTANTS
    Job, Run,       \* job_ids and run_ids, chosen by the caller
    Caller,         \* concurrent handlers
    Recipe,         \* WorkflowDefinition: [schedule, prompt]
    Tag,            \* trigger_keys a caller makes up for a start that is no cron line's
    Never,          \* the null next_run_at and trigger_cursor
    MaxClock,       \* bound: minutes the clock advances
    MaxEvent,       \* bound: trigger events
    MaxRevision     \* bound: saves of one job

ASSUME JobsAssumption ==
    /\ \A d \in Recipe : d.schedule \in {"cron", "event", "manual"}
    /\ MaxClock \in Nat /\ MaxEvent \in Nat /\ MaxRevision \in Nat /\ Never \notin Nat

VARIABLES
    jobs,       \* workflow_job: the row of every saved job
    runs,       \* workflow_run: the row of every started run
    rowLock,    \* jobs whose row a claim holds FOR UPDATE
    call,       \* what each handler is doing
    clock,      \* minutes; a cron line is due at every one
    event       \* what a file, queue or palace trigger shows now

jobsVars == <<jobs, runs, rowLock, call, clock, event>>

JobRow == [definition : Recipe, revision : Nat \ {0}, enabled : BOOLEAN,
           nextRun : Nat \cup {Never}, cursor : Nat \cup {Never}]

(* trigger_key: the due minute of a cron start, else what the caller sent. *)
Key == Nat \cup Tag
RunState == {"running", "completed", "failed", "cancelled", "interrupted"}
RunRow == [job : Job, key : Key, definition : Recipe, state : RunState]

Idle == [at |-> "idle"]
Call ==
    [at : {"idle"}]
    \cup [at : {"save"}, job : Job, definition : Recipe, enabled : BOOLEAN,
          expected : Nat, nextRun : Nat \cup {Never}, cursor : Nat \cup {Never}]
    \cup [at : {"claim"}, job : Job, run : Run, key : Key, definition : Recipe,
          manual : BOOLEAN, cursor : Nat \cup {Never}, now : Nat]

Saved == DOMAIN jobs
Running(j) == {r \in DOMAIN runs : runs[r].job = j /\ runs[r].state = "running"}

(* croniter(cron, now).get_next: strictly later.                           *)
NextRun(d, now) == IF d.schedule = "cron" THEN now + 1 ELSE Never

-----------------------------------------------------------------------------
Save(c, j, d, enabled, expected) ==
    /\ call[c] = Idle
    /\ call' = [call EXCEPT ![c] =
          [at |-> "save", job |-> j, definition |-> d, enabled |-> enabled,
           expected |-> expected,
           nextRun |-> IF enabled THEN NextRun(d, clock) ELSE Never,
           cursor |-> IF d.schedule = "event" THEN event ELSE Never]]
    /\ UNCHANGED <<jobs, runs, rowLock, clock, event>>

SaveMatches(j, expected) ==
    IF expected = 0 THEN j \notin Saved
    ELSE j \in Saved /\ jobs[j].revision = expected

(* The insert or the update; anything else is 409.                         *)
SaveCommit(c) ==
    LET s == call[c]
        j == s.job
        row == [definition |-> s.definition, revision |-> s.expected + 1,
                enabled |-> s.enabled, nextRun |-> s.nextRun, cursor |-> s.cursor] IN
    /\ s.at = "save" /\ j \notin rowLock
    /\ jobs' = IF SaveMatches(j, s.expected)
               THEN [x \in Saved \cup {j} |-> IF x = j THEN row ELSE jobs[x]]
               ELSE jobs
    /\ call' = [call EXCEPT ![c] = Idle]
    /\ UNCHANGED <<runs, rowLock, clock, event>>

-----------------------------------------------------------------------------
(* claim.  Under the row lock: nothing is running, the caller saw this     *)
(* revision, and, unless it is a manual start, the schedule is due or the  *)
(* trigger shows something new.  A start by cron names the due minute.     *)
Unlocked(j) == TRUE     \* Fault: the row is read without FOR UPDATE

RowFree(j) == j \notin rowLock

Due(j, seen) ==
    LET row == jobs[j] IN
    /\ row.enabled
    /\ CASE row.definition.schedule = "cron" -> row.nextRun # Never /\ row.nextRun <= clock
         [] row.definition.schedule = "event" -> seen # Never /\ seen # row.cursor
         [] row.definition.schedule = "manual" -> FALSE

Claim(c, j, r, manual, tag) ==
    LET d == jobs[j].definition
        seen == IF ~manual /\ d.schedule = "event" THEN event ELSE Never IN
    /\ call[c] = Idle
    /\ j \in Saved /\ RowFree(j)
    /\ Running(j) = {}
    /\ ~manual => Due(j, seen)
    /\ call' = [call EXCEPT ![c] =
          [at |-> "claim", job |-> j, run |-> r, definition |-> d, manual |-> manual,
           key |-> IF ~manual /\ d.schedule = "cron" THEN jobs[j].nextRun ELSE tag,
           cursor |-> seen, now |-> clock]]
    /\ rowLock' = rowLock \cup {j}
    /\ UNCHANGED <<jobs, runs, clock, event>>

(* The unique keys of workflow_run.                                        *)
Started(s) ==
    \/ s.run \in DOMAIN runs
    \/ \E r \in DOMAIN runs : runs[r].job = s.job /\ runs[r].key = s.key

ClaimInsert(c) ==
    LET s == call[c]
        row == [job |-> s.job, key |-> s.key, definition |-> s.definition,
                state |-> "running"] IN
    /\ s.at = "claim"
    /\ IF Started(s) THEN UNCHANGED <<jobs, runs>>
       ELSE /\ runs' = [x \in DOMAIN runs \cup {s.run} |-> IF x = s.run THEN row ELSE runs[x]]
            /\ jobs' = IF s.manual THEN jobs
                       ELSE [jobs EXCEPT ![s.job].nextRun = NextRun(s.definition, s.now),
                                         ![s.job].cursor = s.cursor]
    /\ call' = [call EXCEPT ![c] = Idle]
    /\ rowLock' = rowLock \ {s.job}
    /\ UNCHANGED <<clock, event>>

-----------------------------------------------------------------------------
Finish(r, state) ==
    /\ r \in DOMAIN runs /\ runs[r].state = "running"
    /\ runs' = [runs EXCEPT ![r].state = state]
    /\ UNCHANGED <<jobs, rowLock, call, clock, event>>

(* A handler dies; its transaction is rolled back.                         *)
Crash(c) ==
    /\ call[c] # Idle
    /\ call' = [call EXCEPT ![c] = Idle]
    /\ rowLock' = IF call[c].at = "claim" THEN rowLock \ {call[c].job} ELSE rowLock
    /\ UNCHANGED <<jobs, runs, clock, event>>

Tick == clock < MaxClock /\ clock' = clock + 1 /\ UNCHANGED <<jobs, runs, rowLock, call, event>>
Happen == event < MaxEvent /\ event' = event + 1 /\ UNCHANGED <<jobs, runs, rowLock, call, clock>>

JobsInit ==
    /\ jobs = [j \in {} |-> j] /\ runs = [r \in {} |-> r] /\ rowLock = {}
    /\ call = [c \in Caller |-> Idle] /\ clock = 0 /\ event = 0

CallNext(c) ==
    \/ \E j \in Job, d \in Recipe, e \in BOOLEAN, n \in 0 .. MaxRevision - 1 :
          Save(c, j, d, e, n)
    \/ SaveCommit(c)
    \/ \E j \in Saved, r \in Run, manual \in BOOLEAN, tag \in Tag :
          Claim(c, j, r, manual, tag)
    \/ ClaimInsert(c)
    \/ Crash(c)

JobsNext ==
    \/ \E c \in Caller : CallNext(c)
    \/ \E r \in DOMAIN runs, state \in RunState \ {"running"} : Finish(r, state)
    \/ Tick
    \/ Happen

JobsSpec == JobsInit /\ [][JobsNext]_jobsVars

-----------------------------------------------------------------------------
JobsTypes ==
    /\ Saved \subseteq Job /\ jobs \in [Saved -> JobRow]
    /\ DOMAIN runs \subseteq Run /\ runs \in [DOMAIN runs -> RunRow]
    /\ rowLock = {call[c].job : c \in {x \in Caller : call[x].at = "claim"}}
    /\ rowLock \subseteq Saved
    /\ call \in [Caller -> Call]
    /\ clock \in Nat /\ event \in Nat

(***************************************************************************)
(* A job never runs twice at once, whatever claims, finishes and handler   *)
(* deaths interleave: the count of running runs is read a statement before *)
(* the insert, and the job's row lock is what keeps it true (claim).       *)
(***************************************************************************)
OneRunPerJob == \A j \in Job : \A r, s \in Running(j) : r = s

(***************************************************************************)
(* A run starts from the recipe that is saved at that moment, so no save   *)
(* that was confirmed before it is missing from its frozen definition.     *)
(***************************************************************************)
StartsCurrent ==
    \A r \in DOMAIN runs' \ DOMAIN runs :
        runs'[r].definition = jobs[runs'[r].job].definition

RunsAreCurrent == [][StartsCurrent]_jobsVars

(***************************************************************************)
(* The first verdict on a run stands: a late finish cannot replace it, and *)
(* no run returns to running or disappears (finish).                       *)
(***************************************************************************)
VerdictKept ==
    \A r \in DOMAIN runs :
        /\ r \in DOMAIN runs'
        /\ runs[r].state # "running" => runs'[r] = runs[r]

FirstVerdictStands == [][VerdictKept]_jobsVars

(***************************************************************************)
(* No confirmed save is lost: a job's revision only moves by one, and its  *)
(* recipe never changes without it (save).                                 *)
(***************************************************************************)
SavesChain ==
    \A j \in Saved :
        /\ j \in DOMAIN jobs'
        /\ jobs'[j].revision \in {jobs[j].revision, jobs[j].revision + 1}
        /\ jobs'[j].revision = jobs[j].revision
           => /\ jobs'[j].definition = jobs[j].definition
              /\ jobs'[j].enabled = jobs[j].enabled

NoSaveIsLost == [][SavesChain]_jobsVars

(* jobs.py: "durable execution cursors": a schedule's cursor is never at an*)
(* occurrence that was started.  Refuted: save works out next_run_at before*)
(* its transaction; a claim in between moves the cursor on without a new   *)
(* revision, and the save puts it back.                                    *)
CursorMovesOn ==
    \A j \in Saved : jobs[j].nextRun # Never =>
        ~ \E r \in DOMAIN runs : runs[r].job = j /\ runs[r].key = jobs[j].nextRun
=============================================================================
