----------------------------- MODULE JobsProofs -----------------------------
(***************************************************************************)
(* A job never runs twice at once, and the first verdict on a run stands,  *)
(* for any number of jobs, handlers, runs and saves (src/spine/jobs.py).   *)
(***************************************************************************)
EXTENDS Jobs, TLAPS

(* OneRunPerJob is not inductive: between a claim's count of running runs  *)
(* and its insert the count must stay true.  It does because each claim in *)
(* flight holds its job's row alone, and only a claim adds a running run.  *)
Claims == {c \in Caller : call[c].at = "claim"}

ClaimsHold ==
    /\ \A c \in Claims : Running(call[c].job) = {}
    /\ \A c, d \in Claims : call[c].job = call[d].job => c = d

Locks ==
    /\ rowLock = {call[c].job : c \in Claims}
    /\ rowLock \subseteq Saved

Tables ==
    /\ Saved \subseteq Job /\ jobs \in [Saved -> JobRow]
    /\ DOMAIN runs \subseteq Run /\ runs \in [DOMAIN runs -> RunRow]
    /\ clock \in Nat /\ event \in Nat

Calls == call \in [Caller -> Call]

JobsInv == Tables /\ Calls /\ Locks /\ ClaimsHold /\ OneRunPerJob

LEMMA InvTypes == JobsInv => JobsTypes
  BY DEF JobsInv, JobsTypes, Tables, Calls, Locks, Claims

-----------------------------------------------------------------------------
LEMMA InitHolds == JobsInit => JobsInv
<1>1. JobsInit => Tables /\ Calls
  BY DEF JobsInit, Tables, Calls, Saved, Idle, Call
<1>2. JobsInit => Claims = {}
  BY DEF JobsInit, Claims, Idle
<1>3. JobsInit => \A j \in Job : Running(j) = {}
  BY DEF JobsInit, Running
<1>4. JobsInit => Locks
  BY <1>2 DEF JobsInit, Locks
<1>. QED  BY <1>1, <1>2, <1>3, <1>4 DEF JobsInv, ClaimsHold, OneRunPerJob

LEMMA IdleCall == Idle \in Call /\ Idle.at = "idle"
  BY DEF Idle, Call

LEMMA ClaimsTyped ==
    ASSUME JobsInv, NEW c \in Claims
    PROVE  /\ c \in Caller /\ call[c] \in Call /\ call[c].at = "claim"
           /\ call[c].job \in rowLock /\ call[c].job \in Saved /\ call[c].job \in Job
  BY DEF JobsInv, Calls, Claims, Locks, Tables

(* What replacing one handler's call does to the claims in flight.         *)
LEMMA CallReplaced ==
    ASSUME JobsInv, NEW c \in Caller, NEW x \in Call, call' = [call EXCEPT ![c] = x]
    PROVE  /\ Calls' /\ call'[c] = x
           /\ \A d \in Caller \ {c} : call'[d] = call[d]
           /\ Claims' = IF x.at = "claim" THEN Claims \cup {c} ELSE Claims \ {c}
<1>1. /\ Calls' /\ call'[c] = x
      /\ \A d \in Caller \ {c} : call'[d] = call[d]
  BY DEF JobsInv, Calls
<1>2. Claims' = IF x.at = "claim" THEN Claims \cup {c} ELSE Claims \ {c}
  BY <1>1 DEF Claims
<1>. QED  BY <1>1, <1>2

(* A step that leaves the claims alone and starts no run.                  *)
LEMMA QuietStep ==
    ASSUME JobsInv, Tables', Calls', Saved \subseteq Saved',
           Claims' = Claims, \A c \in Claims : call'[c] = call[c], rowLock' = rowLock,
           \A j \in Job : Running(j)' \subseteq Running(j)
    PROVE  JobsInv'
<1>1. Locks'
  BY DEF JobsInv, Locks
<1>2. ClaimsHold'
  <2>1. \A c \in Claims : Running(call[c].job)' = {}
    BY ClaimsTyped DEF JobsInv, ClaimsHold
  <2>. QED  BY <2>1 DEF JobsInv, ClaimsHold
<1>3. OneRunPerJob'
  BY DEF JobsInv, OneRunPerJob
<1>. QED  BY <1>1, <1>2, <1>3 DEF JobsInv

(* A claim ends, having started a run of its job or none.                  *)
LEMMA ClaimEnds ==
    ASSUME JobsInv, NEW c \in Claims, NEW k \in Job, call[c].job = k, Tables', Saved' = Saved,
           call' = [call EXCEPT ![c] = Idle], rowLock' = rowLock \ {k},
           \A j \in Job \ {k} : Running(j)' = Running(j),
           \A r, s \in Running(k)' : r = s
    PROVE  JobsInv'
<1>1. c \in Caller /\ k \in rowLock
  BY ClaimsTyped
<1>2. /\ Calls' /\ call'[c] = Idle
      /\ \A d \in Caller \ {c} : call'[d] = call[d]
      /\ Claims' = Claims \ {c}
  BY <1>1, CallReplaced, IdleCall
<1>3. \A d \in Claims' : d \in Claims /\ call'[d] = call[d] /\ call[d].job # k
  BY <1>2 DEF JobsInv, ClaimsHold, Claims
<1>4. Locks'
  <2>1. rowLock' \subseteq Saved'
    BY DEF JobsInv, Locks
  <2>2. {call'[d].job : d \in Claims'} = {call[d].job : d \in Claims} \ {k}
    BY <1>2, <1>3 DEF Claims
  <2>. QED  BY <2>1, <2>2 DEF JobsInv, Locks
<1>5. ClaimsHold'
  <2>1. \A d \in Claims' : call'[d].job \in Job \ {k}
    BY <1>3, ClaimsTyped
  <2>2. \A d \in Claims' : Running(call[d].job)' = {}
    <3>. SUFFICES ASSUME NEW d \in Claims' PROVE Running(call[d].job)' = {}
      OBVIOUS
    <3>1. PICK j \in Job \ {k} : j = call[d].job
      BY <1>3, <2>1
    <3>2. Running(j)' = {} /\ call'[d].job = j
      BY <1>3, <3>1 DEF JobsInv, ClaimsHold
    <3>. QED  BY <3>2 DEF Running
  <2>. QED  BY <1>3, <2>2 DEF JobsInv, ClaimsHold
<1>6. OneRunPerJob'
  BY DEF JobsInv, OneRunPerJob
<1>. QED  BY <1>2, <1>4, <1>5, <1>6 DEF JobsInv

-----------------------------------------------------------------------------
LEMMA NextRunTyped ==
    ASSUME NEW d, NEW now \in Nat
    PROVE  NextRun(d, now) \in Nat \cup {Never}
  BY DEF NextRun

LEMMA SaveStep ==
    ASSUME JobsInv, NEW c \in Caller, NEW j \in Job, NEW d \in Recipe,
           NEW e \in BOOLEAN, NEW n \in Nat, Save(c, j, d, e, n)
    PROVE  JobsInv'
<1> DEFINE next == IF e THEN NextRun(d, clock) ELSE Never
           seen == IF d.schedule = "event" THEN event ELSE Never
           x == [at |-> "save", job |-> j, definition |-> d, enabled |-> e,
                 expected |-> n, nextRun |-> next, cursor |-> seen]
<1>1. next \in Nat \cup {Never} /\ seen \in Nat \cup {Never}
  BY NextRunTyped DEF JobsInv, Tables
<1>2. x \in Call /\ x.at # "claim"
  <2>. HIDE DEF next, seen
  <2>. QED  BY <1>1 DEF Call
<1>3. /\ call[c] = Idle /\ call' = [call EXCEPT ![c] = x]
      /\ UNCHANGED <<jobs, runs, rowLock, clock, event>>
  BY DEF Save
<1>. HIDE DEF x
<1>4. Calls' /\ Claims' = Claims \ {c} /\ \A b \in Caller \ {c} : call'[b] = call[b]
  BY <1>2, <1>3, CallReplaced
<1>5. c \notin Claims
  BY <1>3 DEF Claims, Idle
<1>6. Claims' = Claims /\ \A b \in Claims : call'[b] = call[b]
  BY <1>4, <1>5 DEF Claims
<1>7. Tables' /\ Saved' = Saved /\ \A k \in Job : Running(k)' = Running(k)
  BY <1>3 DEF JobsInv, Tables, Saved, Running
<1>. QED  BY <1>3, <1>4, <1>6, <1>7, QuietStep

LEMMA SaveCommitStep ==
    ASSUME JobsInv, NEW c \in Caller, SaveCommit(c)
    PROVE  JobsInv'
<1> DEFINE s == call[c]
           row == [definition |-> s.definition, revision |-> s.expected + 1,
                   enabled |-> s.enabled, nextRun |-> s.nextRun, cursor |-> s.cursor]
<1>1. s \in Call /\ s.at = "save"
  BY DEF JobsInv, Calls, SaveCommit
<1>2. s.job \in Job /\ row \in JobRow
  BY <1>1 DEF Call, JobRow
<1>3. /\ jobs' = jobs \/ jobs' = [x \in Saved \cup {s.job} |-> IF x = s.job THEN row ELSE jobs[x]]
      /\ call' = [call EXCEPT ![c] = Idle]
      /\ UNCHANGED <<runs, rowLock, clock, event>>
  BY DEF SaveCommit
<1>4. Tables' /\ Saved \subseteq Saved'
  <2>. HIDE DEF row, s
  <2>1. CASE jobs' = jobs
    BY <1>3, <2>1 DEF JobsInv, Tables, Saved
  <2>2. CASE jobs' = [x \in Saved \cup {s.job} |-> IF x = s.job THEN row ELSE jobs[x]]
    BY <1>2, <1>3, <2>2 DEF JobsInv, Tables, Saved
  <2>. QED  BY <1>3, <2>1, <2>2
<1>5. Calls' /\ Claims' = Claims \ {c} /\ \A b \in Caller \ {c} : call'[b] = call[b]
  BY <1>3, CallReplaced, IdleCall
<1>6. c \notin Claims
  BY <1>1 DEF Claims
<1>7. Claims' = Claims /\ \A b \in Claims : call'[b] = call[b]
  BY <1>5, <1>6 DEF Claims
<1>8. \A k \in Job : Running(k)' = Running(k)
  BY <1>3 DEF Running
<1>. QED  BY <1>3, <1>4, <1>5, <1>7, <1>8, QuietStep

LEMMA ClaimStep ==
    ASSUME JobsInv, NEW c \in Caller, NEW j \in Saved, NEW r \in Run,
           NEW manual \in BOOLEAN, NEW tag \in Tag, Claim(c, j, r, manual, tag)
    PROVE  JobsInv'
<1> DEFINE d == jobs[j].definition
           seen == IF ~manual /\ d.schedule = "event" THEN event ELSE Never
           key == IF ~manual /\ d.schedule = "cron" THEN jobs[j].nextRun ELSE tag
           x == [at |-> "claim", job |-> j, run |-> r, definition |-> d, manual |-> manual,
                 key |-> key, cursor |-> seen, now |-> clock]
<1>1. jobs[j] \in JobRow /\ j \in Job
  BY DEF JobsInv, Tables
<1>2. d \in Recipe /\ seen \in Nat \cup {Never} /\ clock \in Nat
  BY <1>1 DEF JobsInv, Tables, JobRow
<1>3. key \in Key
  <2>1. ~manual /\ d.schedule = "cron" => jobs[j].nextRun # Never
    BY DEF Claim, Due
  <2>2. jobs[j].nextRun \in Nat \cup {Never}
    BY <1>1 DEF JobRow
  <2>. QED  BY <2>1, <2>2 DEF Key
<1>4. /\ call[c] = Idle /\ j \notin rowLock /\ Running(j) = {}
      /\ call' = [call EXCEPT ![c] = x] /\ rowLock' = rowLock \cup {j}
      /\ UNCHANGED <<jobs, runs, clock, event>>
  BY DEF Claim, RowFree
<1>5. x \in Call /\ x.at = "claim" /\ x.job = j
  <2>. HIDE DEF d, seen, key
  <2>. QED  BY <1>1, <1>2, <1>3 DEF Call
<1>. HIDE DEF x
<1>6. /\ Calls' /\ call'[c] = x /\ Claims' = Claims \cup {c}
      /\ \A b \in Caller \ {c} : call'[b] = call[b]
  BY <1>4, <1>5, CallReplaced
<1>7. c \notin Claims
  BY <1>4 DEF Claims, Idle
<1>8. \A b \in Claims : call'[b] = call[b] /\ call[b].job # j
  BY <1>4, <1>6, <1>7, ClaimsTyped DEF Claims
<1>9. Tables' /\ Saved' = Saved /\ \A k \in Job : Running(k)' = Running(k)
  BY <1>4 DEF JobsInv, Tables, Saved, Running
<1>10. Locks'
  <2>1. {call'[b].job : b \in Claims'} = {call[b].job : b \in Claims} \cup {j}
    BY <1>5, <1>6, <1>8
  <2>. QED  BY <1>4, <1>9, <2>1 DEF JobsInv, Locks
<1>11. ClaimsHold'
  <2>1. \A b \in Claims : Running(call[b].job)' = {}
    BY <1>4, <1>8 DEF JobsInv, ClaimsHold, Running
  <2>2. Running(call[c].job)' = {}
    BY <1>4, <1>5, <1>6 DEF Running
  <2>. QED  BY <1>5, <1>6, <1>8, <2>1, <2>2 DEF JobsInv, ClaimsHold
<1>12. OneRunPerJob'
  BY <1>9 DEF JobsInv, OneRunPerJob
<1>. QED  BY <1>6, <1>9, <1>10, <1>11, <1>12 DEF JobsInv

LEMMA ClaimInsertStep ==
    ASSUME JobsInv, NEW c \in Caller, ClaimInsert(c)
    PROVE  JobsInv'
<1> DEFINE s == call[c]
           row == [job |-> s.job, key |-> s.key, definition |-> s.definition,
                   state |-> "running"]
           n == NextRun(s.definition, s.now)
<1>1. c \in Claims /\ s \in Call /\ s.at = "claim" /\ s.job \in Saved
  BY ClaimsTyped DEF ClaimInsert, Claims
<1>2. PICK k \in Job : k = s.job
  BY <1>1, ClaimsTyped
<1>3. /\ s.run \in Run /\ s.definition \in Recipe /\ s.cursor \in Nat \cup {Never}
      /\ s.now \in Nat /\ s.key \in Key
  BY <1>1 DEF Call
<1>4. row \in RunRow /\ row.job = k /\ n \in Nat \cup {Never}
  BY <1>2, <1>3, NextRunTyped DEF RunRow, RunState
<1>5. /\ call' = [call EXCEPT ![c] = Idle] /\ rowLock' = rowLock \ {k}
      /\ UNCHANGED <<clock, event>>
      /\ \/ UNCHANGED <<jobs, runs>>
         \/ /\ runs' = [x \in DOMAIN runs \cup {s.run} |-> IF x = s.run THEN row ELSE runs[x]]
            /\ s.run \notin DOMAIN runs
            /\ jobs' = jobs \/ jobs' = [jobs EXCEPT ![s.job].nextRun = n, ![s.job].cursor = s.cursor]
  BY <1>2 DEF ClaimInsert, Started
<1>6. CASE UNCHANGED <<jobs, runs>>
  <2>1. Tables' /\ Saved' = Saved /\ \A j \in Job : Running(j)' = Running(j)
    BY <1>5, <1>6 DEF JobsInv, Tables, Saved, Running
  <2>2. Running(k)' = {}
    BY <1>1, <1>2, <2>1 DEF JobsInv, ClaimsHold
  <2>. HIDE DEF s
  <2>. QED  BY <1>1, <1>2, <1>5, <2>1, <2>2, ClaimEnds DEF s
<1>7. CASE /\ runs' = [x \in DOMAIN runs \cup {s.run} |-> IF x = s.run THEN row ELSE runs[x]]
           /\ s.run \notin DOMAIN runs
           /\ jobs' = jobs \/ jobs' = [jobs EXCEPT ![s.job].nextRun = n, ![s.job].cursor = s.cursor]
  <2>1. jobs' \in [Saved -> JobRow]
    <3>1. jobs[s.job] \in JobRow
      BY <1>1 DEF JobsInv, Tables
    <3>. HIDE DEF s, n
    <3>. QED  BY <1>3, <1>4, <1>7, <3>1 DEF JobsInv, Tables, JobRow
  <2>2. runs' \in [DOMAIN runs' -> RunRow] /\ DOMAIN runs' \subseteq Run
    <3>. HIDE DEF s, row
    <3>. QED  BY <1>3, <1>4, <1>7 DEF JobsInv, Tables
  <2>3. Tables' /\ Saved' = Saved
    BY <1>5, <2>1, <2>2 DEF JobsInv, Tables, Saved
  <2>4. \A j \in Job \ {k} : Running(j)' = Running(j)
    <3>. HIDE DEF s, row
    <3>. QED  BY <1>4, <1>7 DEF Running
  <2>5. \A x, y \in Running(k)' : x = y
    <3>1. Running(k) = {}
      BY <1>1, <1>2 DEF JobsInv, ClaimsHold
    <3>. HIDE DEF s, row
    <3>. QED  BY <3>1, <1>7 DEF Running
  <2>. QED  BY <1>1, <1>2, <1>5, <2>3, <2>4, <2>5, ClaimEnds
<1>. QED  BY <1>5, <1>6, <1>7

LEMMA FinishStep ==
    ASSUME JobsInv, NEW r \in DOMAIN runs, NEW state \in RunState \ {"running"},
           Finish(r, state)
    PROVE  JobsInv'
<1>1. /\ runs' = [runs EXCEPT ![r].state = state]
      /\ UNCHANGED <<jobs, rowLock, call, clock, event>>
  BY DEF Finish
<1>2. runs' \in [DOMAIN runs -> RunRow]
  BY <1>1 DEF JobsInv, Tables, RunRow
<1>3. Tables' /\ Calls' /\ Claims' = Claims /\ Saved' = Saved
  BY <1>1, <1>2 DEF JobsInv, Tables, Calls, Claims, Saved
<1>4. \A j \in Job : Running(j)' \subseteq Running(j)
  BY <1>1, <1>2 DEF Running
<1>. QED  BY <1>1, <1>3, <1>4, QuietStep

LEMMA CrashStep ==
    ASSUME JobsInv, NEW c \in Caller, Crash(c)
    PROVE  JobsInv'
<1>1. /\ call' = [call EXCEPT ![c] = Idle] /\ UNCHANGED <<jobs, runs, clock, event>>
      /\ rowLock' = IF c \in Claims THEN rowLock \ {call[c].job} ELSE rowLock
  BY DEF Crash, Claims
<1>2. Tables' /\ Saved' = Saved /\ \A j \in Job : Running(j)' = Running(j)
  BY <1>1 DEF JobsInv, Tables, Saved, Running
<1>3. CASE c \in Claims
  <2>1. PICK k \in Job : k = call[c].job
    BY <1>3, ClaimsTyped
  <2>2. Running(k)' = {}
    BY <1>2, <1>3, <2>1 DEF JobsInv, ClaimsHold
  <2>. QED  BY <1>1, <1>2, <1>3, <2>1, <2>2, ClaimEnds
<1>4. CASE c \notin Claims
  <2>1. Calls' /\ Claims' = Claims \ {c} /\ \A b \in Caller \ {c} : call'[b] = call[b]
    BY <1>1, CallReplaced, IdleCall
  <2>2. Claims' = Claims /\ \A b \in Claims : call'[b] = call[b]
    BY <1>4, <2>1 DEF Claims
  <2>. QED  BY <1>1, <1>2, <1>4, <2>1, <2>2, QuietStep
<1>. QED  BY <1>3, <1>4

LEMMA OutsideStep ==
    ASSUME JobsInv, Tick \/ Happen \/ UNCHANGED jobsVars
    PROVE  JobsInv'
<1>1. /\ UNCHANGED <<jobs, runs, rowLock, call>>
      /\ clock' \in Nat /\ event' \in Nat
  BY DEF JobsInv, Tables, Tick, Happen, jobsVars
<1>2. Tables' /\ Calls' /\ Saved' = Saved /\ Claims' = Claims
  BY <1>1 DEF JobsInv, Tables, Calls, Saved, Claims
<1>3. \A j \in Job : Running(j)' = Running(j)
  BY <1>1 DEF Running
<1>. QED  BY <1>1, <1>2, <1>3, QuietStep

-----------------------------------------------------------------------------
(* JobsInv is inductive for the whole of jobs.py.                          *)
THEOREM JobsInvariant == JobsSpec => []JobsInv
<1>1. ASSUME JobsInv, [JobsNext]_jobsVars
      PROVE  JobsInv'
  <2>1. ASSUME NEW c \in Caller, CallNext(c)
        PROVE  JobsInv'
    <3>1. 0 .. MaxRevision - 1 \subseteq Nat
      BY JobsAssumption
    <3>. QED  BY <1>1, <2>1, <3>1, SaveStep, SaveCommitStep, ClaimStep, ClaimInsertStep,
                 CrashStep DEF CallNext
  <2>. QED  BY <1>1, <2>1, FinishStep, OutsideStep DEF JobsNext
<1>. QED  BY <1>1, InitHolds, PTL DEF JobsSpec

(* Rows, calls and row locks keep their types, and a row is locked exactly *)
(* while a claim of its job is in flight (jobs.py claim).                  *)
THEOREM JobsTypesHold == JobsSpec => []JobsTypes
  BY JobsInvariant, InvTypes, PTL

(* A job never has two running runs (jobs.py claim), for any number of     *)
(* handlers, whichever of them die.                                        *)
THEOREM OneRunHolds == JobsSpec => []OneRunPerJob
<1>1. JobsInv => OneRunPerJob
  BY DEF JobsInv
<1>. QED  BY <1>1, JobsInvariant, PTL

-----------------------------------------------------------------------------
(* A claim in flight holds the recipe that is saved: no save passes its    *)
(* row lock.                                                               *)
ClaimsCurrent == \A c \in Claims : call[c].definition = jobs[call[c].job].definition

(* What a step may do to the tables: it saves a job no claim holds, starts *)
(* the run of a claim, ends a run that is running, or leaves both alone.   *)
SavesJob(c) ==
    /\ call[c].at = "save" /\ call[c].job \notin rowLock
    /\ SaveMatches(call[c].job, call[c].expected)
    /\ DOMAIN jobs' = Saved \cup {call[c].job} /\ runs' = runs
    /\ jobs'[call[c].job].revision = call[c].expected + 1
    /\ \A j \in Saved \ {call[c].job} : jobs'[j] = jobs[j]

StartsRun(c) ==
    /\ c \in Claims /\ call[c].run \notin DOMAIN runs
    /\ DOMAIN runs' = DOMAIN runs \cup {call[c].run}
    /\ runs'[call[c].run].job = call[c].job
    /\ runs'[call[c].run].definition = call[c].definition
    /\ \A r \in DOMAIN runs : runs'[r] = runs[r]
    /\ DOMAIN jobs' = Saved
    /\ \A j \in Saved : /\ jobs'[j].definition = jobs[j].definition
                        /\ jobs'[j].revision = jobs[j].revision
                        /\ jobs'[j].enabled = jobs[j].enabled

EndsRun ==
    /\ jobs' = jobs /\ DOMAIN runs' = DOMAIN runs
    /\ \A r \in DOMAIN runs : runs[r].state # "running" => runs'[r] = runs[r]

LEMMA TableSteps ==
    ASSUME JobsInv, [JobsNext]_jobsVars
    PROVE  \/ \E c \in Caller : SavesJob(c) \/ StartsRun(c)
           \/ EndsRun
<1>1. ASSUME NEW c \in Caller, SaveCommit(c)
      PROVE  SavesJob(c) \/ EndsRun
  BY <1>1 DEF SaveCommit, SavesJob, EndsRun, Saved
<1>2. ASSUME NEW c \in Caller, ClaimInsert(c)
      PROVE  StartsRun(c) \/ EndsRun
  <2>1. c \in Claims
    BY <1>2 DEF ClaimInsert, Claims
  <2>2. call[c].job \in Saved /\ jobs \in [Saved -> JobRow] /\ jobs[call[c].job] \in JobRow
    BY <2>1, ClaimsTyped DEF JobsInv, Tables
  <2>3. CASE Started(call[c])
    BY <1>2, <2>3 DEF ClaimInsert, EndsRun
  <2>4. CASE ~Started(call[c])
    <3>1. /\ call[c].run \notin DOMAIN runs
          /\ DOMAIN runs' = DOMAIN runs \cup {call[c].run}
          /\ runs'[call[c].run].job = call[c].job
          /\ runs'[call[c].run].definition = call[c].definition
          /\ \A r \in DOMAIN runs : runs'[r] = runs[r]
      BY <1>2, <2>4 DEF ClaimInsert, Started
    <3>2. /\ DOMAIN jobs' = Saved
          /\ \A j \in Saved : /\ jobs'[j].definition = jobs[j].definition
                              /\ jobs'[j].revision = jobs[j].revision
                              /\ jobs'[j].enabled = jobs[j].enabled
      BY <1>2, <2>2, <2>4 DEF ClaimInsert, Saved, JobRow
    <3>. QED  BY <2>1, <3>1, <3>2 DEF StartsRun
  <2>. QED  BY <2>3, <2>4
<1>3. ASSUME NEW r \in DOMAIN runs, NEW state \in RunState, Finish(r, state)
      PROVE  EndsRun
  BY <1>3 DEF Finish, EndsRun
<1>4. ASSUME UNCHANGED <<jobs, runs>>
      PROVE  EndsRun
  BY <1>4 DEF EndsRun
<1>5. ASSUME NEW c \in Caller, CallNext(c)
      PROVE  SavesJob(c) \/ StartsRun(c) \/ EndsRun
  BY <1>1, <1>2, <1>4, <1>5 DEF CallNext, Save, Claim, Crash
<1>. QED  BY <1>3, <1>4, <1>5 DEF JobsNext, Tick, Happen, jobsVars

LEMMA CurrentInit == JobsInit => ClaimsCurrent
  BY DEF JobsInit, ClaimsCurrent, Claims, Idle

(* Which claims a step may begin.                                          *)
LEMMA ClaimsBegin ==
    ASSUME JobsInv, [JobsNext]_jobsVars, NEW c \in Claims'
    PROVE  \/ c \in Claims /\ call'[c] = call[c]
           \/ /\ jobs' = jobs
              /\ call'[c].definition = jobs[call'[c].job].definition
<1>1. c \in Caller /\ call'[c].at = "claim" /\ call \in [Caller -> Call]
  BY DEF Claims, JobsInv, Calls
<1>2. CASE call'[c] = call[c]
  BY <1>1, <1>2 DEF Claims
<1>3. CASE call'[c] # call[c]
  <2>1. PICK b \in Caller : CallNext(b)
    BY <1>3 DEF JobsNext, Finish, Tick, Happen, jobsVars
  <2>2. CASE SaveCommit(b) \/ ClaimInsert(b) \/ Crash(b)
    <3>1. call' = [call EXCEPT ![b] = Idle]
      BY <2>2 DEF SaveCommit, ClaimInsert, Crash
    <3>. QED  BY <1>1, <1>3, <3>1, IdleCall
  <2>3. CASE \E j \in Job, d \in Recipe, e \in BOOLEAN, n \in 0 .. MaxRevision - 1 :
                 Save(b, j, d, e, n)
    <3>1. \E x : x.at = "save" /\ call' = [call EXCEPT ![b] = x]
      BY <2>3 DEF Save
    <3>. QED  BY <1>1, <1>3, <3>1
  <2>4. CASE \E j \in Saved, r \in Run, manual \in BOOLEAN, tag \in Tag :
                 Claim(b, j, r, manual, tag)
    <3>1. /\ jobs' = jobs
          /\ \E x : x.definition = jobs[x.job].definition /\ call' = [call EXCEPT ![b] = x]
      BY <2>4 DEF Claim
    <3>. QED  BY <1>1, <1>3, <3>1
  <2>. QED  BY <2>1, <2>2, <2>3, <2>4 DEF CallNext
<1>. QED  BY <1>2, <1>3

LEMMA CurrentStep ==
    ASSUME JobsInv, ClaimsCurrent, [JobsNext]_jobsVars
    PROVE  ClaimsCurrent'
<1>. SUFFICES ASSUME NEW c \in Claims'
              PROVE  call'[c].definition = jobs'[call'[c].job].definition
  BY DEF ClaimsCurrent
<1>1. CASE c \in Claims /\ call'[c] = call[c]
  <2>1. call[c].job \in rowLock /\ call[c].job \in Saved
    BY <1>1, ClaimsTyped
  <2>2. jobs'[call[c].job].definition = jobs[call[c].job].definition
    BY <2>1, TableSteps DEF SavesJob, StartsRun, EndsRun
  <2>. QED  BY <1>1, <2>2 DEF ClaimsCurrent
<1>. QED  BY <1>1, ClaimsBegin

LEMMA CurrentHolds == JobsSpec => []ClaimsCurrent
  BY CurrentInit, CurrentStep, JobsInvariant, PTL DEF JobsSpec

-----------------------------------------------------------------------------
(* A run starts from the recipe saved at that moment (jobs.py claim).      *)
THEOREM RunsCurrentHold == JobsSpec => RunsAreCurrent
<1>1. ASSUME JobsInv, ClaimsCurrent, [JobsNext]_jobsVars
      PROVE  [StartsCurrent]_jobsVars
  <2>1. ASSUME NEW c \in Caller, StartsRun(c)
        PROVE  StartsCurrent
    <3>1. DOMAIN runs' \ DOMAIN runs = {call[c].run} /\ c \in Claims
      BY <2>1 DEF StartsRun
    <3>2. runs'[call[c].run].definition = jobs[runs'[call[c].run].job].definition
      BY <1>1, <2>1, <3>1 DEF StartsRun, ClaimsCurrent
    <3>. QED  BY <3>1, <3>2 DEF StartsCurrent
  <2>2. ASSUME NEW c \in Caller, SavesJob(c)
        PROVE  StartsCurrent
    BY <2>2 DEF SavesJob, StartsCurrent
  <2>3. EndsRun => StartsCurrent
    BY DEF EndsRun, StartsCurrent
  <2>. QED  BY <1>1, <2>1, <2>2, <2>3, TableSteps
<1>. QED  BY <1>1, JobsInvariant, CurrentHolds, PTL DEF JobsSpec, RunsAreCurrent

(* No run is finished twice, restarted or lost (jobs.py finish).           *)
THEOREM FirstVerdictHolds == JobsSpec => FirstVerdictStands
<1>1. ASSUME JobsInv, [JobsNext]_jobsVars
      PROVE  [VerdictKept]_jobsVars
  BY <1>1, TableSteps DEF VerdictKept, SavesJob, StartsRun, EndsRun
<1>. QED  BY <1>1, JobsInvariant, PTL DEF JobsSpec, FirstVerdictStands

(* No confirmed save is overwritten unseen (jobs.py save).                 *)
THEOREM NoSaveIsLostHolds == JobsSpec => NoSaveIsLost
<1>1. ASSUME JobsInv, [JobsNext]_jobsVars
      PROVE  [SavesChain]_jobsVars
  <2>1. \A j \in Saved : jobs[j].revision \in Nat \ {0}
    BY <1>1 DEF JobsInv, Tables, JobRow
  <2>2. ASSUME NEW c \in Caller, SavesJob(c)
        PROVE  SavesChain
    <3>1. call[c] \in Call /\ call[c].at = "save"
      BY <1>1, <2>2 DEF JobsInv, Calls, SavesJob
    <3>2. call[c].expected \in Nat
      BY <3>1 DEF Call
    <3>. QED  BY <2>1, <2>2, <3>2 DEF SavesJob, SaveMatches, SavesChain, Saved
  <2>3. ASSUME NEW c \in Caller, StartsRun(c)
        PROVE  SavesChain
    BY <2>3 DEF StartsRun, SavesChain, Saved
  <2>4. EndsRun => SavesChain
    BY DEF EndsRun, SavesChain, Saved
  <2>. QED  BY <1>1, <2>2, <2>3, <2>4, TableSteps
<1>. QED  BY <1>1, JobsInvariant, PTL DEF JobsSpec, NoSaveIsLost
=============================================================================
