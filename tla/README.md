# Spine, verified: the memory palace, its consent queue and its services

Spine (`src/src/spine`) is the FastAPI and Postgres service behind Nocturne's
memory: it keeps an owner's memories with their full history, proposes new ones
through a consent queue, injects them into agents' prompts and learns from what
the owner keeps. This directory holds TLA+ models of its core, the TLC runs that
check them on small instances, and TLAPS proofs for every instance.

## The system

| Part | State | Operations | Hard about it |
|---|---|---|---|
| Palace tables (`db/models.py`, `db/memory.py`) | heads, revisions, edges, cards, decisions | root insert, compare-and-swap (CAS) | head and history must move together |
| Memory service (`memory/service.py`) | none of its own | create, split, patch, reinforce, candidates | reads, an awaited embedding, then a write; an advisory lock per owner that not every writer takes |
| Approval queue (`queue/service.py`) | none of its own | extract, seed, curator proposals, decisions | pipelines of several transactions, stale judgements, batches |
| Symphony bridge (`symphony/service.py`) | run resolutions | stage, resolve | stages that commit between a resolution's read of the run and its commit |
| Workflow jobs (`jobs.py`) | recipes, runs | save, claim, finish | count-then-insert, cursors, clock read outside the transaction |
| Injection (`inject/`) | threads, events | prepare, commit, feedback | repeatable-read snapshots, retries, exactly-once outcomes |
| Learner (`learner/`), scorer console (`m2k/`) | retrain jobs, receipts, configurations, activations | submit, wake, retrain, compact; force, activate | a wake flag in each process, fits that take minutes, one version that serves |
| Curator passes (`curation/`) | gauges, cursors, runs, findings | run_due, run | a try-lock, a pass of many transactions around model calls |
| Spend and reconciliation (`spend/`), transcripts (`transcripts/`) | receipts, invoices, observations; journal lines | append, record an invoice, reconcile; ship | replays, other contents under one identity, lost answers |
| Embeddings (`embeddings/`) | the connection pool | embed with a receipt | a second connection while one is held |
| Model policy (`model_policy.py`) | a cached table, one choice per thread | select, resolve, set_policy | policies and tables that change during an await |
| Portability (`portability.py`), vitals | none | export, import; a report | an archive must satisfy what import checks |
| Billing breaker (`infra/`), ledger tool (`bin/`) | the billing account | a decision on a notification; tooling | late, repeated and foreign notifications, an API that fails, a trigger that does not retry |

The services share nothing but the database. They interact through rows (a head's
status and revision, a card's state), through the owner's advisory lock
(`pg_advisory_xact_lock`) and through row locks. What makes each part correct is in
its properties below; `PROJECT.json` lists the hazards they are for, each at its line.

## How the code becomes steps

* A transaction that takes its decisions under locks it keeps to its commit is one
  step: every decision on cards, `stage`, injection's `commit` and `feedback`, each
  CAS. So are `create_candidate`'s read of the duplicates and its insert, which hold the
  owner's lock together (`CandidateInsert`): that the lock is there is tested where a
  `create` reads and inserts in steps of their own (`NoTwinBirths`), and
  `QueueHoldsNoCopies` asks what the read must see.
* Where a handler reads, lets others commit, and then writes, it is two or more
  steps: `create` and `split` between their reads (the session runs READ COMMITTED,
  and patches, injections and denials take no advisory lock), `create_candidate`
  around its embedding call, `patch` between preflight and CAS, `save` between clock
  and UPDATE, `claim` between count and INSERT, `resolve` between its read of the
  staged rows and its commit (it holds the owner's lock, which no stage takes, and the
  rows it read, which keeps no new one out), `prepare` between its repeatable-read
  snapshot and its end, and every pipeline between its transactions.
* A request that is refused changes nothing and is no step. An IntegrityError, a
  stale revision or a stale target rolls back, so `Write` is simply not enabled; a
  handler that had already begun ends without a write.
* Handlers and workers may die at any point (`Crash`, `WorkerCrash`): the open
  transaction is rolled back, its locks are released, and what earlier transactions
  committed stays.
* Data is abstracted to what decisions read. An embedding is its body; the cosine
  score of two bodies is the constant `Band`; a label is a name and the number of
  the qualifier `approval_label` put on it; keywords, kinds, paths and times are
  left out, so a write of those alone is a revision with the same text.
* Two kinds of lock guard the services. A retrain, a console write, an invoice and a
  reconciliation wait for an advisory lock; a curator pass only tries its lock and
  goes away if it is taken. Under the lock a handler works on what it read when it
  got it: a repeatable-read snapshot (retrain), the one active configuration
  (console), counters that are overwritten at the end of the pass (curator).
* What the model does not fix, it leaves open. A fit may propose or not, a provider
  may answer anything or fail, diagnostics may find anything. Evidence can also shrink
  (an annotation withdraws it), which is why the learner's cadence compares with the
  largest count a receipt has seen.

## Modules

The palace, each module extending the one above it:

* **Palace** — the tables, `Write` (all head writes of one transaction: roots
  inserted, heads swapped), the active-label index, the shared reads, and the
  properties of lineage.
* **MemoryService** — `create` (`CreateDedup`, `CreateInsert`), `split`
  (`SplitCheck`, `SplitInsert`, two children), `patch` (`PatchRead`, `PatchCas`),
  reinforcement (`ReinforceRead`, `ReinforceCas`), and the head writes of injection
  (`InjectPrepare`, `InjectOutcome`). `req` holds what each handler has read.
* **ApprovalQueue** — extraction and seeding share a loop (`Extract`,
  `Seed`, `SeedSource`, `DraftCheck`, `CandidateInsert`, `EnqueueCheck`,
  `CardInsert`, `Discard`, `LoopEnd`); the curator's cards (`CuratorDiagnose`,
  `CuratorCandidate`, `CuratorJudge`, `CuratorCard`); decisions (`Decide`,
  `DecideBatch`, `CuratorDeny`, `CuratorReplace`, `CuratorContradict`,
  `CuratorRetire`, `CuratorKeywords`, `CuratorSplit`).
* **Symphony** — `Stage`; `resolve` as `ResolveRead`, `ResolveCommit` and
  `ResolveAbort`, with `RowsHeld` for the row locks of its FOR UPDATE on every step of
  the others. A path of attempts is a string of marks, as `_is_origin_prefix` compares
  it, so that `.10` begins like `.1`; `Ancestry` is the tree the properties speak of.
  **Portability** — also over the queue: `Export`
  of an owner's rows and what `import_archive` asks of them (`Importable`). The export
  runs in one snapshot, so every reachable state is an archive.

Injection and its law:

* **Injection** — over heads reduced to status, revision and counters:
  `PrepareBegin` (the snapshot: thread, candidates, scorer), `PrepareRetry` (an
  attempt that met a concurrent write), `PrepareFails` (retries used up, refused or
  dead) and `PrepareLand` (stamp, counters, events); `Commit`; `Feedback`; and `Patch`
  for every other writer of a head. The refusals of `prepare` are decided on its
  snapshot and are no step. `batches` counts the prepares that committed and is the
  clock as well: two snapshots that no such commit separates need not be told apart.
  The scorer is any configuration, the selection any that `score_and_select`'s rules
  allow. (`MemoryService` keeps the two injection writes only as rivals of its CAS;
  there a prepare is one step, as its CAS makes it.)
* **Evidence** — the pin, rank and budget law as operators, and the evidence for a
  larger or a smaller memory room that the learner reads from a recorded gate
  (`Recorded`: any pool of memories with token counts). Each is compared
  with a declarative reading of the rule. A sort is written as what it yields: an entry
  stands at the place that counts the entries before it (`Ranked`), which is the list
  Python's stable sort makes of keys without ties.

The services, each on its own:

* **Jobs** — `Save`, `SaveCommit`, `Claim`, `ClaimInsert`, `Finish`, with the clock
  and the trigger. A `trigger_key` that is no cron minute is whatever the caller sends.
* **Learner** — `SubmitJob`, `NotifyJob`, `Poll` and `Compaction` set a process's wake
  flag; `Wake`, `TakeTrigger`, `BeginJob`, `BeginCompact` are the worker's loop;
  `BeginRequest` is a retrain in a request of its own; `NoFit`, `Land`, `Raise` and
  `RecordError` end a retrain; `Restart` loses a process with its flags. The console is
  `SendForce`, `SendActivate`, `ConsoleRead`, `ConsoleWrite`, `ConsoleDies`. `Signal`
  and `Annotate` are the owner's evidence. A proposal is named by what its digest
  covers: the incumbent and the evidence.
* **CuratorPass** — the owner's side ticks the gauges (`Admit`, `RemoveFromContext`,
  `Edit`, `ApproveCard`, `RejectCard`, `OpenCompaction`, `CommitCompaction`); a pass is
  `RunDue` or `RunManual`, then `BuildReport`, `ReadTriggers`, `Judge`, `JudgedAll`,
  `EnqueueCard`, `PersistRun`, `AdvanceCursor`, `EndPass`, with `ProviderFails` and
  `LosePass` at any await.
* **Ledgers** — batches of receipts row by row under the unique key (`SendBatch`,
  `InsertRow`, `DeadlockVictim`, `FinishBatch`), invoices (`ReadInvoice`,
  `WriteInvoice`), reconciliation (`BeginReconcile`, `ReadLedger`, `AskBroker`,
  `CommitObservation`, the broker's `Bill`), transcripts (`ShipLines`).
* **ModelPolicy** — the selection rules (`SelectMax`, `SelectFloor`, `SelectElbow`,
  `SelectSlope`) over a table, the catalogue cache and the resolver with its lock and
  awaits. A table is a finite set of `Row`s; prices, scores and the logarithms of prices
  are whole numbers in a unit of their own, which loses nothing but the rounding of the
  code's floats. `PicksAreBest` speaks of the rows that have both columns, of a table the
  resolver accepts.
* **Embeddings** — the connection pool: a request holds one connection while its
  receipt needs another. **Breaker** — the billing breaker behind a
  trigger that does not retry: a notification is delivered once, whatever the handler
  makes of it, and one that Pub/Sub sends twice or late is a `LateCopy`.

Abstract specifications:

* **ScorerLog** — what console and learner promise together: one version serves, the
  log hands over from the one that serves to the next, a tap activates once. `Learner`
  instantiates it (`Authority`), mapping `serving` to the versions whose row is active.
* **Register** — what an append-only ledger promises: an entry stands, and what was
  acknowledged is stored. `Ledgers` instantiates it twice, for spend receipts
  (`Receipts`) and transcript lines (`Records`).

**MCMemory**, **MCQueue**, **MCReview**, **MCSymphony**, **MCInjection**, **MCJobs**,
**MCServices**, **MCLive** and **MCNag** are instances for TLC; **MemoryProofs**,
**QueueProofs**, **InjectionProofs**, **JobsProofs**, **LearnerProofs**,
**LedgerProofs** and **ServiceProofs** hold the theorems, **ProofBasics** what they share
about sequences.

Definitions marked *Fault* are one-definition variants of the code's logic, each a
plausible mistake; putting one in place of the original makes TLC refute the
property named with it in `PROJECT.json`.

## Runs

| Run | Shows |
|---|---|
| `memory` | `LineageComplete`, `RootsDescend`, `ReinforcementsExact`, `NoTwinBirths` with two handlers, three memories, two near texts and two edits |
| `queue_thread` | two extractions of new, merging and contradicting facts against one owner: `QueueTypes`, `DecisionsMatchCards`, `QueueHoldsNoCopies`, `OnlyConsentActivates`, `NothingLostByVerdict` |
| `queue_review` | a document of two children with batch and single decisions, tombstones and restores, the five kinds of curator card against an owner's rewrites, and two owners who each have cards, decisions and edges: `VerdictsEnacted`, `CuratorActsOnJudged`, and in every state and for each owner `EveryArchiveImports` |
| `symphony` | two runs, two owners, an attempt below another and one that only shares its digits, stages and a patch at any time: `OnlyWinnersOffered`, `LosersStayOut`, `RunsSettleWhatTheyRead` |
| `injection` | two memories, two prepares of one thread, two scorers with kill limits 1 and 2, a stranger on the same thread id: `InjectionTypes`, `OutcomesCountedOnce`, `CardsAreFrozen`, `OneGatePerThread`, `KillsQuarantine`, `QuarantineIsEarned`, `VetoesHold` |
| `services` | the services under faults and rivals. Jobs: `OneRunPerJob`, `RunsAreCurrent`. Learner and console: `JobsFitOnce`, `DueFitsStride`, `ImplementsScorerLog`. Curator: `CursorsOnlyAdvance`, `RecordedNotRepeated`. Ledgers: `LedgersAreRegisters`, `LocksStandForKeys`. Algorithms: `PicksAreBest`, `SelectionIsFirst`, `RoomEvidenceIsTrue`. Resolver: `ThreadsKeepTheirModel` |
| `live` | what must happen: `JobsSettle`, `DueIsServed`, `EveryRequestEnds`, `OverBudgetTrips`, with `StoredIsReceipted` on the pool |
| `rejected_race` | refutes that a rejected text stays out |
| `seed_race` | refutes that a seed is split once |
| `cursor_back` | refutes that a schedule's cursor never returns to a started occurrence |
| `twin_events` | refutes that feedback on a shown card finds one event |
| `nag_after_crash` | refutes that a rejected proposal is not made again while nothing changed |

The services share no state, so a behaviour of `services`, `live` or `queue_review`
plays one *scene* and leaves the others alone: the state space is the sum of the
scenes and not their product.

**Bounds of the palace.** `MaxEdits` stops patches and injections once that many
revisions exist beyond the roots; two suffice for two writers to race on one head and
for a third write to find the loser's trace. Three or four memories let a candidate,
its target and a copy coexist. `MaxTargets = 1` because the targets of a proposal are
checked one by one: with one, reading them at once is exact. `MaxCards` bounds how many
cards curators open. `MaxQualifier` is the number of label clashes that can arise with
these memories. Injection is left out of the queue's runs: to a card its writes are
those of a patch. In `injection`, two batches (`MaxBatches`) are a gate and a re-score
of its thread, two injection writes (`MaxWrites`) let a counter be written and
overwritten or a memory be killed twice, and one patch (`MaxPatches`) restores a
quarantined memory or overtakes a snapshot; the two handlers have different sets of
requests, chosen so that each kind of request meets a rival.

**Bounds of the services.** Two actors race everywhere. `MaxClock = 2` gives two due
minutes, a started and a next occurrence. The learner has a floor and a stride of one,
three signals of which one may be withdrawn (two fits and a shrinking corpus between
them), two jobs and one fault. The curator has two sites, one of them a pair that fills
the pair limit, a write threshold of two so that a gauge can be ahead without being
due, and one edit, so that a rejected finding can change. The ledgers have two
identities with two contents (replays and conflicts, batches that lock in opposite
orders), two hubs whose journals fork at their third line, two invoices, and three
observations with a tolerance of one. The selection rules run over every non-empty
subset of twelve points, chosen so that there are ties, free models, dominated points
and a stretch of the string where more than one point falls out; the law of the gate
over every pool of four memories with the first pinned or locked. `live` has two jobs,
two processes and a compaction; two curators; a pool of two connections with one
`create` and two `create_candidate` of one owner, the smallest on which everybody
waits; a budget of two and a cost of three, with any number of failing calls.

Deadlock is not checked: each of these systems rests when its bounds are used up.
Symmetry is over ids that no definition tells apart, and no run with a liveness
property uses it.

**Fairness** (only in `live`).

* `LearnerFairness`: a worker is one coroutine whose loop goes on and whose fits end
  one way or the other, so each process's steps are weakly fair; the client of a job
  polls until the job is settled, and a poll wakes a worker (`Poll`). Without the
  polls a job whose process restarted would wait for ever: `JobsSettle` rests on them.
* `PassFairness`: `CuratorWorker` polls every few seconds (`RunDue`), and a pass that
  runs runs on. Manual passes and deaths are not fair.
* `PoolFairness`: strong, for each request: the pool and the advisory lock queue their
  waiters and serve them in turn, and a checkout that waits too long raises. It is that
  timeout alone which ends the wait of a `create_candidate` for the connection its
  rivals hold.
* `BreakerFairness`: Cloud Billing publishes the budget's status periodically
  (`infra/billing-breaker/README.md:32-33`, the next status is the next attempt), so
  `PublishCost` is weakly fair. Nothing is delivered again because a call failed:
  `deploy.sh:525` says `--no-retry` and `deployment_checks.py:669` insists on it. The
  detach is strongly fair: there are attempts without end while the project is over its
  budget, and the billing API does not fail every one of them.

## Findings

1. *A rejection may be undone by an extraction under way.* `create_candidate` reads
   the rejected bodies, awaits the embedding, then reads the duplicates; a denial in
   between removes the one thing the second read would have found.
2. *A seed sent twice at once is split twice.* Nothing unique stands behind
   `_seed_batch`'s read.
3. *A save can put a schedule back on an occurrence that ran.* The unique key then
   refuses every scheduled claim until the next save.
4. *A near miss that the budget cut takes no feedback.* Its batch holds two events
   about it; `commit` knows, `feedback` does not and raises an error no handler maps.
5. *A pass that dies after it queued a card forgets why.* Cards are committed one by
   one, findings only at the end; `_was_seen_unchanged` joins both, so after a rejection
   the same unchanged finding is proposed again.

Also seen, and modelled as the code has it:

* Palace and queue: PATCH may set a candidate or staged memory active; a stale curator
  card can be neither approved nor denied; a single decision accepts a passive approval
  of a seed card; a mixed batch is decided although `docs/SPEC.md:1668-1669` wants it
  refused (`tests/test_queue_api.py:250-255` agree with the code); a worker that dies
  between candidate and card leaves a candidate nobody is shown; an attempt that stages
  after its run was resolved, or between the resolution's read of the rows and its
  commit, stays staged, although `docs/SPEC.md:1323` has the losers tombstone at the
  resolution: `stage` asks neither for the owner's lock nor whether the run is resolved,
  and FOR UPDATE keeps no new row out. Such a row still reaches nobody
  (`LosersStayOut`), and the resolution leaves it alone (`RunsSettleWhatTheyRead`).
* Jobs: a client that dies leaves its run running and the job unclaimable until
  somebody finishes the run.
* Learner and console: a job that fails makes the worker drop its turn, and a
  compaction trigger taken before waits for the next wake; a forced configuration
  inherits its base's learner marks and so can be activated as if it were a proposal.
* Curator: the report is built before the counters are read, so a write between the two
  is passed over; a failed pass uses up the compaction trigger; a compaction that a
  later `run.started` overtakes is never due; suppressed pairs use up the pair limit; a
  card may be queued for a site the owner has just approved another card for.
* Embeddings: an answer that was charged and whose receipt finds no connection is
  neither stored nor receipted.
* Reconciliation: the baseline is the oldest success by a timestamp taken before the
  lock, so a row committed later may become the baseline; a baseline taken while
  receipts are in flight leaves a drift for good.
* Breaker: a notification that is stale but over budget trips as well as a fresh one;
  after a failed call the project stays attached until the next periodic status.
* Model policy: a `set_policy` during an await makes `resolve` raise, or gives one
  model the context window of another; a hydrated choice may take the place of the
  retained one.

Seen and not modelled: `restore` keeps the latest event of each memory, so the
budget-cut twin of an added-back card hides it from the restored selection; a decision
takes row locks before the owner's lock and an extraction the other way round, so
Postgres may abort one of them, which changes nothing.

## Proofs

All theorems hold for every value of the constants that satisfies the named
assumptions of the modules: any number of handlers, memories, jobs, processes, clients
and faults.

*MemoryProofs* proves `MemorySpec => []Inv` (the assumptions: a symmetric dedup band,
null markers that are no values). `Inv` is the type invariant, `LineageComplete`,
`RootsDescend`, `ReinforcementsExact` and the fact that makes them inductive, `Reads`
(a handler's memory exists, and if its expected revision is still the head's then the
count it read is still the head's). Without `Reads` the
CAS of a reinforcement could write any count. The argument is about `Write` once
(`WriteRows`, `WriteLineage`, `WriteRoots`, `WriteReinforcements`: a write whose rows
are *fit* keeps each part; `Rows` is the typed-tables part of the invariant, stated
apart for them) and then about each action, which shows its rows fit. `NoTwinBirths`
needs a second invariant, `TwinInv`: a handler between the statements of a `create` or a
`split` holds its owner's advisory lock (`LockHeld`), no two hold the same one
(`LockAlone`), and what a `create` saw free of duplicates still is (`StillClear`). The
last part survives the births of others because by `LockAlone` they have other owners;
a step that is no birth only makes memories touched (`Bears({})`).

*QueueProofs* is about `QueueSpec` (memory service, queue and portability) and about
`SymphonySpec` on top of it. `Base` is the palace's `Inv` with what the queue adds to it:
a card's candidate is a memory of the card's owner (`CardsRefer`), what a worker carries
from one transaction to the next is still there (`WorkersRefer`), a root's parent row
belongs to the same owner (`Kinship`) and active labels are unique (`LabelIndex`).
Every step is then one of two kinds: it decides nothing (`Quiet`) or it settles a set of
undecided cards under one signal and enacts each (`Decisive`). Either way it `Evolves`
the memories (none goes, a changed one is a revision later, rows stay) and is `Progress`
for cards, edges and the corpus, and from these two facts the parts of `QueueInv`
follow: `DecisionsMatchCards`, `ConsentPrecedesActivation`, `VerdictsEnacted`,
`CuratorActsOnJudged`. `OnlyConsentActivates` is the consent of the very step: a quiet
step changes a status only by a birth, a PATCH or the discarding of a candidate
(`QuietConsents`), and a decisive one only on the cards it settles, whose candidates are
candidates still (`DecisiveConsents`). `NothingLostByVerdict` is read off the steps, and
`EveryArchiveImports` off `Base`, which is where `Kinship` and `LabelIndex` are needed.
`QueueHoldsNoCopies` is not inductive: a candidate that is to replace a memory may copy
it, and is discarded two transactions later. `CopiesBlocked` says of every such pair
that one of them has no card and that the worker about to give it one names the other as
a target.
For Symphony, `SymphonyInv` adds `OnlyWinnersOffered` and `LosersStayOut`. They hold
because no pipeline proposes a row an attempt wrote (`Local`) and no curator judges a
staged one (`Unstaged`), which is why `CardsRefer` and `WorkersRefer` say so; staging and
resolving are steps the queue does not see but for new pending cards (`Bridging`).
A resolution under way adds `ResolversFit`: while a row it read is at the revision it
read, it is staged, its owner's and of its run. The commit compares the revisions, so it
closes its run over such rows (`Closing`), and `RunsSettleWhatTheyRead` follows
(`ClosingSettles`: what the history holds at the revision that was read is what the
settled head shows). `AncestorPrefix` proves that comparing strings up to a dot, as
`_is_origin_prefix` does, finds exactly the ancestors in the tree of attempts.
`BridgeKeepsQueue` states that the queue's six invariants survive the bridge, and
`PipelinesKeepMemories` that the memory service's survive both. They cover
workers beside the bridge, which the `symphony` run leaves out for its size.
`LocksKeepTwinsOut` carries `NoTwinBirths` over to the whole: `LocksApart` says that no
two of all that take an owner's advisory lock, handlers, workers and resolutions alike,
hold it at once (`ResolversApart`). Each step takes it, gives its own back or leaves it (`Taking`, `Giving`,
`Leaving`), and no step but a handler's makes an untouched birth (`Barren`).
`RecordsOnlyGrow` is read off `Evolves` and `Progress`: revisions, edges, cards and
decisions are never rewritten.
The one assumption is `FiniteIds`: ids are ULIDs of 128 bits, so a resolution has
finitely many rows to make cards of.

*InjectionProofs* proves `InjectionInv`: the types, what a prepare in progress holds
(`CallsOK`: a memory unmoved since its snapshot is as the snapshot has it and not vetoed
in the thread), what the events of a batch can be (`EventsOK`: a batch has one decidable
card of a memory), and `OutcomesCountedOnce`, `CardsAreFrozen`, `OneGatePerThread`,
`KillsQuarantine`. `VetoesHold` and `QuarantineIsEarned` are action properties of the
same invariant. The assumption `Version # {}` is the service's own: it wants exactly one
active configuration (`src/src/spine/inject/service.py:387`).

*JobsProofs* proves the invariant `JobsInv`: types, a row is locked exactly by the
claim in flight on it, no two claims share a job, and a job under claim has nothing
running. `OneRunPerJob` alone is not inductive: the count is read before the insert.
`ClaimsCurrent` (a claim's recipe is the saved one) gives `RunsAreCurrent`, and the
shape of each step (`TableSteps`) gives `FirstVerdictStands` and `NoSaveIsLost`.

*LearnerProofs* proves `LearnerInv`. Besides the foreign keys it says what a lock is
worth: whoever fits has the learner's lock, and when its cadence was due its snapshot
is a stride ahead of every receipt above the floor (`WorkersOK`); whoever writes at the console has
the control lock, and the version it read as active is the one that serves
(`ConsoleOK`). `SomeReceiptIsMost` is there because the cadence's cursor is a maximum,
which the provers must know to exist. From it follow `JobsFitOnce`, `DueFitsStride`
and the refinement: `Init` maps to the initial log, `ConsoleWrite` and nothing else to a
handover, and every other step to a stutter. The budget law is here too, for every
recorded gate. The loop over the ranked list is a fold, and what it has kept after each
step fits beside what is locked, and whatever relevant memory was passed over did not fit
with what was kept ahead of it (`LoopOK`). At the end of the list this is
`SelectionIsFirst`; and as room once taken is not given back, a cut memory does not fit
beside the final selection either, which is `RoomEvidenceIsTrue`.

*LedgerProofs* proves one invariant for each ledger. `SpendInv`: the rows a batch in
progress has inserted are its own, not yet visible, and disjoint from every other
batch's; what it passed over was there. `TranscriptInv`: what a hub was told is stored
as it sent it. These give the refinement of `Register`. `InvoiceInv` (who writes has
the invoice's lock and knows all its rows) and `ReconInv` (a row about to be the
baseline is written before any success) give `LocksStandForKeys`. `LedgerTypesHold` has
no hypothesis of its own: that the stored receipts always add up to a natural number is
proved of the fold. `GrowthIsNeverNegativeHolds` rests on the same sums: receipts are
never taken back and are not negative, so the ledger an observation read is at least that
of any row it may be compared with, and the branch of `_successful_row` for negative
growth is not reached.

*ServiceProofs* holds the smaller services. `PassInv`: a curator pass that is not at
rest has the lock, and the counters it read lie between the cursor and the gauges; the
last part is what makes `CursorsOnlyAdvance` true although a pass overwrites the cursor
with values it read long before. `RecordInv` adds that what a pass judged is news or
marked as suppressed, that a finding is judged once, and that the cards it has queued are
the newest ones and stand for the findings it is past; `RecordedNotRepeated` follows,
and a pass that dies in between leaves cards that are not recorded, which is finding 5.
`PolicyInv` (while an asker is out for a catalogue nobody retains anything for its
thread, and every answer is what is retained) gives `ThreadsKeepTheirModel`; it assumes
`<<>> \notin Asker`, the mark of a free lock being no asker. `PicksAreBestHolds` is
about the selections themselves, for every finite table. Each row is covered by one of
the frontier (`Covered`), the frontier is listed in order (`FrontierIsOK`), and the hull the slope rule builds by
pushing and popping keeps three facts over the frontier walked so far (`HullOK`): it
climbs in intelligence (`Climbs`), each point of it costs no less than the one before
(`Taut`), and whatever a point is worth, one of its rows is as good as any row walked
(`Matches`). A popped row lies above the line between its neighbours, so one of them is as
good, and the third fact survives (`PoppedIsMatched`); where the walk along the hull
stops, every earlier step was worth its price and, the hull being taut, no later one is,
so no complete row beats the pick (`StopIsBest`). For the elbow it is enough that the
frontier holds a row at least as deep as any complete one.
`PoolInv` (before its call a request is not charged, past its
receipt it is paid) for `StoredIsReceipted`, and `BreakerInv` (a notification of the
budget carries a cost that was reached) for `NoFalseTrip`.

*ProofBasics* is the library the algorithm proofs share. The induction theorems of the
standard library take an operator and none of the provers can instantiate them, so an
induction is written out: a set of counterexamples has a least one (the smallest natural
number, or the smallest finite set by cardinality), and the step refutes it. From that
come a fold's value one element at a time (`FoldUnique`, `FoldExists`), sums (`Total`,
`OneMoreWithin`), the list that counting ranks makes of a finite ordered set (`RankGrows`,
`RankLists`), and the run of a fold over a sequence, of which a fact is shown by being
true at the start and kept by each step (`FoldTrace`, `Traced`, `Goes`).

Every invariant and action property that a passing run checks is stated by a theorem.
Only model-checked: the liveness properties (`JobsSettle`, `DueIsServed`,
`EveryRequestEnds`, `OverBudgetTrips`), which rest on fairness and ENABLED and are out of
TLAPS's reach, and the refuted properties of the findings.

## Not modelled

* What the fit computes, the scorer's axes and the balancing of its corpus (floating
  point); `sweep_unused`, whose outcomes only feed the console's views.
* Reads: list, search, `restore`, `preview_scores`, the console's graph and replay
  views, spend reports, vitals. They change nothing and each is one query or snapshot.
* `backfill_projects` (writes a column no operation decides on), the queue's `feedback`
  (an annotation the palace never reads), rendering.
* The import's inserts, into a palace that by its own check holds none of the ids.
* Application wiring, auth, configuration, migrations, `deployment_checks.py` (inspects a
  deployment from outside) and the feature ledger tool: no state of the running system.

## What is left

1. Composition of `CuratorPass` with `ApprovalQueue`: here a card's approval is one step
   that clears its site, there it is the whole decision.
2. The lock order of decisions against extractions, with Postgres's abort as a step.
