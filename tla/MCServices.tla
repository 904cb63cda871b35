----------------------------- MODULE MCServices -----------------------------
(* TLC instance of the services beside the palace.  They share no state, so*)
(* a behaviour plays one scene, with the bounds that scene needs, and      *)
(* leaves the others alone.                                                *)
EXTENDS Jobs, Learner, CuratorPass, Ledgers, ModelPolicy, Evidence, TLC

(* The actors of every scene are a1 and a2.                                *)
CONSTANTS a1, a2, r1, r2, s1, s2

VARIABLE scene

servicesVars == <<scene, jobsVars, learnerVars, passVars, ledgerVars, policyVars, gate>>

notJobs == <<scene, learnerVars, passVars, ledgerVars, policyVars, gate>>
notLearner == <<scene, jobsVars, passVars, ledgerVars, policyVars, gate>>
notPass == <<scene, jobsVars, learnerVars, ledgerVars, policyVars, gate>>
notLedgers == <<scene, jobsVars, learnerVars, passVars, policyVars, gate>>
notPolicy == <<scene, jobsVars, learnerVars, passVars, ledgerVars, gate>>

Working == scene = "workflows" /\ UNCHANGED notJobs
Retraining == scene = "retrains" /\ UNCHANGED notLearner
Cadence == scene = "cadence" /\ UNCHANGED notLearner
Forcing == scene = "console" /\ UNCHANGED notLearner
Learning == scene \in {"retrains", "cadence", "console"} /\ UNCHANGED notLearner
Contending == scene = "contend" /\ UNCHANGED notPass
Reviewing == scene = "review" /\ UNCHANGED notPass
Passing == scene \in {"contend", "review"} /\ UNCHANGED notPass
Posting == scene = "posts" /\ UNCHANGED notLedgers
Invoicing == scene = "invoices" /\ UNCHANGED notLedgers
Reconciling == scene = "reconcile" /\ UNCHANGED notLedgers
Shipping == scene = "ship" /\ UNCHANGED notLedgers
Resolving == scene = "models" /\ UNCHANGED notPolicy

-----------------------------------------------------------------------------
(* Values.  Minute 1 is also a trigger key a caller may make up.           *)

MCRecipe == {[schedule |-> s, prompt |-> 1] : s \in {"cron", "event"}}

MCRank == [s \in Site |-> IF s = s1 THEN 1 ELSE 2]
MCEvery == [g \in Gauge |-> IF g = "writes" THEN 2 ELSE 1]

MCCost == [l \in Line |-> IF l = "a" THEN 1 ELSE 2]
MCJournal == [h \in Hub |-> IF h = "hub1" THEN <<"a", "b", "a">> ELSE <<"a", "b", "b">>]

(* The last point makes the string drop more than one it held.             *)
Coordinate == <<<<1, 0>>, <<2, 0>>, <<2, 1>>, <<2, 2>>, <<3, 2>>, <<3, 2>>, <<3, 4>>,
                <<4, 2>>, <<5, 4>>, <<6, 4>>, <<6, 8>>, <<9, 8>>>>
Table == {[slug |-> k, index |-> Coordinate[k][1], price |-> Coordinate[k][2],
           completion |-> k % 2] : k \in DOMAIN Coordinate}
MCLog == (1 :> 0 @@ 2 :> 1 @@ 4 :> 2 @@ 8 :> 3)
MCTables == {[rows |-> R, entries |-> {}] : R \in (SUBSET Table) \ {{}}}

(* The broker's own routers have no price of their own.                    *)
Router == [slug |-> 13, index |-> 9, price |-> -1, completion |-> -1]

Entry(id, k, variant) == [id |-> id, slug |-> k, variant |-> variant, context |-> 1]
MCCatalog ==
    {[rows |-> {row \in Table : row.slug \in {8, 12}} \cup {Router},
      entries |-> {Entry("m12", 12, FALSE), Entry("m12:free", 12, TRUE), Entry("m8:free", 8, TRUE)}],
     [rows |-> {row \in Table : row.slug \in {8, 10}},
      entries |-> {Entry("m10:free", 10, TRUE), Entry("m8:free", 8, TRUE)}]}

(* Four memories: the first may be pinned or locked, the second locked.    *)
Card(kinds) == [kind : kinds, score : 0 .. 2, cost : 1 .. 3]
Pool == {<<a, b, c, d>> : a \in Card({"pinned", "locked", "regular"}),
                          b \in Card({"locked", "regular"}),
                          c \in Card({"regular"}), d \in Card({"regular"})}
NoPool == [pool |-> <<>>, share |-> 0, liked |-> {}, outcome |-> "kept"]

Gates == {[pool |-> pool, share |-> 4, liked |-> 1 .. 4, outcome |-> "kept"] : pool \in Pool}
ASSUME \A g \in Gates : Recorded(g)

MCPolicy == {[kind |-> "max", value |-> 0], [kind |-> "floor", value |-> 3],
             [kind |-> "pinned", value |-> "static"], [kind |-> "pinned", value |-> "pin"]}

Symmetry == Permutations({a1, a2}) \cup Permutations({r1, r2})

-----------------------------------------------------------------------------
Init ==
    /\ scene \in {"workflows", "retrains", "cadence", "console", "contend", "review",
                  "posts", "invoices", "reconcile", "ship", "tables", "models", "gates"}
    /\ gate \in IF scene = "gates" THEN Gates ELSE {NoPool}
    /\ JobsInit /\ LearnerInit /\ PassInit /\ LedgersInit
    /\ IF scene = "models" THEN PolicyInit
       ELSE /\ listed \in IF scene = "tables" THEN MCTables ELSE {[rows |-> {}, entries |-> {}]}
            /\ policy = [kind |-> "max", value |-> 0]
            /\ cached = NoModel /\ confirmed = {} /\ answers = {}
            /\ retained = [t \in Thread |-> NoModel]
            /\ asker = [c \in Asker |-> Asking] /\ resolverLock = NoModel

Next ==
    \/ \E c \in Caller : CallNext(c) /\ Working
    \/ \E r \in DOMAIN runs, state \in RunState \ {"running"} : Finish(r, state) /\ Working
    \/ Tick /\ Working
    \/ Happen /\ Working
    \/ \E j \in RetrainJobId : SubmitJob(j) /\ Retraining
    \/ \E j \in RetrainJobId, i \in Instance : NotifyJob(j, i) /\ Retraining
    \/ \E j \in RetrainJobId, i \in Instance : Poll(j, i) /\ Retraining
    \/ \E t \in Trigger, i \in Instance : Compaction(t, i) /\ Retraining
    \/ \E i \in Instance : WorkerStep(i) /\ scene # "console" /\ Learning
    \/ \E i \in Instance : Restart(i) /\ Retraining
    \/ Signal /\ (scene = "console" => signals < 1) /\ (Cadence \/ Forcing)
    \/ Annotate /\ withdrawn < 1 /\ Cadence
    \/ \E h \in Handler, kind \in {"manual", "due"} :
          BeginRequest(h, kind) /\ (Cadence \/ (Forcing /\ at = [p \in Retrainer |-> Waiting]))
    \/ \E p \in Retrainer : NoFit(p) /\ Learning
    \/ \E p \in Retrainer : Land(p) /\ Learning
    \/ \E p \in Retrainer : Raise(p) /\ scene # "console" /\ Learning
    \/ \E c \in Console : ConsoleStep(c) /\ Forcing
    \/ \E s \in Site : Admit(s) /\ (Reviewing \/ (s = s1 /\ Contending))
    \/ RemoveFromContext /\ Contending
    \/ \E s \in Site : Edit(s) /\ s = s1 /\ Reviewing
    \/ \E k \in DOMAIN cards : ApproveCard(k) /\ Reviewing
    \/ \E k \in DOMAIN cards : RejectCard(k) /\ Passing
    \/ OpenCompaction /\ Reviewing
    \/ CommitCompaction /\ Reviewing
    \/ \E w \in Curator : RunDue(w) /\ Passing
    \/ \E w \in Curator : RunManual(w) /\ Contending
    \/ \E w \in Curator : PassStep(w) /\ Passing
    \/ \E w \in Curator : LosePass(w) /\ Contending
    \/ \E p \in Poster, uids \in [1 .. 2 -> Uid], lines \in [1 .. 2 -> Line] :
          SendBatch(p, uids, lines) /\ Posting
    \/ \E p \in Poster : SendBatch(p, <<"u1">>, <<"a">>) /\ ledger = <<>> /\ Reconciling
    \/ \E p \in Poster : PostStep(p) /\ (Posting \/ Reconciling)
    \/ \E b \in Biller, i \in InvoiceId, amount \in 1 .. 2 : ReadInvoice(b, i, amount) /\ Invoicing
    \/ \E b \in Biller : WriteInvoice(b) /\ Len(invoices) < 3 /\ Invoicing
    \/ \E l \in Line : Bill(l) /\ broker < 2 /\ Reconciling
    \/ \E r \in Spine : ReconcileStep(r) /\ Reconciling
    \/ \E h \in Hub, from, to \in 1 .. 3 : ShipLines(h, from, to) /\ Shipping
    \/ \E catalog \in Catalog : Publish(catalog) /\ Resolving
    \/ Expire /\ Resolving
    \/ \E p \in Policy : SetPolicy(p) /\ Resolving
    \/ \E c \in Asker, t \in Thread : Resolve(c, t) /\ Resolving
    \/ \E c \in Asker : EnterResolve(c) /\ Resolving
    \/ \E c \in Asker : LoadCatalog(c) /\ Resolving
    \/ \E c \in Asker : LoadNamed(c) /\ Resolving
    \/ \E c \in Asker, t \in Thread : \E model \in TurnModels(t) : ImageTurn(c, t, model) /\ Resolving
    \/ \E c \in Asker : ImageConfirmed(c) /\ Resolving
    \/ \E c \in Asker : Enrich(c) /\ Resolving
    \/ \E c \in Asker : ImageUnknown(c) /\ Resolving

ServicesSpec == Init /\ [][Next]_servicesVars
=============================================================================
