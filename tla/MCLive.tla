------------------------------- MODULE MCLive -------------------------------
(* TLC instance for what must eventually happen: retrain jobs on two       *)
(* servers, two curators over one site, requests on a small connection     *)
(* pool, and the billing breaker.  They share no state, so a behaviour     *)
(* plays one scene and leaves the others alone.                            *)
EXTENDS Learner, CuratorPass, Embeddings, Breaker

CONSTANTS w1, p1

VARIABLE scene

liveVars == <<scene, learnerVars, passVars, poolVars, breakerVars>>

notLearner == <<scene, passVars, poolVars, breakerVars>>
notPass == <<scene, learnerVars, poolVars, breakerVars>>
notPool == <<scene, learnerVars, passVars, breakerVars>>
notBreaker == <<scene, learnerVars, passVars, poolVars>>

MCRank == [s \in Site |-> 1]
MCEvery == [g \in Gauge |-> IF g = "writes" THEN 2 ELSE 1]
MCPrincipalOf == [r \in Request |-> p1]

Init ==
    /\ scene \in {"jobs", "passes", "pool", "breaker"}
    /\ LearnerInit /\ PassInit /\ PoolInit /\ BreakerInit

Learning == scene = "jobs" /\ UNCHANGED notLearner
Passing == scene = "passes" /\ UNCHANGED notPass
Pooling == scene = "pool" /\ UNCHANGED notPool
Tripping == scene = "breaker" /\ UNCHANGED notBreaker

Next ==
    \/ \E j \in RetrainJobId : SubmitJob(j) /\ Learning
    \/ \E j \in RetrainJobId, i \in Instance : NotifyJob(j, i) /\ Learning
    \/ \E j \in RetrainJobId, i \in Instance : Poll(j, i) /\ Learning
    \/ \E t \in Trigger, i \in Instance : Compaction(t, i) /\ Learning
    \/ \E i \in Instance : WorkerStep(i) /\ Learning
    \/ \E i \in Instance : Restart(i) /\ Learning
    \/ \E i \in Instance : RetrainStep(i) /\ Learning
    \/ \E s \in Site : Admit(s) /\ Passing
    \/ RemoveFromContext /\ Passing
    \/ \E k \in DOMAIN cards : RejectCard(k) /\ Passing
    \/ \E w \in Curator : RunDue(w) /\ Passing
    \/ \E w \in Curator : w # w1 /\ RunManual(w) /\ Passing
    \/ \E w \in Curator : PassStep(w) /\ Passing
    \/ \E w \in Curator : LosePass(w) /\ Passing
    \/ \E r \in Request : RequestStep(r) /\ Pooling
    \/ BreakerNext /\ Tripping

Fairness ==
    /\ \A i \in Instance : WF_liveVars((WorkerStep(i) \/ RetrainStep(i)) /\ Learning)
    /\ \A j \in RetrainJobId : WF_liveVars(\E i \in Instance : Poll(j, i) /\ Learning)
    /\ \A w \in Curator : WF_liveVars(PassStep(w) /\ Passing)
    /\ WF_liveVars(\E w \in Curator : RunDue(w) /\ Passing)
    /\ \A r \in Request : SF_liveVars(RequestStep(r) /\ Pooling)
    /\ WF_liveVars(PublishCost /\ Tripping)
    /\ SF_liveVars(\E m \in topic : Detach(m) /\ Tripping)

LiveSpec == Init /\ [][Next]_liveVars /\ Fairness
=============================================================================
