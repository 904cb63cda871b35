------------------------------ MODULE MCReview ------------------------------
(* TLC instance of the queue's other two pipelines, a document that is     *)
(* seeded or a curator, each beside the owner's decisions and a client     *)
(* that creates and patches; or both pipelines between two owners.  A      *)
(* behaviour plays one of the three scenes.                                *)
EXTENDS MCQueue, Portability

CONSTANTS p1, p2

VARIABLE scene

sceneVars == <<scene, queueVars>>

MCAllPatches == MCPatches \cup MCRewrites

Owners == IF scene = "owners" THEN Principal ELSE {p1}

SceneDraft(d) == scene # "curator" => d.label = n1

ScenePatches ==
    CASE scene = "seed" -> MCPatches
      [] scene = "curator" -> MCRewrites
      [] scene = "owners" -> {}

SceneRepairs ==
    IF scene = "owners" THEN {r \in Repairs : r.action \in {"supersede", "contradict"}}
    ELSE Repairs

(* Only the seed scene has use for a second edit, and the curator scene for*)
(* no fourth memory.                                                       *)
SceneEdits == scene # "seed" => Edits = {}
SceneMem == scene = "curator" => Cardinality(DOMAIN heads') <= 3

Owner == UNCHANGED scene /\ SceneMem
Client1 == UNCHANGED flow /\ Owner

SceneInit == scene \in {"seed", "curator", "owners"} /\ QueueInit

SceneNext ==
    \/ \E c \in Client, p \in Owners, d \in Drafts, force \in BOOLEAN :
          SceneDraft(d) /\ CreateDedup(c, p, d, force) /\ Client1
    \/ \E c \in Client : CreateInsert(c) /\ Client1
    \/ \E c \in Client, p \in Owners, s, d, e \in Drafts :
          scene = "curator" /\ SplitCheck(c, p, s.body, d, e) /\ Client1
    \/ \E c \in Client : SplitInsert(c) /\ Client1
    \/ \E c \in Client, m \in Units, patch \in ScenePatches : \E n \in 1 .. heads[m].revision :
          SceneEdits /\ PatchRead(c, m, n, patch) /\ Client1
    \/ \E c \in Client : PatchCas(c) /\ Client1
    \/ \E c \in Client, m \in Units : \E n \in 1 .. heads[m].revision :
          scene # "owners" /\ SceneEdits /\ ReinforceRead(c, m, n) /\ Client1
    \/ \E c \in Client : ReinforceCas(c) /\ Client1
    \/ \E c \in Client : Crash(c) /\ Client1
    \/ \E w \in Worker, p \in Owners, doc \in Documents :
          \E implicated \in [DOMAIN doc.children ->
                                {T \in SUBSET Owned(p) : Cardinality(T) <= MaxTargets}] :
              scene # "curator" /\ Seed(w, p, doc, implicated) /\ Owner
    \/ \E w \in Worker : SeedSource(w) /\ Owner
    \/ \E w \in Worker : DraftCheck(w) /\ Owner
    \/ \E w \in Worker : CandidateInsert(w) /\ Owner
    \/ \E w \in Worker : EnqueueCheck(w) /\ Owner
    \/ \E w \in Worker : CardInsert(w) /\ Owner
    \/ \E w \in Worker : Discard(w) /\ Owner
    \/ \E w \in Worker : LoopEnd(w) /\ Owner
    \/ \E w \in Worker, p \in Owners, r \in SceneRepairs, m \in Active : \E T \in SUBSET Active :
          scene # "seed" /\ CuratorDiagnose(w, p, r, m, T) /\ Owner
    \/ \E w \in Worker : CuratorCandidate(w) /\ Owner
    \/ \E w \in Worker : CuratorJudge(w) /\ Owner
    \/ \E w \in Worker : CuratorCard(w) /\ Owner
    \/ \E w \in Worker : WorkerCrash(w) /\ Owner
    \/ \E i \in DOMAIN cards, signal \in Signal : Decide(i, signal) /\ Owner
    \/ \E b \in Batch, signal \in Signal : DecideBatch(b, signal) /\ Owner
    \/ \E i \in DOMAIN cards : CuratorDeny(i) /\ Owner
    \/ \E i \in DOMAIN cards, a \in Amendments \cup {Keep} : CuratorReplace(i, a) /\ Owner
    \/ \E i \in DOMAIN cards : CuratorContradict(i) /\ Owner
    \/ \E i \in DOMAIN cards : CuratorRetire(i) /\ Owner
    \/ \E i \in DOMAIN cards : CuratorKeywords(i) /\ Owner
    \/ \E i \in DOMAIN cards, d, e \in Drafts : CuratorSplit(i, d, e) /\ Owner

SceneSpec == SceneInit /\ [][SceneNext]_sceneVars

=============================================================================
