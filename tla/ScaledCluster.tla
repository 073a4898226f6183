--------------------------- MODULE ScaledCluster ---------------------------
(***************************************************************************)
(* The autoscaler objects that the scaling tools change: the manifests of  *)
(* the git repository and the objects of the cluster. ArgoCD applies git,  *)
(* but ignores a difference in replicas, minReplicas or maxReplicas        *)
(* (argocd/application.yaml.tpl), so it acts only when something else      *)
(* differs: a trigger of the ScaledObject, or a new image in git.          *)
(***************************************************************************)
EXTENDS Integers, FiniteSets, FiniteSetsExt, Sequences, SequencesExt, Functions

CONSTANTS
    Keda,      \* the ScaledObject of the worker
    Hpas,      \* the HorizontalPodAutoscalers of the two APIs
    Stable,    \* the worker's deployment outside the autoscaler
    Top,       \* bound: no tool asks for more pods
    PerPod,    \* the load one pod serves
    Demands,   \* the loads customers bring
    Kept       \* the sizes in git at the start

Targets == Hpas \cup {Keda, Stable}
Sizes == [min : 0..Top, max : 0..Top]

ASSUME ClusterAssumption ==
    /\ Top \in Nat /\ PerPod \in Nat \ {0} /\ Demands \subseteq Nat
    /\ IsFiniteSet(Hpas) /\ Keda \notin Hpas /\ Stable \notin Hpas /\ Keda # Stable
    /\ Kept \in [Targets -> Sizes]

VARIABLES
    git,       \* the sizes in the manifests
    live,      \* the sizes in the cluster
    wired,     \* whether the ScaledObject names its queue
    demand,    \* the load
    may,       \* the faults of this behaviour
    touched,   \* the objects patched by a tool since ArgoCD applied them
    meddled,   \* the objects changed by others since pre_scale began to patch
    doubt      \* the files last written from a size that was not the live one

clusterVars == <<git, live, wired, demand, may, touched, meddled, doubt>>

Faults == {"cron", "dies", "unreadable", "rollout", "push", "customers", "operator"}

ClusterTypeOK ==
    /\ git \in [Targets -> Sizes] /\ live \in [Targets -> Sizes]
    /\ wired \in BOOLEAN /\ demand \in Nat /\ may \subseteq Faults
    /\ touched \subseteq Targets /\ meddled \subseteq Targets /\ doubt \subseteq Targets

ClusterInit ==
    /\ git = Kept /\ live = Kept /\ wired = TRUE
    /\ touched = {} /\ meddled = {} /\ doubt = {}

Capacity(t) == PerPod * live[t].max
\* The API server refuses a minimum above the maximum.
Valid(size) == size.min <= size.max

\* A commit or a push that writes the sizes of an object in git.
Commit(t, max, doubtful) ==
    /\ git' = [git EXCEPT ![t].max = max]
    /\ doubt' = IF doubtful THEN doubt \cup {t} ELSE doubt \ {t}

\* kubectl patch: the cluster takes the new size, or the call fails.
Patch(t, size) ==
    /\ Valid(size)
    /\ live' = [live EXCEPT ![t] = size] /\ touched' = touched \cup {t}
PatchFails(size) ==
    /\ Valid(size) => "unreadable" \in may
    /\ UNCHANGED <<live, touched>>

\* selfHeal: the triggers differ from git, so the whole ScaledObject is applied.
SelfHeal ==
    /\ ~wired /\ wired' = TRUE
    /\ live' = [live EXCEPT ![Keda] = git[Keda]]
    /\ touched' = touched \ {Keda} /\ meddled' = meddled \cup {Keda}
    /\ UNCHANGED <<git, demand, may, doubt>>

\* A new image makes the application differ, and every manifest is applied.
Rollout ==
    /\ "rollout" \in may
    /\ wired' = TRUE /\ live' = git
    /\ touched' = {} /\ meddled' = Targets
    /\ UNCHANGED <<git, demand, may, doubt>>

\* A person writes another size.
Push(t) ==
    /\ "push" \in may
    /\ \E max \in 1..Top : Valid([git[t] EXCEPT !.max = max]) /\ Commit(t, max, TRUE)
    /\ may' = may \ {"push"}
    /\ UNCHANGED <<live, wired, demand, touched, meddled>>

Customers ==
    /\ "customers" \in may /\ demand' \in Demands
    /\ UNCHANGED <<git, live, wired, may, touched, meddled, doubt>>
=============================================================================
