------------------------------ MODULE Scaling ------------------------------
(***************************************************************************)
(* The tools that change how far the ticketing services may scale, at work *)
(* on one cluster: the ai-advisor job, which writes to git; pre_scale and  *)
(* the monitor, which patch the cluster; ArgoCD between the two; and the   *)
(* search for a threshold, which loads a service meanwhile.                *)
(***************************************************************************)
EXTENDS Advisor, PreScale, Monitor, ThresholdSearch

vars == <<clusterVars, advisorVars, pre, mon, search>>

\* A behaviour has some of the faults, some of the names and some of the scripts:
\* one may be started, is started at once, or is not used.
Init ==
    /\ ClusterInit /\ AdvisorInit
    /\ may \in SUBSET Faults /\ demand = 0 /\ names \in SUBSET Keys
    /\ pre \in {[NoScript EXCEPT !.at = at] : at \in {"off", "ready", "over"}}
    /\ mon \in {[NoWatch EXCEPT !.at = at] : at \in {"off", "sleep"}}
    /\ search \in {[NoSearch EXCEPT !.at = at] : at \in {"off", "round", "over"}}

\* An operator starts a script.
Starts ==
    /\ "operator" \in may
    /\ \/ pre.at = "off" /\ pre' = [pre EXCEPT !.at = "ready"] /\ UNCHANGED <<mon, search>>
       \/ mon.at = "off" /\ mon' = [mon EXCEPT !.at = "sleep"] /\ UNCHANGED <<pre, search>>
       \/ search.at = "off" /\ search' = [search EXCEPT !.at = "round"]
          /\ UNCHANGED <<pre, mon>>

Argo == SelfHeal \/ Rollout
Tools == /\ JobStep \/ StartJob \/ JobDies \/ Minute
         /\ UNCHANGED <<pre, mon, search>>
Cluster == /\ Argo \/ Customers \/ (\E t \in Hpas \cup {Keda} : Push(t))
           /\ UNCHANGED <<advisorVars, pre, mon, search>>

Next ==
    \/ Tools \/ Cluster
    \/ Starts /\ UNCHANGED <<clusterVars, advisorVars>>
    \/ PreStep /\ UNCHANGED <<advisorVars, mon, search>>
    \/ MonitorStep /\ UNCHANGED <<advisorVars, pre, search>>
    \/ SearchStep /\ UNCHANGED <<advisorVars, pre, mon>>

\* Minutes pass, cron starts the job, and a job that runs goes on; ArgoCD heals
\* what differs; a script goes on unless its user stops it.
Fairness ==
    /\ WF_vars(Minute /\ UNCHANGED <<pre, mon, search>>)
    /\ WF_vars(StartJob /\ UNCHANGED <<pre, mon, search>>)
    /\ WF_vars(JobStep /\ UNCHANGED <<pre, mon, search>>)
    /\ WF_vars(SelfHeal /\ UNCHANGED <<advisorVars, pre, mon, search>>)
    /\ WF_vars(PreStep /\ UNCHANGED <<advisorVars, mon, search>>)
    /\ WF_vars(SearchStep /\ UNCHANGED <<advisorVars, pre, mon>>)

Spec == Init /\ [][Next]_vars /\ Fairness

-----------------------------------------------------------------------------
TypeOK == ClusterTypeOK /\ AdvisorTypeOK /\ PreTypeOK /\ MonTypeOK /\ SearchTypeOK

\* Two jobs do not commit a size under the same name within the cooldown, counted
\* between the times they took, unless the note of the first was lost: the
\* ConfigMap is read and written whole by both ends of a job (apply_safe_patches,
\* _set_last_full_run).
OncePerCooldown ==
    [][git' # git /\ job.at = "put" =>
          \/ job.rec.key \in forgot
          \/ fresh[job.rec.key] - job.since >= Cooldown]_vars

\* The next rollout lowers no size, unless a tool patched the object by hand, or
\* its file was written from a size that was not the live one when it was written:
\* read before a rollout, or taken from Gemini (apply_safe_patches, which refuses
\* to go down).
RaisesOnly == \A t \in Targets \ (touched \cup doubt) : git[t].max >= live[t].max

\* When pre_scale has patched an autoscaler for the sale, both its sizes are those
\* of a plan that makes sense, unless a call failed or somebody else changed it
\* meanwhile: the cluster refuses a minimum above the maximum of the moment
\* (apply_scale raises the maximum first).
WarmUpLands ==
    pre.at = "applied" =>
       \A t \in (Hpas \cap pre.known) \ (pre.missed \cup meddled) :
          LET plan == pre.plan.up[t]
          IN  Valid(plan) /\ plan.max >= Kept[t].min => live[t] = plan

\* Whatever Gemini's errors counted as and the capacity did, the threshold the
\* search reports is below every load that was judged too much, and unless it stands
\* on an error or on no safe load at all, it is one the service bore when it was
\* judged (binary_search).
EstimateStands ==
    search.at = "over" /\ Estimate # NoLoad =>
       /\ \A load \in search.refused : Estimate < 5 * load
       /\ search.safe \notin search.guessed \cup {NoLoad, 0} =>
             \E c \in search.bore : Estimate <= 5 * c

\* Unless its jobs die, the advisor does a full run again and again, whatever the
\* ConfigMap reads as (main skips the minutes in between).
AdvisorLooksAgain == "cron" \in may /\ "dies" \notin may => []<>(job.at = "stamp save")
=============================================================================
