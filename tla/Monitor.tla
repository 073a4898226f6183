------------------------------ MODULE Monitor ------------------------------
(***************************************************************************)
(* The monitor that scales ahead of the load (scripts/realtime_monitor.py  *)
(* --auto): every interval it takes a snapshot, decides from it which      *)
(* objects need more pods, and patches them one after the other.           *)
(***************************************************************************)
EXTENDS ScaledCluster

CONSTANTS KedaStep, KedaCap, HpaStep, HpaCap

ASSUME MonitorAssumption == KedaStep \in Nat /\ HpaStep \in Nat
                            /\ KedaCap \in 0..Top /\ HpaCap \in 0..Top

VARIABLES mon      \* the monitor

NoWatch == [at |-> "off", snap |-> [t \in Targets |-> 0], todo |-> {}]
MonTypeOK ==
    mon \in [at : {"off", "sleep", "patch"}, snap : [Targets -> 0..Top], todo : SUBSET Targets]

Raised(t, max) == IF t = Keda THEN Min({max + KedaStep, KedaCap})
                              ELSE Min({max + HpaStep, HpaCap})
\* An API whose desired size is its maximum, or whose pods are hot, which they may
\* be under any load; the worker when the backlog is about to reach its threshold,
\* as it may while messages come in.
Pressed(hot) == {t \in Hpas : demand >= Capacity(t)} \cup {t \in hot : demand > 0}

Snapshot ==
    /\ mon.at = "sleep"
    /\ \E hot \in SUBSET (Hpas \cup {Keda}) :
         mon' = [at |-> "patch", snap |-> [t \in Targets |-> live[t].max],
                 todo |-> {t \in Pressed(hot) : Raised(t, live[t].max) > live[t].max}]
    /\ UNCHANGED clusterVars

\* The ScaledObject is patched first; the new size comes from the snapshot.
MonitorPatch(t) ==
    /\ mon.at = "patch" /\ t \in mon.todo
    /\ Keda \in mon.todo => t = Keda
    /\ LET size == [live[t] EXCEPT !.max = Raised(t, mon.snap[t])]
       IN  Patch(t, size) \/ PatchFails(size)
    /\ meddled' = meddled \cup {t}
    /\ mon' = [mon EXCEPT !.todo = @ \ {t}]
    /\ UNCHANGED <<git, wired, demand, may, doubt>>

Sleep ==
    /\ mon.at = "patch" /\ mon.todo = {}
    /\ mon' = [NoWatch EXCEPT !.at = "sleep"]
    /\ UNCHANGED clusterVars

\* Ctrl-C.
MonitorEnds ==
    /\ mon.at # "off" /\ mon' = NoWatch
    /\ UNCHANGED clusterVars

MonitorStep == Snapshot \/ (\E t \in Targets : MonitorPatch(t)) \/ Sleep \/ MonitorEnds
=============================================================================
