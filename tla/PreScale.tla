----------------------------- MODULE PreScale ------------------------------
(***************************************************************************)
(* The script an operator runs before a sale opens (scripts/pre_scale.py): *)
(* it looks at the cluster, asks Gemini for sizes, waits, patches object   *)
(* by object with kubectl, waits again and patches the sizes for           *)
(* afterwards.                                                             *)
(***************************************************************************)
EXTENDS ScaledCluster

CONSTANTS Plans    \* what Gemini may answer: the sizes before and after

ASSUME PreScaleAssumption == Plans \subseteq [up : [Targets -> Sizes], down : [Targets -> Sizes]]

VARIABLES pre      \* the script

NoPlan == [t \in Targets |-> [min |-> 0, max |-> 0]]
NoScript == [at |-> "off", plan |-> [up |-> NoPlan, down |-> NoPlan], known |-> {},
             todo |-> <<>>, missed |-> {}]
PrePlaces == {"off", "ready", "look", "wait", "up", "applied", "down", "over"}
Kinds == {"max", "min", "keda", "replicas", "both", "only max"}
PreTypeOK ==
    pre \in [at : PrePlaces, plan : [up : [Targets -> Sizes], down : [Targets -> Sizes]],
             known : SUBSET Targets, todo : Seq(Kinds \X Targets), missed : SUBSET Targets]

\* kubectl get, one call for each kind of object; a call that fails shows none.
Views == LET Shown(S) == IF "unreadable" \in may THEN {S, {}} ELSE {S}
         IN  {h \cup k \cup d : h \in Shown(Hpas), k \in Shown({Keda}), d \in Shown({Stable})}

\* The calls for an object, in the order of the script.
Calls(kind, S) == [i \in 1..Cardinality(S) |-> <<kind, SetToSeq(S)[i]>>]
\* Mutant: the minimum is raised first.
UpCalls_MinFirst(known) ==
    Calls("min", known \cap Hpas) \o Calls("max", known \cap Hpas)
    \o Calls("keda", known \cap {Keda}) \o Calls("replicas", known \cap {Stable})
UpCalls(known) ==
    Calls("max", known \cap Hpas) \o Calls("min", known \cap Hpas)
    \o Calls("keda", known \cap {Keda}) \o Calls("replicas", known \cap {Stable})
\* The deployment is scaled back whether or not it was seen.
DownCalls(known) ==
    Calls("both", known \cap Hpas) \o Calls("only max", known \cap {Keda})
    \o Calls("replicas", {Stable})

\* What a call makes of an object.
Sized(kind, old, new) ==
    CASE kind \in {"max", "keda", "only max"} -> [old EXCEPT !.max = new.max]
      [] kind = "min" -> [old EXCEPT !.min = new.min]
      [] kind \in {"both", "replicas"} -> new

Look ==
    /\ pre.at = "ready"
    /\ \E known \in Views : pre' = [pre EXCEPT !.at = "look", !.known = known]
    /\ UNCHANGED clusterVars

\* Without an answer of Gemini the script ends.
Plan ==
    /\ pre.at = "look"
    /\ \/ \E plan \in Plans : pre' = [pre EXCEPT !.at = "wait", !.plan = plan]
       \/ "dies" \in may /\ pre' = [pre EXCEPT !.at = "over"]
    /\ UNCHANGED clusterVars

\* The time before the sale has come; the objects are those of the first look.
ScaleUp ==
    /\ pre.at = "wait"
    /\ pre' = [pre EXCEPT !.at = "up", !.todo = UpCalls(pre.known)]
    /\ meddled' = {}
    /\ UNCHANGED <<git, live, wired, demand, may, touched, doubt>>

\* One kubectl patch. That of the ScaledObject puts a trigger without the
\* queue's address in the place of the whole list.
Call ==
    /\ pre.at \in {"up", "down"} /\ pre.todo # <<>>
    /\ LET kind == Head(pre.todo)[1]
           t    == Head(pre.todo)[2]
           size == Sized(kind, live[t], (IF pre.at = "up" THEN pre.plan.up
                                                          ELSE pre.plan.down)[t])
       IN  \/ /\ Patch(t, size)
              /\ wired' = (wired /\ kind # "keda")
              /\ pre' = [pre EXCEPT !.todo = Tail(@)]
           \/ /\ PatchFails(size)
              /\ pre' = [pre EXCEPT !.todo = Tail(@),
                                     !.missed = @ \cup (IF Valid(size) THEN {t} ELSE {})]
              /\ UNCHANGED wired
    /\ UNCHANGED <<git, demand, may, meddled, doubt>>

Applied ==
    /\ pre.at \in {"up", "down"} /\ pre.todo = <<>>
    /\ pre' = [pre EXCEPT !.at = IF pre.at = "up" THEN "applied" ELSE "over"]
    /\ UNCHANGED clusterVars

\* After the sale the cluster is looked at again.
ScaleDown ==
    /\ pre.at = "applied"
    /\ \E known \in Views :
         pre' = [pre EXCEPT !.at = "down", !.known = known, !.missed = {},
                            !.todo = DownCalls(known)]
    /\ UNCHANGED clusterVars

\* Ctrl-C, or a script told not to scale down: what is applied stays.
Quit ==
    /\ pre.at \in {"wait", "up", "applied", "down"}
    /\ pre' = [pre EXCEPT !.at = "over"]
    /\ UNCHANGED clusterVars

PreStep == Look \/ Plan \/ ScaleUp \/ Call \/ Applied \/ ScaleDown \/ Quit
=============================================================================
