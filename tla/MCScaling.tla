----------------------------- MODULE MCScaling -----------------------------
(***************************************************************************)
(* Small instances of Scaling for TLC, one cast of tools and faults each.  *)
(***************************************************************************)
EXTENDS Scaling, TLC

CONSTANTS keda, write, stable, kedaName, writeName, writeAlias, stranger

Size(min, max) == [min |-> min, max |-> max]
InGit == keda :> Size(0, 2) @@ write :> Size(1, 2) @@ stable :> Size(1, 1)
Parsed == [k \in Keys |-> CASE k = kedaName -> keda [] k = stranger -> Nothing
                          [] k \in {writeName, writeAlias} -> write]
Names(k, w, n) == keda :> k @@ write :> w @@ stable :> n
\* A plan that warms up, and one that the cluster refuses in part.
Answers == {
    [up |-> Names(Size(0, 4), Size(3, 4), Size(2, 2)), down |-> Names(Size(0, 2), Size(1, 2), Size(1, 1))],
    [up |-> Names(Size(0, 3), Size(4, 3), Size(1, 1)), down |-> Names(Size(0, 1), Size(1, 1), Size(1, 1))]}

Cast(faults, said, p, m, s) ==
    /\ may = faults /\ names = said
    /\ pre = [NoScript EXCEPT !.at = p]
    /\ mon = [NoWatch EXCEPT !.at = m]
    /\ search = [NoSearch EXCEPT !.at = s]

Casts ==
    \* The advisor: two names for one object, jobs that die, calls that fail.
    \/ Cast({"cron"}, {writeName, writeAlias}, "over", "off", "over")
    \/ Cast({"cron", "dies", "rollout"}, {writeName}, "over", "off", "over")
    \/ Cast({"cron", "unreadable"}, {writeName}, "over", "off", "over")
    \/ Cast({"cron", "unreadable"}, {stranger}, "over", "off", "over")
    \* pre_scale beside the monitor, pushes and rollouts, and calls that fail.
    \/ Cast({"operator", "rollout", "customers"}, {}, "ready", "off", "over")
    \/ Cast({"rollout", "push"}, {}, "ready", "sleep", "over")
    \/ Cast({"unreadable", "dies"}, {}, "ready", "off", "over")
    \* The search, when Gemini fails and when the monitor or a rollout steps in.
    \/ Cast({"dies"}, {}, "over", "off", "round")
    \/ Cast({"rollout"}, {}, "over", "sleep", "round")

InitCasts == Casts /\ Init
SpecCasts == InitCasts /\ [][Next]_vars /\ Fairness
=============================================================================
