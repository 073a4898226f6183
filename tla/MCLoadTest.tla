----------------------------- MODULE MCLoadTest ----------------------------
(***************************************************************************)
(* A small instance of LoadTest for TLC.                                   *)
(***************************************************************************)
EXTENDS LoadTest, TLC

CONSTANTS u1, u2, u3, p1, p2, v1, v2, s1, s2

\* u3 and p2 come after the last seat.
Wish == (u1 :> s1) @@ (u2 :> s2) @@ (u3 :> Nobody) @@ (p1 :> s1) @@ (p2 :> Nobody)
        @@ (v1 :> Nobody) @@ (v2 :> Nobody)
InOrder == (v1 :> 1) @@ (v2 :> 2)
Free == <<s1, s2>>
Slow == [mode |-> "MANUAL", enabled |-> TRUE, rate |-> 1]
Fast == [mode |-> "MANUAL", enabled |-> TRUE, rate |-> 2]

\* Some users of a script; it begins at tick t, when some places are taken
\* already, the gate stands at d since tick o, and the control is what an earlier
\* script left.
From(p, actors, mishaps, t, taken, d, o, ctl) ==
    /\ plan = p /\ may = mishaps /\ now = t
    /\ enq = taken /\ done = d /\ control = ctl
    /\ clock = (IF o = 0 THEN 0 ELSE o + d * Second)
    /\ gate = [NewGate(FALSE) EXCEPT !.opened = o, !.rates = IF o = 0 THEN {} ELSE {ctl.rate}]
    /\ ref = [c \in Clients |-> 0]
    /\ phase = [c \in Clients |-> IF c \in actors THEN "idle" ELSE "cancelled"]

Cast(p, actors, mishaps, t, taken, ctl) == From(p, actors, mishaps, t, taken, 0, 0, ctl)

\* The burst test begins while a browser polls for the one place taken before.
CastTab ==
    /\ plan = "burst" /\ may = {} /\ now = 5
    /\ enq = 1 /\ done = 0 /\ clock = 0 /\ control = DefaultControl
    /\ gate = NewGate(FALSE)
    /\ ref = [c \in Clients |-> IF c = p2 THEN 1 ELSE 0]
    /\ phase = [c \in Clients |-> IF c = p2 THEN "poll" ELSE IF c = u1 THEN "idle"
                                  ELSE "cancelled"]

Casts ==
    LET Fresh == DefaultControl
    IN  \/ CastTab
        \/ Cast("burst", {u1, u2}, {"delays"}, 5, 0, Fresh)
        \/ Cast("burst", {u1, u3}, {"errors", "expiry", "crashes"}, 5, 0, Fresh)
        \/ Cast("burst", {u1}, {"delays", "expiry"}, 3, 0, Fresh)
        \/ Cast("burst", {u1}, {"delays", "interrupt", "orders"}, 5, 0, Fresh)
        \* The clock runs already: polls that ask at 3 and at 5 overtake each other.
        \/ From("phased", {p1, p2}, {"delays"}, 3, 3, 0, 1, Fast)
        \/ Cast("phased", {p1, p2}, {"monitor"}, 4, 1, Fresh)
        \/ Cast("phased", {p1, p2}, {"orders"}, 4, 1, Slow)
        \/ Cast("phased", {p1}, {"delays", "expiry"}, 4, 0, Fresh)
        \* The metrics have moved the gate before anybody came.
        \/ From("tickets", {v1, v2}, {}, 5, 0, 1, 3, Slow)
        \/ Cast("tickets", {v1}, {"delays", "expiry"}, 5, 0, Fresh)
        \/ Cast("tickets", {v1}, {"delays", "interrupt"}, 5, 0, Fresh)

InitCasts ==
    /\ Casts
    /\ script = (IF plan = "phased" \/ done # 0 THEN "run" ELSE "reset")
    /\ Init
SpecCasts == InitCasts /\ [][Next]_vars /\ Fairness
=============================================================================
