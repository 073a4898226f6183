---------------------------- MODULE MCShowViews ----------------------------
(***************************************************************************)
(* A small instance of ShowViews for TLC.                                  *)
(***************************************************************************)
EXTENDS ShowViews, TLC

CONSTANTS t1, t2, t3, s1, s2, x1, x2, w1, w2, startup, operator

\* t1 and t3 want the same seat.
SeatFor == [t \in Tickets |-> IF t = t2 THEN s2 ELSE s1]

\* Only some of the actors are there; some tickets may be sold already.
Cast(actors, bought, faults) ==
    LET some(S, there) == [x \in S |-> IF x \in actors THEN there ELSE "over"]
    IN  /\ may = faults
        /\ tpc = [t \in Tickets |-> IF t \in bought THEN "done"
                                    ELSE IF t \in actors THEN "idle" ELSE "over"]
        /\ remain = Total - Cardinality(bought)
        /\ rpc = some(Readers, "idle") /\ wpc = some(Syncers, "sleep")
        /\ spc = (IF startup \in actors THEN "idle" ELSE "over")
        /\ apc = (IF operator \in actors THEN "idle" ELSE "over")
        /\ kind \in [Readers -> Kinds]
        /\ kind[x2] = "show"
        /\ x1 \notin actors => kind[x1] = "show"
        /\ {t1, t2, x1} \subseteq actors => kind[x1] # "show"

\* Pods of the loop fail beside everybody. One reader, of the pages that are made
\* of what is sold now, and one ticket meet everything else; with a refund besides,
\* the reader is booking-holds.
Casts ==
    \/ \E actors \in {{t1, t2, x1}, {t1, t2, w1, w2}, {t1, x1, x2},
                      {t1, x1, startup}, {t1, x1, operator}, {t1, w1, operator}} :
         Cast(actors, {}, {"db", "crash"})
    \/ \E actors \in {{t3, x1}, {t3, w1, w2}} : Cast(actors, {t1}, {"db", "crash"})
    \/ Cast({t1, x1}, {}, {"query", "redis", "expiry"}) /\ kind[x1] # "show"
    \/ Cast({t3, x1}, {t1}, {"query", "redis", "expiry"}) /\ kind[x1] = "holds"

InitCasts == Casts /\ Init
SpecCasts == InitCasts /\ [][Next]_vars /\ Fairness
=============================================================================
