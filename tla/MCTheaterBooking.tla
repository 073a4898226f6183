-------------------------- MODULE MCTheaterBooking --------------------------
(***************************************************************************)
(* A small instance of TheaterBooking for TLC.                             *)
(***************************************************************************)
EXTENDS TheaterBooking, TLC

CONSTANTS r1, r2, r3, r4, s1, s2, s3, f1, f2, a1

Ask(S) == [seats |-> S, known |-> TRUE]
\* One seat or both of the hall, one that does not exist, or no such schedule.
AnyAsk == {Ask({s2}), Ask({s1, s2}), Ask({s3}), [seats |-> {s1}, known |-> FALSE]}
\* The pods that serve r1 fail, those that serve r4 are too slow.
AllFaults == ({"crash", "redis", "send", "delete"} \X {r1}) \cup {<<"slow", r4>>}
             \cup ({"crash", "redis"} \X {f1, a1})
OwnGroup == [r \in Refs |-> r]

\* Only some of the actors are there, the others never start; and some have
\* booked a seat each, got their answer and told the cache before the start.
InitWith(actors, booked) ==
    LET isBooked(d) == d[1] \in booked /\ d[2] = 1
        from(S, there, not) == [x \in S |-> IF x \in actors THEN there ELSE not]
    IN  /\ req \in [Refs -> Requests]
        /\ \A r \in Refs \ actors : req[r] = Ask({s2})
        /\ req[r2] \in {Ask({s2}), Ask(Hall)}
        /\ r1 \in actors => req[r2] = Ask({s2})
        /\ book = [d \in Deliveries |-> IF isBooked(d) THEN "PAID" ELSE "none"]
        /\ remain = Total - Cardinality(booked) /\ status = "OPEN"
        /\ lock = Nobody /\ pin = [d \in Deliveries |-> Nobody]
        /\ history = <<>> /\ cache = [p \in Pages |-> 0]
        /\ owing = [p \in Pages |-> {}]
        /\ QueueInit /\ AnswerInit
        /\ hpc = [d \in Deliveries |-> IF isBooked(d) THEN "over" ELSE "idle"]
        /\ verdict = [d \in Deliveries |-> "none"]
        /\ tpc = from(Refs, "idle", "dead")
        /\ polling = {} /\ told = result
        /\ fpc = from(RefundIds, "idle", "over")
        /\ target = [f \in RefundIds |-> Nobody]
        /\ fill = from(Fillers, "idle", "over")
        /\ wants = [x \in Fillers |-> "bootstrap"]
        /\ seen = [x \in Fillers |-> 0]
SpecCasts ==
    /\ \/ \E actors \in {{r1, f1}, {r1, r2}, {r4, f1}, {r2, f1, a1}, {r2, r3}} :
            InitWith(actors, {})
       \/ InitWith({r3, f1, f2}, {r2})
    /\ [][Next]_vars

Symmetry == Permutations(RefundIds)
=============================================================================
