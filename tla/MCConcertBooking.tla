-------------------------- MODULE MCConcertBooking --------------------------
(***************************************************************************)
(* Small instances of ConcertBooking for TLC.                              *)
(***************************************************************************)
EXTENDS ConcertBooking, TLC

CONSTANTS r1, r2, s1, s2

Ask(S, first) == [seats |-> S, lead |-> first, skip |-> FALSE]

\* Both requests want the only seat, or one of two.
OneSeat == {Ask({s1}, s1)}
AnySeat == {Ask({s1}, s1), Ask({s2}, s2)}
\* Overlapping requests, two seats in either order.
Mixed == OneSeat \cup {Ask({s1, s2}, s1), Ask({s1, s2}, s2)}
\* Requests that go to the queue without a hold.
Unheld == {[seats |-> {s1}, lead |-> s1, skip |-> TRUE]}
UnheldMixed == Unheld \cup {[seats |-> {s1, s2}, lead |-> s1, skip |-> TRUE]}
AnyAsk == AnySeat \cup Unheld

\* Both requests were accepted without a hold and wait in the queue; the first
\* delivery of r2 could not connect to the database. The steps that led here are
\* left out of the behaviours.
InitQueued ==
    /\ StoreInit /\ RefundInit
    /\ remain = Total
    /\ \A r \in Refs : req[r].skip
    /\ msgs = Refs /\ inflight = {} /\ dlq = {} /\ sent = 2
    /\ order = [r \in Refs |-> IF r = r1 THEN 1 ELSE 2]
    /\ receives = [r \in Refs |-> IF r = r1 THEN 0 ELSE 1]
    /\ result = [r \in Refs |-> "none"] /\ queued = order
    /\ enq = 2 /\ done = 0
    /\ cpc = [r \in Refs |-> "queued"] /\ ticket = order
    /\ seed = [r \in Refs |-> NoSeed] /\ failing = [r \in Refs |-> FALSE]
    /\ held = [r \in Refs |-> {}] /\ mine = held
    /\ hpc = [d \in Deliveries |-> IF d = <<r2, 1>> THEN "over" ELSE "idle"]
    /\ verdict = [d \in Deliveries |-> "none"]
    /\ owned = [d \in Deliveries |-> {}] /\ low = {}
SpecQueued == InitQueued /\ [][Next]_vars

\* A rival for the second of the seats of r2, which releases the first then.
InitRivals == Init /\ req[r1] = Ask({s1}, s1) /\ req[r2] = Ask({s1, s2}, s2)
SpecRivals == InitRivals /\ [][Next]_vars /\ Fairness

OneShard == [s \in Seats |-> 1]
TwoShards == [s \in Seats |-> IF s = s1 THEN 1 ELSE 2]
Symmetry == Permutations(Refs)
=============================================================================
