----------------------------- MODULE SeatLedger -----------------------------
(***************************************************************************)
(* What a schedule's books promise, whatever transactions, deliveries and  *)
(* refunds interleave: a booking takes free seats and the count of the     *)
(* remaining seats in one indivisible step, a refund gives both back in    *)
(* one indivisible step, and no booking is made or refunded twice.         *)
(***************************************************************************)
EXTENDS Integers, FiniteSets

CONSTANTS Bookings, Seats, Total

VARIABLES
    made,       \* bookings ever made
    held,       \* the seats each booking holds
    remain      \* the counter shown and checked: schedules.remain_count

vars == <<made, held, remain>>

Taken == UNION {held[b] : b \in Bookings}

\* Some bookings may have been made before.
Init ==
    /\ made \subseteq Bookings
    /\ held \in [Bookings -> SUBSET Seats]
    /\ \A b \in Bookings : held[b] # {} => b \in made
    /\ \A a, b \in Bookings : a # b => held[a] \cap held[b] = {}
    /\ remain = Total - Cardinality(Taken)

Book(b) ==
    /\ b \notin made
    /\ made' = made \cup {b}
    /\ \E S \in (SUBSET (Seats \ Taken)) \ {{}} :
         /\ Cardinality(S) <= remain
         /\ held' = [held EXCEPT ![b] = S]
         /\ remain' = remain - Cardinality(S)

Cancel(b) ==
    /\ held[b] # {}
    /\ held' = [held EXCEPT ![b] = {}]
    /\ remain' = remain + Cardinality(held[b])
    /\ UNCHANGED made

Next == \E b \in Bookings : Book(b) \/ Cancel(b)

Spec == Init /\ [][Next]_vars
=============================================================================
