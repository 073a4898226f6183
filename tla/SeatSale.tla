------------------------------ MODULE SeatSale ------------------------------
(***************************************************************************)
(* What booking seats promises, whatever queue, cache and retries it is    *)
(* built from: a request gets all its seats at one moment or none, a seat  *)
(* belongs to one request at a time, a cancellation is final, and nobody   *)
(* is told "OK" who was not booked.                                        *)
(***************************************************************************)
CONSTANTS Refs, Seats

VARIABLES
    state,      \* what became of each request
    seats,      \* the seats it has
    answer      \* what its client is told

vars == <<state, seats, answer>>

Taken == UNION {seats[r] : r \in Refs}

TypeOK ==
    /\ state \in [Refs -> {"open", "booked", "cancelled"}]
    /\ seats \in [Refs -> SUBSET Seats]
    /\ answer \in [Refs -> {"none", "ok", "failed"}]

Init ==
    /\ state = [r \in Refs |-> "open"]
    /\ seats = [r \in Refs |-> {}]
    /\ answer = [r \in Refs |-> "none"]

Book(r) ==
    /\ state[r] = "open"
    /\ \E S \in (SUBSET (Seats \ Taken)) \ {{}} : seats' = [seats EXCEPT ![r] = S]
    /\ state' = [state EXCEPT ![r] = "booked"]
    /\ UNCHANGED answer

Cancel(r) ==
    /\ state[r] = "booked"
    /\ state' = [state EXCEPT ![r] = "cancelled"]
    /\ seats' = [seats EXCEPT ![r] = {}]
    /\ UNCHANGED answer

AnswerOk(r) ==
    /\ state[r] # "open"
    /\ answer' = [answer EXCEPT ![r] = "ok"]
    /\ UNCHANGED <<state, seats>>

\* A failure may be a mistake: the client is told to look again or to retry.
AnswerFailed(r) ==
    /\ answer' = [answer EXCEPT ![r] = "failed"]
    /\ UNCHANGED <<state, seats>>

Next == \E r \in Refs : Book(r) \/ Cancel(r) \/ AnswerOk(r) \/ AnswerFailed(r)

Spec == Init /\ [][Next]_vars
=============================================================================
