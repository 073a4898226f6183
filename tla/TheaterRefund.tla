---------------------------- MODULE TheaterRefund ---------------------------
(***************************************************************************)
(* write-api: _refund_movie_booking. Its transaction locks the booking and *)
(* its seats, then the schedule row, in the opposite order of worker-svc;  *)
(* after its COMMIT the request rebuilds the cached pages.                 *)
(***************************************************************************)
EXTENDS TheaterReads

VARIABLES
    fpc,        \* where the transaction of each refund is
    target      \* the booking it is for

refundVars == <<fpc, target>>

RefundTypeOK ==
    /\ fpc \in [RefundIds -> {"idle", "held", "over"}]
    /\ target \in [RefundIds -> Deliveries \cup {Nobody}]

RefundInit ==
    /\ fpc = [f \in RefundIds |-> "idle"]
    /\ target = [f \in RefundIds |-> Nobody]

\* Mutant: the status is not looked at again under the lock.
LockBooking_Unchecked(f) ==
    /\ fpc[f] = "idle"
    /\ \E d \in Deliveries :
         /\ book[d] # "none" /\ pin[d] = Nobody
         /\ target' = [target EXCEPT ![f] = d]
         /\ fpc' = [fpc EXCEPT ![f] = "held"]
         /\ pin' = [pin EXCEPT ![d] = f]
    /\ UNCHANGED <<req, book, remain, status, lock, history, cache, owing, fillVars>>

\* SELECT ... FOR UPDATE of a booking, refused with 400 if it is cancelled, and
\* the UPDATEs of its payment and seats.
LockBooking(f) ==
    /\ fpc[f] = "idle"
    /\ \E d \in Deliveries :
         /\ book[d] # "none" /\ pin[d] = Nobody
         /\ target' = [target EXCEPT ![f] = d]
         /\ IF book[d] = "CANCEL"
              THEN fpc' = [fpc EXCEPT ![f] = "over"] /\ UNCHANGED pin
              ELSE fpc' = [fpc EXCEPT ![f] = "held"] /\ pin' = [pin EXCEPT ![d] = f]
    /\ UNCHANGED <<req, book, remain, status, lock, history, cache, owing, fillVars>>

\* Mutant: the seats are given back, the count is not.
RefundCommit_ForgetsCount(f) ==
    /\ fpc[f] = "held"
    /\ lock = Nobody
    /\ book' = [book EXCEPT ![target[f]] = "CANCEL"]
    /\ pin' = [pin EXCEPT ![target[f]] = Nobody]
    /\ Announce(f)
    /\ fpc' = [fpc EXCEPT ![f] = "over"]
    /\ BeginFill(f, "detail")
    /\ UNCHANGED <<req, remain, status, lock, cache, target>>

\* The UPDATE of the schedule, when its row is free, and COMMIT. The status of
\* the schedule stays as it is. chk_schedules_valid_count bounds the count.
RefundCommit(f) ==
    /\ fpc[f] = "held"
    /\ lock = Nobody
    /\ book' = [book EXCEPT ![target[f]] = "CANCEL"]
    /\ remain' = remain + Cardinality(Want(target[f]))
    /\ remain' <= Total
    /\ pin' = [pin EXCEPT ![target[f]] = Nobody]
    /\ Announce(f)
    /\ fpc' = [fpc EXCEPT ![f] = "over"]
    /\ BeginFill(f, "detail")
    /\ UNCHANGED <<req, status, lock, cache, target>>

\* The deadlock with a worker that waits for the seats, decided against the
\* refund, or any other failure: ROLLBACK and 500.
RefundFails(f) ==
    /\ fpc[f] = "held"
    /\ \/ lock # Nobody /\ SeatsOf(target[f]) \cap Want(lock) # {}
       \/ Fails("crash", f)
    /\ fpc' = [fpc EXCEPT ![f] = "over"]
    /\ pin' = [pin EXCEPT ![target[f]] = Nobody]
    /\ UNCHANGED <<req, book, remain, status, lock, history, cache, owing,
                   target, fillVars>>

RefundStep(f) == LockBooking(f) \/ RefundCommit(f) \/ RefundFails(f)
=============================================================================
