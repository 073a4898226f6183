--------------------------- MODULE ConcertBooking ---------------------------
(***************************************************************************)
(* The concert booking system: write-api requests, the FIFO queue,         *)
(* worker-svc deliveries and refunds over the shared store.                *)
(***************************************************************************)
EXTENDS ConcertCommit, ConcertWorker, ConcertRefund

vars == <<storeVars, queueVars, commitVars, workerVars, refundVars>>

Init ==
    /\ StoreInit /\ AnswerInit /\ QueueInit
    /\ CommitInit /\ WorkerInit /\ RefundInit

-----------------------------------------------------------------------------
(* Each process leaves the others' program counters and locals alone.      *)

RunCommit(r) == CommitStep(r) /\ UNCHANGED <<workerVars, refundVars>>
RunDelivery(d) == WorkerStep(d) /\ UNCHANGED <<commitVars, refundVars>>
RunRefund(r) == RefundStep(r) /\ UNCHANGED <<commitVars, workerVars>>
Poll == (\E B \in SUBSET msgs : Receive(B, GroupOf)) /\ UNCHANGED <<commitVars, refundVars>>
Timeout(r) == VisibilityTimeout(r) /\ UNCHANGED <<commitVars, refundVars>>
Redrive(r) == ToDlq(r) /\ UNCHANGED <<storeVars, commitVars, workerVars, refundVars>>
AskRefund(r) == RefundCommit(r) /\ UNCHANGED <<commitVars, workerVars>>

Crash ==
    \/ \E r \in Refs : CommitCrash(r) /\ UNCHANGED <<workerVars, refundVars>>
    \/ \E d \in Deliveries : WorkerCrash(d) /\ UNCHANGED <<commitVars, refundVars>>
    \/ \E r \in Refs : RefundCrash(r) /\ UNCHANGED <<commitVars, workerVars>>

\* Keys expire whatever the processes do.
Expiry ==
    /\ "expiry" \in Faults
    /\ \/ \E s \in Seats : ExpireSeat(s)
       \/ \E r \in Refs : ExpireMeta(r)
       \/ ExpireHoldSet
       \/ ExpireRemain
    /\ UNCHANGED <<queueVars, commitVars, workerVars, refundVars>>

Next ==
    \/ \E r \in Refs : RunCommit(r) \/ AskRefund(r) \/ RunRefund(r)
                       \/ Timeout(r) \/ Redrive(r)
    \/ \E d \in Deliveries : RunDelivery(d)
    \/ Poll
    \/ Crash
    \/ Expiry

Spec == Init /\ [][Next]_vars

\* A request that has begun is run to its end by its thread, pollers never
\* stop polling, a delivery is run to its end, and SQS makes a message visible
\* again or moves it to the dead-letter queue. Nothing makes a client begin.
Fairness ==
    /\ \A r \in Refs : /\ WF_vars(~At(r, "seed") /\ RunCommit(r))
                       /\ WF_vars(RunRefund(r))
                       /\ WF_vars(Timeout(r))
                       /\ WF_vars(Redrive(r))
    /\ WF_vars(Poll)
    /\ \A d \in Deliveries : WF_vars(RunDelivery(d))

FairSpec == Spec /\ Fairness

TypeOK ==
    /\ StoreTypeOK /\ AnswerTypeOK /\ QueueTypeOK
    /\ CommitTypeOK /\ WorkerTypeOK /\ RefundTypeOK

-----------------------------------------------------------------------------
(* Properties that hold under every fault of the model                     *)

\* However often its message is delivered and whatever fails, a booking is in
\* the database with all the seats it asked for or with none, a cancelled one
\* has none, and no seat has two owners (process_concert_booking relies on its
\* unique indexes and on rollback for this, not on the Redis holds).
BookedWhole ==
    /\ \A r \in Refs : SeatsOf(r) = IF booking[r] = "PAID" THEN Want(r) ELSE {}
    /\ \A a, b \in Refs : a # b => SeatsOf(a) \cap SeatsOf(b) = {}

\* A client that polls an OK has a row in concert_booking, paid for and not
\* merely about to be committed: store_result(OK) comes after the COMMIT on
\* every path, those of redeliveries and of the recovery from the DB included.
OkIsBooked ==
    \A r \in Refs : result[r] = "OK" => booking[r] # "none" /\ payment[r] # "none"

\* A message leaves the queue only with its result recorded, or for the
\* dead-letter queue: _handle_one_sqs_message never acknowledges a request it
\* has not answered.
NothingLost ==
    \A r \in Refs : order[r] > 0 /\ r \notin msgs \cup dlq => result[r] # "none"

\* A refunded booking is never paid again or given seats again, not even by a
\* redelivery that finds its row without seats and inserts them anew.
CancelIsFinal ==
    [][\A r \in Refs : booking[r] = "CANCEL" =>
         booking'[r] = "CANCEL" /\ payment'[r] = payment[r] /\ SeatsOf(r)' = {}]_vars

\* The abstract sale, seen through the tables and the recorded results.
SaleState == [r \in Refs |-> CASE booking[r] = "none" -> "open"
                               [] booking[r] = "PAID" -> "booked"
                               [] booking[r] = "CANCEL" -> "cancelled"]
SaleSeats == [r \in Refs |-> SeatsOf(r)]
SaleAnswer == [r \in Refs |-> CASE result[r] = "none" -> "none"
                                [] result[r] = "OK" -> "ok"
                                [] OTHER -> "failed"]
Sale == INSTANCE SeatSale WITH state <- SaleState, seats <- SaleSeats,
                               answer <- SaleAnswer

\* The whole system implements the abstract sale.
ImplementsSale == Sale!Spec

-----------------------------------------------------------------------------
(* Properties of the holds, where nobody refunds                           *)

\* "CONFIRMED" in a seat key is never a lie: the seat is sold.
ConfirmedIsSold == \A s \in Seats : seatKey[s] = Confirmed => s \in Sold

\* A seat key never goes from its request to nobody once that request is
\* booked (the docstring of _finalize_concert_hold_by_ref: a successful write
\* keeps the seat).
SoldKeepsItsKey ==
    [][\A s \in Seats, r \in Refs :
         seatKey[s] = r /\ <<r, s>> \in rows => seatKey'[s] \in {r, Confirmed}]_vars

\* A request never deletes or overwrites the key another request holds, as the
\* comments in release_seats and _finalize_concert_hold_by_ref say: both read
\* the keys first and write later.
OwnHoldsOnly ==
    [][\A s \in Seats, a, b \in Refs :
         /\ seatKey[s] = a /\ a # b
         /\ cpc'[b] # cpc[b] \/ \E k \in 1..MaxReceive : hpc'[<<b, k>>] # hpc[<<b, k>>]
         => seatKey'[s] = a]_vars

\* A key held by a request is one it is still being committed, queued or
\* handled for: nothing refused, failed or answered leaves a seat orange.
NoOrphanHold ==
    \A s \in Seats, r \in Refs : seatKey[s] = r =>
       \/ cpc[r] \in Running
       \/ cpc[r] = "queued" /\ r \in msgs

\* A request accepted with a hold is never told that its seat was taken.
HoldWins ==
    \A r \in Refs : ~req[r].skip => result[r] # "DUPLICATE_SEAT"

-----------------------------------------------------------------------------
(* Properties of the results                                               *)

\* store_failure_result: an OK is not overwritten by a failure.
OkIsKept == [][\A r \in Refs : result[r] = "OK" => result'[r] = "OK"]_vars

\* A client told of a failure has not been booked.
FailureIsHonest ==
    \A r \in Refs : result[r] \notin {"none", "OK"} => booking[r] = "none"

-----------------------------------------------------------------------------
(* Properties of the remain counter                                        *)

Quiet ==
    /\ \A r \in Refs : cpc[r] \in {"seed", "queued"} \cup Refused
    /\ msgs = {}
    /\ \A d \in Deliveries : hpc[d] \in {"idle", "over"}
    /\ \A r \in Refs : rpc[r] \in {"idle", "over"}

\* When nothing is under way, what write-api took from the counter and what it
\* and worker-svc gave back add up to what the database sold.
RemainSettles ==
    Quiet => remain \in {Missing, Total - Cardinality(Sold)}

\* The counter never offers more seats than are left.
RemainNotOver == remain <= Total - Cardinality(Sold)

-----------------------------------------------------------------------------
(* Progress                                                                *)

\* A request that reached the queue gets a result, or its message ends in the
\* dead-letter queue after maxReceiveCount deliveries.
Answered ==
    \A r \in Refs : order[r] > 0 ~> (result[r] # "none" \/ r \in dlq)

\* Every hold is confirmed or released.
HoldResolved ==
    \A r \in Refs : \A s \in Seats : seatKey[s] = r ~> seatKey[s] # r
=============================================================================
