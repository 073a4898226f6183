--------------------------- MODULE TheaterBooking ---------------------------
(***************************************************************************)
(* Theater bookings of one schedule: write-api, the queue, worker-svc,     *)
(* refunds and the cached pages of read-api.                               *)
(***************************************************************************)
EXTENDS TheaterCommit, TheaterWorker, TheaterRefund

CONSTANT GroupOf    \* MessageGroupId: "{schedule_id}-{user_id}"

vars == <<theaterVars, queueVars, answerVars, commitVars, workerVars,
          refundVars, fillVars>>

Init ==
    /\ TheaterInit /\ QueueInit /\ AnswerInit
    /\ CommitInit /\ WorkerInit /\ RefundInit /\ FillInit

RunCommit(r) == CommitStep(r) /\ UNCHANGED <<workerVars, refundVars, fillVars>>
RunPoll(r) == PollStep(r) /\ UNCHANGED <<workerVars, refundVars, fillVars>>
RunDelivery(d) == WorkerStep(d) /\ UNCHANGED <<commitVars, refundVars, fillVars>>
RunRefund(f) == RefundStep(f) /\ UNCHANGED <<queueVars, answerVars, commitVars, workerVars>>
RunFill(x) == FillStep(x) /\ UNCHANGED <<queueVars, answerVars, commitVars, workerVars, refundVars>>
PollQueue == (\E B \in SUBSET msgs : Receive(B, GroupOf)) /\ UNCHANGED <<commitVars, refundVars, fillVars>>
Timeout(r) == VisibilityTimeout(r) /\ UNCHANGED <<commitVars, refundVars, fillVars>>
Redrive(r) == ToDlq(r) /\ UNCHANGED <<theaterVars, answerVars, commitVars, workerVars, refundVars, fillVars>>
Startup == SyncRemain /\ UNCHANGED <<queueVars, answerVars, commitVars, workerVars, refundVars, fillVars>>

Crash ==
    \/ \E r \in Refs : CommitCrash(r) /\ UNCHANGED <<workerVars, refundVars, fillVars>>
    \/ \E d \in Deliveries : WorkerCrash(d) /\ UNCHANGED <<commitVars, refundVars, fillVars>>
    \/ \E x \in Fillers : /\ FillCrash(x)
                          /\ UNCHANGED <<queueVars, answerVars, commitVars, workerVars, refundVars>>

Next ==
    \/ \E r \in Refs : RunCommit(r) \/ RunPoll(r) \/ Timeout(r) \/ Redrive(r)
    \/ \E d \in Deliveries : RunDelivery(d)
    \/ \E f \in RefundIds : RunRefund(f)
    \/ \E x \in Fillers : RunFill(x)
    \/ PollQueue
    \/ Startup
    \/ Crash

Spec == Init /\ [][Next]_vars

TypeOK ==
    /\ TheaterTypeOK /\ QueueTypeOK /\ AnswerTypeOK
    /\ CommitTypeOK /\ WorkerTypeOK /\ RefundTypeOK /\ FillTypeOK

-----------------------------------------------------------------------------

\* The counter that process_theater_booking checks, decrements and refunds
\* increment under their locks always is what is left of the hall, and a
\* schedule without seats left is closed.
RemainExact ==
    /\ remain = Total - Cardinality(Active)
    /\ remain = 0 => status = "CLOSED"

Made == {d \in Deliveries : book[d] # "none"}
Held == [d \in Deliveries |-> SeatsOf(d)]

\* The tables are a ledger: one booking or refund at a time, all or nothing.
Ledger == INSTANCE SeatLedger WITH Bookings <- Deliveries, made <- Made, held <- Held
ImplementsLedger == Ledger!Spec

BookedBy(r) == {d \in Deliveries : d[1] = r /\ book[d] # "none"}

\* A client told OK has a booking. One told that its seat does not exist has
\* none, and one told after a single delivery that its seats are taken has none
\* either; a redelivery may find the seats taken by the booking that the lost
\* delivery made, as theater bookings do not record their booking_ref.
AnswerIsHonest ==
    \A r \in Refs :
      /\ result[r] = "OK" => BookedBy(r) # {}
      /\ result[r] \in {"INVALID_SEAT", "NOT_FOUND"} => BookedBy(r) = {}
      /\ result[r] \in {"DUPLICATE_SEAT", "SOLD_OUT"} /\ receives[r] = 1 => BookedBy(r) = {}

\* A page that was true when it was stored lives no longer than the DEL or the
\* rebuild of whoever changed what it shows: every later change is still to be
\* announced, by a handler under way or one that died before it could.
StaleIsOwing ==
    \A p \in Pages : cache[p] >= 0 =>
      \A i \in (cache[p] + 1)..Len(history) : history[i] \in owing[p]

\* A poll that finds neither a result nor the queue mark of a request that was
\* marked came while the worker stored its result: the request has been handled.
UnknownIsHandled ==
    \A r \in Refs : told[r] = "UNKNOWN_OR_EXPIRED" /\ tpc[r] = "queued" => result[r] # "none"
=============================================================================
