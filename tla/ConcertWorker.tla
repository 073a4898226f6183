---------------------------- MODULE ConcertWorker ---------------------------
(***************************************************************************)
(* worker-svc: what one delivery of a concert message goes through, from   *)
(* _handle_one_sqs_message and process_concert_booking to _delete_message, *)
(* one step per Redis call, pipeline, transaction or SQS call.             *)
(* Handlers run in a thread pool, so the deliveries of a batch, of several *)
(* pollers and of several pods all interleave. A delivery is <<r, k>>: the *)
(* k-th time the message of request r is received.                         *)
(* InnoDB makes a transaction wait for an uncommitted row with the same    *)
(* unique key, so each one is a single step at its COMMIT; the deadlocks   *)
(* the code retries change nothing and are not steps.                      *)
(***************************************************************************)
EXTENDS ConcertStore

VARIABLES
    hpc,        \* where each delivery is
    verdict,    \* the code it is about to store
    owned,      \* seat keys _finalize_concert_hold_by_ref read as the ref's own
    low         \* the deliveries that saw no seat left, and will close the show

workerLocals == <<verdict, owned, low>>
workerVars == <<hpc, workerLocals>>

Deliveries == Refs \X (1..MaxReceive)
Working == {"start", "open", "txn", "same", "poll", "pollSame", "guard",
            "put", "pollPut", "failPut", "fin", "drop", "give", "close", "ack"}
HandlerPCs == Working \cup {"idle", "over"}

WorkerTypeOK ==
    /\ hpc \in [Deliveries -> HandlerPCs]
    /\ verdict \in [Deliveries -> Codes \cup {"none"}]
    /\ owned \in [Deliveries -> SUBSET Seats]
    /\ low \subseteq Deliveries

WorkerInit ==
    /\ hpc = [d \in Deliveries |-> "idle"]
    /\ verdict = [d \in Deliveries |-> "none"]
    /\ owned = [d \in Deliveries |-> {}]
    /\ low = {}

Ref(d) == d[1]
In(d, pc) == hpc[d] = pc
Go(d, pc) == hpc' = [hpc EXCEPT ![d] = pc]
Decide(d, code) == verdict' = [verdict EXCEPT ![d] = code]

\* Mutants: finalize is called with the wrong restore_remain.
Restores_Always(d) == TRUE
Restores_Never(d) == FALSE

\* A failed booking releases its hold, a successful one keeps it.
Restores(d) == verdict[d] # "OK"

\* poll_loop and _process_received_batch: every message of a receive call is
\* handed to the pool at once.
Receive(B, group) ==
    /\ Deliverable(B, group)
    /\ Deliver(B)
    /\ hpc' = [d \in Deliveries |->
                 IF d[1] \in B /\ d[2] = receives[d[1]] + 1 THEN "start" ELSE hpc[d]]
    /\ UNCHANGED <<storeVars, workerLocals>>

\* Mutant: a booking that is in the database counts as answered.
CheckResult_TrustsRow(d) ==
    /\ In(d, "start")
    /\ Go(d, IF result[Ref(d)] # "none" \/ booking[Ref(d)] # "none" THEN "ack" ELSE "open")
    /\ UNCHANGED <<storeVars, queueVars, workerLocals>>

\* A reference that already has a result is acknowledged; if the booking
\* database cannot be read the message is processed.
CheckResult(d) ==
    /\ In(d, "start")
    /\ \/ Go(d, IF result[Ref(d)] # "none" THEN "ack" ELSE "open")
       \/ "redis" \in Faults /\ Go(d, "open")
    /\ UNCHANGED <<storeVars, queueVars, workerLocals>>

-----------------------------------------------------------------------------
(* The transaction                                                         *)

\* The connection fails outside the try block: the handler returns False.
ConnectFails(d) ==
    /\ In(d, "open")
    /\ "db" \in Faults
    /\ Go(d, "over")
    /\ UNCHANGED <<storeVars, queueVars, workerLocals>>

\* The seats are compared with the show's rows and columns.
CheckSeats(d) ==
    /\ In(d, "open")
    /\ IF Want(Ref(d)) \cap Invalid # {}
         THEN Decide(d, "INVALID_SEAT") /\ Go(d, "put")
         ELSE UNCHANGED verdict /\ Go(d, "txn")
    /\ UNCHANGED <<storeVars, queueVars, owned, low>>

\* Mutant: no use is made of sqs_booking_ref.
AlreadyBooked_Never(r) == FALSE

\* The row of this booking_ref is there, with all its seats.
AlreadyBooked(r) == booking[r] # "none" /\ SeatsOf(r) = Want(r)

\* INSERT of the booking (or reuse of the row its booking_ref already has),
\* of its seats and of its payment violate no unique index.
InsertsSucceed(r) == SeatIndexFree(Want(r)) /\ PaymentIndexFree(r)

InsertRows(r) ==
    /\ booking' = [booking EXCEPT ![r] = IF @ = "none" THEN "PAID" ELSE @]
    /\ rows' = rows \cup ({r} \X Want(r))
    /\ payment' = [payment EXCEPT ![r] = "Y"]
    /\ UNCHANGED <<dbRemain, dbStatus>>

\* COMMIT, remain read just before it. When its answer is lost so is the
\* connection: the ROLLBACK in the except block raises, and the handler returns
\* False with nothing recorded.
Commit(d) ==
    /\ In(d, "txn")
    /\ ~AlreadyBooked(Ref(d))
    /\ InsertsSucceed(Ref(d))
    /\ InsertRows(Ref(d))
    /\ \/ /\ low' = IF Counter = 0 THEN low \cup {d} ELSE low
          /\ Decide(d, "OK") /\ Go(d, "put")
       \/ /\ "redis" \in Faults /\ low' = low \cup {d}
          /\ Decide(d, "OK") /\ Go(d, "put")
       \/ "commit" \in Faults /\ Go(d, "over") /\ UNCHANGED <<verdict, low>>
    /\ UNCHANGED <<req, cacheVars, answerVars, queueVars, owned>>

\* A redelivery of what is already in the database.
FindCommitted(d) ==
    /\ In(d, "txn")
    /\ AlreadyBooked(Ref(d))
    /\ Go(d, "same")
    /\ UNCHANGED <<storeVars, queueVars, workerLocals>>

\* IntegrityError, then ROLLBACK.
Conflict(d) ==
    /\ In(d, "txn")
    /\ ~AlreadyBooked(Ref(d))
    /\ ~InsertsSucceed(Ref(d))
    /\ Go(d, "poll")
    /\ UNCHANGED <<storeVars, queueVars, workerLocals>>

\* Any other database error, or one deadlock too many: ROLLBACK, which itself
\* raises when the connection is gone.
TxnFails(d) ==
    /\ hpc[d] \in {"open", "txn"}
    /\ "db" \in Faults
    /\ \/ Decide(d, "ERROR") /\ Go(d, "guard")
       \/ Go(d, "over") /\ UNCHANGED verdict
    /\ UNCHANGED <<storeVars, queueVars, owned, low>>

\* Mutant: it looks for the seats and not for the booking that has them.
PollDb_AnyOwner(d) ==
    /\ In(d, "poll")
    /\ IF Want(Ref(d)) \subseteq Sold
         THEN Go(d, "pollSame") /\ UNCHANGED verdict
         ELSE Go(d, "guard") /\ Decide(d, "DUPLICATE_SEAT")
    /\ UNCHANGED <<storeVars, queueVars, owned, low>>

\* _concert_poll_ok_from_db_if_complete; a failing query is a "no", and a
\* failing connection makes the handler return False.
PollDb(d) ==
    /\ In(d, "poll")
    /\ \/ AlreadyBooked(Ref(d)) /\ Go(d, "pollSame") /\ UNCHANGED verdict
       \/ /\ ~AlreadyBooked(Ref(d)) \/ "db" \in Faults
          /\ Decide(d, "DUPLICATE_SEAT") /\ Go(d, "guard")
       \/ "db" \in Faults /\ Go(d, "over") /\ UNCHANGED verdict
    /\ UNCHANGED <<storeVars, queueVars, owned, low>>

-----------------------------------------------------------------------------
(* The result                                                              *)

\* The booking was already there: keep an OK that was recorded, or record it.
KeepOrPut(d, from, put) ==
    /\ In(d, from)
    /\ Decide(d, "OK")
    /\ \/ Go(d, IF result[Ref(d)] = "OK" THEN "fin" ELSE put)
       \/ "redis" \in Faults /\ Go(d, put)
    /\ UNCHANGED <<storeVars, queueVars, owned, low>>

\* store_failure_result looks for a recorded OK before it writes.
GuardFailure(d) ==
    /\ In(d, "guard")
    /\ \/ Go(d, IF result[Ref(d)] = "OK" THEN "fin" ELSE "failPut")
       \/ "redis" \in Faults /\ Go(d, "failPut")
    /\ UNCHANGED <<storeVars, queueVars, workerLocals>>

\* store_result
Put(d, from) ==
    /\ In(d, from)
    /\ StoreResult(Ref(d), verdict[d])
    /\ Go(d, "fin")
    /\ UNCHANGED <<req, cacheVars, dbVars, queueVars, workerLocals>>

\* Mutant: the message is acknowledged although no result could be stored.
PutFails_Acks(d) ==
    /\ "redis" \in Faults
    /\ In(d, "failPut")
    /\ Go(d, "ack")
    /\ UNCHANGED <<storeVars, queueVars, workerLocals>>

\* SETEX raises: inside the try block the handler reports an ERROR, inside
\* the recovery a DUPLICATE_SEAT, and inside an except block it gives up.
PutFails(d) ==
    /\ "redis" \in Faults
    /\ \/ In(d, "put") /\ Decide(d, "ERROR") /\ Go(d, "guard")
       \/ In(d, "pollPut") /\ Decide(d, "DUPLICATE_SEAT") /\ Go(d, "guard")
       \/ In(d, "failPut") /\ Go(d, "over") /\ UNCHANGED verdict
    /\ UNCHANGED <<storeVars, queueVars, owned, low>>

-----------------------------------------------------------------------------
(* _finalize_concert_hold_by_ref                                           *)

AfterFinalize(d) == IF d \in low /\ verdict[d] = "OK" THEN "close" ELSE "ack"

\* The hold metadata is gone, lists no seat or cannot be read. An empty list
\* only has its key deleted.
FinalizeNothing(d) ==
    /\ In(d, "fin")
    /\ holdMeta[Ref(d)] = {} \/ "redis" \in Faults
    /\ Go(d, AfterFinalize(d))
    /\ UNCHANGED <<storeVars, queueVars, workerLocals>>

FinalizeRead(d) ==
    /\ In(d, "fin")
    /\ holdMeta[Ref(d)] # {}
    /\ owned' = [owned EXCEPT ![d] = OwnedBy(Ref(d), holdMeta[Ref(d)])]
    /\ Go(d, "drop")
    /\ UNCHANGED <<storeVars, queueVars, verdict, low>>

\* One pipeline: the keys that were read as the ref's own are deleted, or SET to
\* "CONFIRMED" and PERSISTed, and the metadata is deleted. It is not checked
\* again that they still are the ref's.
FinalizeWrite(d) ==
    /\ In(d, "drop")
    /\ LET mark == IF Restores(d) THEN Nobody ELSE Confirmed
       IN  seatKey' = [s \in Seats |-> IF s \in owned[d] THEN mark ELSE seatKey[s]]
    /\ holdSet' = holdSet \ owned[d]
    /\ holdMeta' = [holdMeta EXCEPT ![Ref(d)] = {}]
    /\ ttl' = [ttl EXCEPT !.seats = @ \ owned[d], !.metas = @ \ {Ref(d)}]
    /\ Go(d, IF Restores(d) /\ owned[d] # {} THEN "give" ELSE AfterFinalize(d))
    /\ UNCHANGED <<req, remain, dirty, answerVars, dbVars, queueVars,
                   workerLocals>>

\* The pipeline raises: finalize returns without restoring anything.
FinalizeFails(d) ==
    /\ In(d, "drop")
    /\ "redis" \in Faults
    /\ Go(d, AfterFinalize(d))
    /\ UNCHANGED <<storeVars, queueVars, workerLocals>>

\* _adjust_concert_remain; unlike write-api it leaves the dirty set alone.
GiveBack(d) ==
    /\ In(d, "give")
    /\ \/ AddRemain(Cardinality(owned[d]))
       \/ "redis" \in Faults /\ UNCHANGED remain
    /\ Go(d, "ack")
    /\ UNCHANGED <<req, seatKey, holdSet, holdMeta, dirty, ttl, answerVars,
                   dbVars, queueVars, workerLocals>>

\* _maybe_close_concert_show_if_soldout, best effort.
CloseShow(d) ==
    /\ In(d, "close")
    /\ dbStatus' = "CLOSED" \/ ("db" \in Faults /\ UNCHANGED dbStatus)
    /\ Go(d, "ack")
    /\ UNCHANGED <<req, cacheVars, answerVars, booking, rows, payment, dbRemain,
                   queueVars, workerLocals>>

\* Its connection is opened outside its own try block, and its ROLLBACK may
\* raise: the booking just committed is then taken for a failed one.
CloseFails(d) ==
    /\ In(d, "close")
    /\ "db" \in Faults
    /\ \/ Decide(d, "ERROR") /\ Go(d, "guard")
       \/ Go(d, "over") /\ UNCHANGED verdict
    /\ UNCHANGED <<storeVars, queueVars, owned, low>>

-----------------------------------------------------------------------------
(* Acknowledgement, and the ways a delivery ends without one               *)

Acknowledge(d) ==
    /\ In(d, "ack")
    /\ \/ Delete(Ref(d), d[2])
       \/ "delete" \in Faults /\ UNCHANGED queueVars
    /\ Go(d, "over")
    /\ UNCHANGED <<storeVars, workerLocals>>

WorkerCrash(d) ==
    /\ hpc[d] \in Working
    /\ "crash" \in Faults
    /\ Go(d, "over")
    /\ UNCHANGED <<storeVars, queueVars, workerLocals>>

\* 90 s pass: the message is visible again, its handler finished or not.
VisibilityTimeout(r) ==
    /\ Reappear(r)
    /\ "slow" \in Faults \/ hpc[<<r, receives[r]>>] = "over"
    /\ UNCHANGED <<storeVars, workerVars>>

WorkerStep(d) ==
    \/ CheckResult(d) \/ ConnectFails(d) \/ CheckSeats(d)
    \/ Commit(d) \/ FindCommitted(d) \/ Conflict(d) \/ TxnFails(d) \/ PollDb(d)
    \/ KeepOrPut(d, "same", "put") \/ KeepOrPut(d, "pollSame", "pollPut")
    \/ GuardFailure(d)
    \/ \E pc \in {"put", "pollPut", "failPut"} : Put(d, pc)
    \/ PutFails(d)
    \/ FinalizeNothing(d) \/ FinalizeRead(d) \/ FinalizeWrite(d)
    \/ FinalizeFails(d) \/ GiveBack(d) \/ CloseShow(d) \/ CloseFails(d)
    \/ Acknowledge(d)
=============================================================================
