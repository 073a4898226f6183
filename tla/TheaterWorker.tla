---------------------------- MODULE TheaterWorker ---------------------------
(***************************************************************************)
(* worker-svc: one delivery of a theater message, process_theater_booking. *)
(* Its transaction starts by locking the schedule row, so it is one step   *)
(* to take the lock and one to do the rest and let it go; in between only  *)
(* a refund may hold the seats it wants.                                   *)
(***************************************************************************)
EXTENDS TheaterStore

VARIABLES
    hpc,        \* where each delivery is
    verdict     \* the code it is about to store

workerVars == <<hpc, verdict>>

Working == {"start", "begin", "txn", "put", "clear", "drop", "ack"}

WorkerTypeOK ==
    /\ hpc \in [Deliveries -> Working \cup {"idle", "over"}]
    /\ verdict \in [Deliveries -> Codes \cup {"none"}]

WorkerInit ==
    /\ hpc = [d \in Deliveries |-> "idle"]
    /\ verdict = [d \in Deliveries |-> "none"]

Ref(d) == d[1]
In(d, pc) == hpc[d] = pc
Go(d, pc) == hpc' = [hpc EXCEPT ![d] = pc]
Decide(d, code) == verdict' = [verdict EXCEPT ![d] = code] /\ Go(d, "put")

Receive(B, group) ==
    /\ Deliverable(B, group)
    /\ Deliver(B)
    /\ hpc' = [d \in Deliveries |->
                 IF d[1] \in B /\ d[2] = receives[d[1]] + 1 THEN "start" ELSE hpc[d]]
    /\ UNCHANGED <<theaterVars, answerVars, verdict>>

CheckResult(d) ==
    /\ In(d, "start")
    /\ \/ Go(d, IF result[Ref(d)] # "none" THEN "ack" ELSE "begin")
       \/ Fails("redis", Ref(d)) /\ Go(d, "begin")
    /\ UNCHANGED <<theaterVars, queueVars, answerVars, verdict>>

-----------------------------------------------------------------------------
(* The transaction                                                         *)

\* SELECT ... FOR UPDATE
Begin(d) ==
    /\ In(d, "begin")
    /\ IF req[Ref(d)].known
         THEN /\ lock = Nobody /\ lock' = d
              /\ Go(d, "txn") /\ UNCHANGED verdict
         ELSE Decide(d, "NOT_FOUND") /\ UNCHANGED lock
    /\ UNCHANGED <<req, book, remain, status, pin, history, cache, owing,
                   queueVars, answerVars>>

\* The bookings that have a seat this delivery wants.
Rivals(d) == {e \in Deliveries : SeatsOf(e) \cap Want(d) # {}}

Enough(d) == remain >= Cardinality(Want(d))

\* ROLLBACK, and the code of what stopped the transaction: a seat that the hall
\* does not have, too few seats left, a seat that is ACTIVE already, or a
\* deadlock with a refund that has locked a wanted seat and waits for the lock
\* of this transaction.
Refuse(d) ==
    /\ In(d, "txn")
    /\ \/ ~(Want(d) \subseteq Hall) /\ Decide(d, "INVALID_SEAT")
       \/ /\ Want(d) \subseteq Hall
          /\ ~Enough(d)
          /\ Decide(d, "SOLD_OUT")
       \/ /\ Want(d) \subseteq Hall
          /\ Enough(d)
          /\ \/ \E e \in Rivals(d) : pin[e] = Nobody
                /\ Decide(d, "DUPLICATE_SEAT")
             \/ \E e \in Rivals(d) : pin[e] # Nobody
                /\ Decide(d, "ERROR")
    /\ lock' = Nobody
    /\ UNCHANGED <<req, book, remain, status, pin, history, cache, owing,
                   queueVars, answerVars>>

\* UPDATE, INSERTs and COMMIT.
Book(d) ==
    /\ In(d, "txn")
    /\ Want(d) \subseteq Hall /\ Enough(d) /\ Rivals(d) = {}
    /\ book' = [book EXCEPT ![d] = "PAID"]
    /\ remain' = remain - Cardinality(Want(d))
    /\ status' = IF remain' <= 0 THEN "CLOSED" ELSE status
    /\ lock' = Nobody
    /\ Announce(d)
    /\ Decide(d, "OK")
    /\ UNCHANGED <<req, pin, cache, queueVars, answerVars>>

-----------------------------------------------------------------------------
(* The result                                                              *)

\* Mutant: the queue mark is deleted before the result is there.
Put_ClearsFirst(d) ==
    /\ In(d, "put")
    /\ queued' = [queued EXCEPT ![Ref(d)] = 0]
    /\ Go(d, "clear")
    /\ UNCHANGED <<theaterVars, queueVars, result, enq, done, verdict>>

Put(d) ==
    /\ In(d, "put")
    /\ result' = [result EXCEPT ![Ref(d)] = verdict[d]]
    /\ Go(d, "clear")
    /\ UNCHANGED <<theaterVars, queueVars, queued, enq, done, verdict>>

\* Mutant: the transaction is run again when its result could not be stored.
PutFails_Retries(d) ==
    /\ In(d, "put")
    /\ Fails("redis", Ref(d))
    /\ Go(d, "begin")
    /\ UNCHANGED <<theaterVars, queueVars, answerVars, verdict>>

\* SETEX raises. Inside the try block that is an ERROR, which is stored instead
\* (after a COMMIT too); in its except blocks the exception leaves the handler.
PutFails(d) ==
    /\ In(d, "put")
    /\ Fails("redis", Ref(d))
    /\ IF verdict[d] \in {"DUPLICATE_SEAT", "ERROR"}
         THEN Go(d, "over") /\ UNCHANGED verdict
         ELSE Decide(d, "ERROR")
    /\ UNCHANGED <<theaterVars, queueVars, answerVars>>

\* committed_ok
Committed(d) == book[d] # "none"

\* The rest of store_result, best effort.
ClearMark(d) ==
    /\ In(d, "clear")
    /\ \/ queued' = [queued EXCEPT ![Ref(d)] = 0] /\ done' = done + 1
       \/ Fails("redis", Ref(d)) /\ UNCHANGED <<queued, done>>
    /\ Go(d, IF Committed(d) THEN "drop" ELSE "ack")
    /\ UNCHANGED <<theaterVars, queueVars, result, enq, verdict>>

\* Mutant: only the bootstrap page is deleted.
DropPages_KeepsDetail(d) ==
    /\ In(d, "drop")
    /\ cache' = [cache EXCEPT !["bootstrap"] = Missing]
    /\ owing' = [p \in Pages |-> owing[p] \ {d}]
    /\ Go(d, "ack")
    /\ UNCHANGED <<req, dbVars, queueVars, answerVars, verdict>>

\* One DEL of both pages, its failure ignored.
DropPages(d) ==
    /\ In(d, "drop")
    /\ \/ /\ cache' = [p \in Pages |-> Missing]
          /\ owing' = [p \in Pages |-> owing[p] \ {d}]
       \/ Fails("redis", Ref(d)) /\ UNCHANGED <<cache, owing>>
    /\ Go(d, "ack")
    /\ UNCHANGED <<req, dbVars, queueVars, answerVars, verdict>>

Acknowledge(d) ==
    /\ In(d, "ack")
    /\ \/ Delete(Ref(d), d[2])
       \/ Fails("delete", Ref(d)) /\ UNCHANGED queueVars
    /\ Go(d, "over")
    /\ UNCHANGED <<theaterVars, answerVars, verdict>>

\* The pod dies and its transaction is rolled back. A handler that cannot
\* connect, or loses the answer of its COMMIT, ends in the same states.
WorkerCrash(d) ==
    /\ hpc[d] \in Working
    /\ Fails("crash", Ref(d))
    /\ Go(d, "over")
    /\ lock' = IF lock = d THEN Nobody ELSE lock
    /\ UNCHANGED <<req, book, remain, status, pin, history, cache, owing,
                   queueVars, answerVars, verdict>>

VisibilityTimeout(r) ==
    /\ Reappear(r)
    /\ Fails("slow", r) \/ hpc[<<r, receives[r]>>] = "over"
    /\ UNCHANGED <<theaterVars, answerVars, workerVars>>

WorkerStep(d) ==
    \/ CheckResult(d) \/ Begin(d) \/ Refuse(d) \/ Book(d)
    \/ Put(d) \/ PutFails(d) \/ ClearMark(d) \/ DropPages(d) \/ Acknowledge(d)
=============================================================================
