------------------------ MODULE ConcertBookingProofs ------------------------
(***************************************************************************)
(* The safety properties of ConcertBooking that hold under every fault,    *)
(* for every value of its constants, and the refinement of SeatSale.       *)
(***************************************************************************)
EXTENDS ConcertBookingTypes

USE DEF storeVars, cacheVars, dbVars, answerVars, queueVars, commitVars,
        commitLocals, workerVars, workerLocals, refundVars, refundLocals

-----------------------------------------------------------------------------
(* Bookings                                                                *)

\* The tables are written by two transactions only.
LEMMA TableWriters ==
    ASSUME [Next]_vars
    PROVE  /\ UNCHANGED req
           /\ \/ \E d \in Deliveries : RunDelivery(d) /\ Commit(d)
              \/ \E r \in Refs : AskRefund(r) /\ RefundCommit(r)
              \/ UNCHANGED <<booking, rows, payment>>
<1>1. ASSUME NEW r \in Refs, RunCommit(r)
      PROVE  UNCHANGED <<req, booking, rows, payment>>
  BY <1>1, CommitWrites DEF RunCommit
<1>2. ASSUME NEW d \in Deliveries, RunDelivery(d)
      PROVE  UNCHANGED req /\ (Commit(d) \/ UNCHANGED <<booking, rows, payment>>)
  BY <1>2, WorkerWrites DEF RunDelivery
<1>3. ASSUME NEW r \in Refs, AskRefund(r)
      PROVE  UNCHANGED req /\ RefundCommit(r)
  BY <1>3 DEF AskRefund, RefundCommit
<1>4. ASSUME NEW r \in Refs, RunRefund(r)
      PROVE  UNCHANGED <<req, booking, rows, payment>>
  BY <1>4 DEF RunRefund, RefundStep, ForgetRemain, FreeSeats, ResetRemain
<1>5. ASSUME NEW r \in Refs, Timeout(r) \/ Redrive(r)
      PROVE  UNCHANGED <<req, booking, rows, payment>>
  BY <1>5 DEF Timeout, VisibilityTimeout, Redrive
<1>6. CASE Poll
  BY <1>6 DEF Poll, Receive
<1>7. CASE Crash
  BY <1>7 DEF Crash, CommitCrash, WorkerCrash, RefundCrash
<1>8. CASE Expiry
  BY <1>8 DEF Expiry, ExpireSeat, ExpireMeta, ExpireHoldSet, ExpireRemain
<1>9. CASE UNCHANGED vars
  BY <1>9 DEF vars
<1> QED BY <1>1, <1>2, <1>3, <1>4, <1>5, <1>6, <1>7, <1>8, <1>9 DEF Next

\* BookedWhole alone is not inductive: that a COMMIT cannot give seats to a
\* cancelled booking is the payment index's doing, hence the second conjunct.
BookInv ==
    /\ BookedWhole
    /\ \A r \in Refs : booking[r] = "none" <=> payment[r] = "none"

LEMMA CommitBooks ==
    ASSUME StoreTypeOK, BookInv, NEW d \in Deliveries, Commit(d)
    PROVE  /\ booking[d[1]] = "none"
           /\ Want(d[1]) \cap Sold = {}
           /\ booking' = [booking EXCEPT ![d[1]] = "PAID"]
           /\ payment' = [payment EXCEPT ![d[1]] = "Y"]
           /\ \A r \in Refs : SeatsOf(r)' = IF r = d[1] THEN Want(r) ELSE SeatsOf(r)
<1>1. d[1] \in Refs
  BY DEF Deliveries
<1>2. /\ payment[d[1]] = "none"
      /\ Want(d[1]) \cap Sold = {}
  BY DEF Commit, InsertsSucceed, PaymentIndexFree, SeatIndexFree, Ref
<1>3. booking[d[1]] = "none" /\ SeatsOf(d[1]) = {}
  BY <1>1, <1>2 DEF BookInv, BookedWhole
<1>4. /\ booking' = [booking EXCEPT ![d[1]] = "PAID"]
      /\ payment' = [payment EXCEPT ![d[1]] = "Y"]
      /\ rows' = rows \cup ({d[1]} \X Want(d[1]))
  BY <1>3 DEF Commit, InsertRows, Ref
<1>5. ASSUME NEW r \in Refs
      PROVE  SeatsOf(r)' = IF r = d[1] THEN Want(r) ELSE SeatsOf(r)
  BY <1>1, <1>3, <1>4, WantType DEF SeatsOf
<1> QED BY <1>2, <1>3, <1>4, <1>5

LEMMA RefundCancels ==
    ASSUME StoreTypeOK, NEW r \in Refs, RefundCommit(r)
    PROVE  /\ booking[r] = "PAID"
           /\ booking' = [booking EXCEPT ![r] = "CANCEL"]
           /\ \A x \in Refs \ {r} : payment'[x] = payment[x]
           /\ payment[r] # "none" => payment'[r] = "N"
           /\ \A x \in Refs : SeatsOf(x)' = IF x = r THEN {} ELSE SeatsOf(x)
<1>1. rows' = rows \ ({r} \X SeatsOf(r))
  BY DEF RefundCommit
<1>2. ASSUME NEW x \in Refs
      PROVE  SeatsOf(x)' = IF x = r THEN {} ELSE SeatsOf(x)
  BY <1>1 DEF SeatsOf
<1> QED BY <1>2 DEF RefundCommit, StoreTypeOK

LEMMA NextBook == TypeOK /\ BookInv /\ [Next]_vars => BookInv'
<1> SUFFICES ASSUME TypeOK, BookInv, [Next]_vars PROVE BookInv'
  OBVIOUS
<1>0. StoreTypeOK /\ \A r \in Refs : Want(r)' = Want(r)
  BY TableWriters DEF TypeOK, Want
<1>1. ASSUME NEW d \in Deliveries, Commit(d)
      PROVE  BookInv'
  <2>1. d[1] \in Refs
    BY DEF Deliveries
  <2>2. \A r \in Refs : SeatsOf(r)' = IF booking'[r] = "PAID" THEN Want(r)' ELSE {}
    BY <1>0, <1>1, <2>1, CommitBooks DEF BookInv, BookedWhole, StoreTypeOK
  <2>3. \A a, b \in Refs : a # b => SeatsOf(a)' \cap SeatsOf(b)' = {}
    <3>1. \A r \in Refs : SeatsOf(r) \subseteq Sold
      BY DEF SeatsOf, Sold
    <3> QED BY <1>0, <1>1, <2>1, <3>1, CommitBooks DEF BookInv, BookedWhole
  <2>4. \A r \in Refs : booking'[r] = "none" <=> payment'[r] = "none"
    BY <1>0, <1>1, <2>1, CommitBooks DEF BookInv, StoreTypeOK
  <2> QED BY <2>2, <2>3, <2>4 DEF BookInv, BookedWhole
<1>2. ASSUME NEW r \in Refs, RefundCommit(r)
      PROVE  BookInv'
  <2>1. \A x \in Refs : SeatsOf(x)' = IF booking'[x] = "PAID" THEN Want(x)' ELSE {}
    BY <1>0, <1>2, RefundCancels DEF BookInv, BookedWhole, StoreTypeOK
  <2>2. \A a, b \in Refs : a # b => SeatsOf(a)' \cap SeatsOf(b)' = {}
    BY <1>0, <1>2, RefundCancels DEF BookInv, BookedWhole
  <2>3. \A x \in Refs : booking'[x] = "none" <=> payment'[x] = "none"
    BY <1>0, <1>2, RefundCancels DEF BookInv, StoreTypeOK
  <2> QED BY <2>1, <2>2, <2>3 DEF BookInv, BookedWhole
<1>3. CASE UNCHANGED <<booking, rows, payment>>
  BY <1>0, <1>3 DEF BookInv, BookedWhole, SeatsOf
<1> QED BY <1>1, <1>2, <1>3, TableWriters

LEMMA InitBook == Init => BookInv
BY DEF Init, StoreInit, BookInv, BookedWhole, SeatsOf

\* A booking is in the database with all its seats or with none, and no seat
\* has two owners, whatever is redelivered, lost, retried or refunded.
THEOREM BookingsAreWhole == Spec => []BookedWhole
<1>1. BookInv => BookedWhole
  BY DEF BookInv
<1> QED BY <1>1, InitBook, NextBook, TypeCorrect, PTL DEF Spec

\* No step gives a cancelled booking its seats or its payment back.
THEOREM CancelledStays == Spec => CancelIsFinal
<1>1. ASSUME TypeOK, TypeOK', BookInv, BookInv', [Next]_vars
      PROVE  \A r \in Refs : booking[r] = "CANCEL" =>
               booking'[r] = "CANCEL" /\ payment'[r] = payment[r] /\ SeatsOf(r)' = {}
  <2>0. StoreTypeOK
    BY <1>1 DEF TypeOK
  <2>1. SUFFICES ASSUME NEW r \in Refs, booking[r] = "CANCEL"
                 PROVE  booking'[r] = "CANCEL" /\ payment'[r] = payment[r]
    BY <1>1 DEF BookInv, BookedWhole
  <2>2. ASSUME NEW d \in Deliveries, Commit(d)
        PROVE  booking'[r] = "CANCEL" /\ payment'[r] = payment[r]
    BY <1>1, <2>0, <2>1, <2>2, CommitBooks DEF StoreTypeOK
  <2>3. ASSUME NEW x \in Refs, RefundCommit(x)
        PROVE  booking'[r] = "CANCEL" /\ payment'[r] = payment[r]
    BY <2>0, <2>1, <2>3, RefundCancels DEF StoreTypeOK
  <2> QED BY <1>1, <2>1, <2>2, <2>3, TableWriters
<1> QED BY <1>1, InitBook, NextBook, TypeCorrect, PTL DEF Spec, CancelIsFinal

-----------------------------------------------------------------------------
(* Results                                                                 *)

\* A step of one delivery leaves the pc and the verdict of the others alone;
\* any other step leaves them all alone, or begins a delivery.
LEMMA HandlerSteps ==
    ASSUME TypeOK, [Next]_vars
    PROVE  \/ \E d \in Deliveries : WorkerStep(d)
           \/ /\ UNCHANGED <<verdict, result>>
              /\ \A d \in Deliveries : hpc'[d] \in {hpc[d], "start", "over"}
<1>0. WorkerTypeOK
  BY DEF TypeOK
<1>1. ASSUME NEW r \in Refs, RunCommit(r)
      PROVE  UNCHANGED <<verdict, hpc, result>>
  BY <1>1, CommitWrites DEF RunCommit
<1>2. ASSUME NEW r \in Refs, AskRefund(r)
      PROVE  UNCHANGED <<verdict, hpc, result>>
  BY <1>2 DEF AskRefund, RefundCommit
<1>3. ASSUME NEW r \in Refs, RunRefund(r)
      PROVE  UNCHANGED <<verdict, hpc, result>>
  BY <1>3 DEF RunRefund, RefundStep, ForgetRemain, FreeSeats, ResetRemain
<1>4. ASSUME NEW r \in Refs, Timeout(r) \/ Redrive(r)
      PROVE  UNCHANGED <<verdict, hpc, result>>
  BY <1>4 DEF Timeout, VisibilityTimeout, Redrive
<1>5. CASE Poll
  <2>1. \A d \in Deliveries : hpc'[d] \in {hpc[d], "start"}
    BY <1>5 DEF Poll, Receive
  <2> QED BY <1>5, <2>1 DEF Poll, Receive
<1>6. CASE Crash
  <2>1. ASSUME NEW d \in Deliveries, WorkerCrash(d)
        PROVE  \A x \in Deliveries : hpc'[x] \in {hpc[x], "over"}
    BY <1>0, <2>1 DEF WorkerCrash, Go, WorkerTypeOK
  <2> QED BY <1>6, <2>1 DEF Crash, CommitCrash, WorkerCrash, RefundCrash
<1>7. CASE Expiry
  BY <1>7 DEF Expiry, ExpireSeat, ExpireMeta, ExpireHoldSet, ExpireRemain
<1>8. CASE UNCHANGED vars
  BY <1>8 DEF vars
<1>9. ASSUME NEW d \in Deliveries, RunDelivery(d)
      PROVE  WorkerStep(d)
  BY <1>9 DEF RunDelivery
<1> QED BY <1>1, <1>2, <1>3, <1>4, <1>5, <1>6, <1>7, <1>8, <1>9 DEF Next

LEMMA OthersStay ==
    ASSUME TypeOK, NEW d \in Deliveries, WorkerStep(d)
    PROVE  /\ hpc'[d] \in HandlerPCs
           /\ \A x \in Deliveries \ {d} : hpc'[x] = hpc[x] /\ verdict'[x] = verdict[x]
           /\ \/ UNCHANGED result
              \/ /\ hpc[d] \in {"put", "pollPut", "failPut"}
                 /\ hpc'[d] = "fin"
                 /\ verdict'[d] = verdict[d]
                 /\ result' = [result EXCEPT ![d[1]] = verdict[d]]
<1>0. WorkerTypeOK
  BY DEF TypeOK
<1>1. hpc'[d] \in HandlerPCs
  BY <1>0, WorkerLocalsType DEF TypeOK, WorkerTypeOK
<1>2. \A x \in Deliveries \ {d} : hpc'[x] = hpc[x] /\ verdict'[x] = verdict[x]
  BY <1>0, WorkerWrites DEF WorkerTypeOK, Go, Decide
<1>3. ASSUME NEW pc \in {"put", "pollPut", "failPut"}, Put(d, pc)
      PROVE  /\ hpc[d] = pc
             /\ hpc'[d] = "fin"
             /\ verdict'[d] = verdict[d]
             /\ result' = [result EXCEPT ![d[1]] = verdict[d]]
  BY <1>0, <1>3 DEF Put, StoreResult, In, Go, Ref, WorkerTypeOK
<1> QED BY <1>1, <1>2, <1>3, WorkerWrites

LEMMA BookingStays ==
    ASSUME TypeOK, BookInv, [Next]_vars
    PROVE  \A r \in Refs : booking[r] # "none" => booking'[r] # "none"
<1>0. StoreTypeOK
  BY DEF TypeOK
<1> QED BY <1>0, TableWriters, CommitBooks, RefundCancels DEF StoreTypeOK

\* Who has decided OK, or has found the booking in the database, and who has
\* recorded it: OkIsBooked is not inductive without the deliveries on their way.
OkInv ==
    /\ \A r \in Refs : result[r] = "OK" => booking[r] # "none"
    /\ \A d \in Deliveries : verdict[d] = "OK" \/ hpc[d] \in {"same", "pollSame"}
                             => booking[d[1]] # "none"

LEMMA NextOk == TypeOK /\ BookInv /\ OkInv /\ [Next]_vars => OkInv'
<1> SUFFICES ASSUME TypeOK, BookInv, OkInv, [Next]_vars PROVE OkInv'
  OBVIOUS
<1>0. WorkerTypeOK /\ StoreTypeOK /\ AnswerTypeOK /\ \A d \in Deliveries : d[1] \in Refs
  BY DEF TypeOK, Deliveries
<1>1. ASSUME NEW d \in Deliveries, WorkerStep(d)
      PROVE  OkInv'
  <2>1. \A r \in Refs : result'[r] = "OK" => booking'[r] # "none"
    BY <1>0, <1>1, OthersStay, BookingStays DEF OkInv, AnswerTypeOK
  <2>2. ASSUME NEW x \in Deliveries \ {d},
               verdict'[x] = "OK" \/ hpc'[x] \in {"same", "pollSame"}
        PROVE  booking'[x[1]] # "none"
    BY <1>0, <1>1, <2>2, OthersStay, BookingStays DEF OkInv
  <2>3. ASSUME verdict'[d] = "OK" \/ hpc'[d] \in {"same", "pollSame"}
        PROVE  booking'[d[1]] # "none"
    <3>1. CASE Commit(d)
      BY <1>0, <3>1, CommitBooks DEF StoreTypeOK
    <3>2. CASE FindCommitted(d) \/ PollDb(d)
      BY <1>0, <2>3, <3>2, BookingStays
      DEF FindCommitted, PollDb, AlreadyBooked, OkInv, WorkerTypeOK, Ref, Go, Decide
    <3>3. CASE KeepOrPut(d, "same", "put") \/ KeepOrPut(d, "pollSame", "pollPut")
      BY <1>0, <3>3, BookingStays DEF KeepOrPut, In, OkInv
    <3>4. ASSUME ~Commit(d), ~FindCommitted(d), ~PollDb(d),
                 ~KeepOrPut(d, "same", "put"), ~KeepOrPut(d, "pollSame", "pollPut")
          PROVE  verdict[d] = "OK" \/ hpc[d] \in {"same", "pollSame"}
      BY <1>0, <1>1, <2>3, <3>4
      DEF WorkerStep, WorkerTypeOK, Go, Decide, In, CheckResult, ConnectFails,
          CheckSeats, Conflict, TxnFails, GuardFailure, Put, PutFails,
          FinalizeNothing, FinalizeRead, FinalizeWrite, FinalizeFails,
          GiveBack, CloseShow, CloseFails, Acknowledge, AfterFinalize
    <3> QED BY <1>0, <3>1, <3>2, <3>3, <3>4, BookingStays DEF OkInv
  <2> QED BY <2>1, <2>2, <2>3 DEF OkInv
<1>2. CASE /\ UNCHANGED <<verdict, result>>
           /\ \A d \in Deliveries : hpc'[d] \in {hpc[d], "start", "over"}
  BY <1>0, <1>2, BookingStays DEF OkInv
<1> QED BY <1>1, <1>2, HandlerSteps

LEMMA InitOk == Init => OkInv
BY DEF Init, AnswerInit, WorkerInit, OkInv

\* No client polls an OK of a booking that is not in the database and paid,
\* however its message is redelivered and whatever fails.
THEOREM OksAreBooked == Spec => []OkIsBooked
<1>1. BookInv /\ OkInv => OkIsBooked
  BY DEF BookInv, OkInv, OkIsBooked
<1> QED BY <1>1, InitBook, NextBook, InitOk, NextOk, TypeCorrect, PTL DEF Spec

-----------------------------------------------------------------------------
(* Messages                                                                *)

ToStore == {"put", "pollPut", "failPut", "guard"}
Stored == {"fin", "drop", "give", "close", "ack"}

\* A delivery that is about to store a code has one, and a delivery past
\* store_result, or past the check at its beginning, finds a result: this is
\* what makes an acknowledgement safe, which NothingLost does not say.
AnsweredInv ==
    /\ NothingLost
    /\ \A d \in Deliveries : hpc[d] \in ToStore => verdict[d] # "none"
    /\ \A d \in Deliveries : hpc[d] \in Stored => result[d[1]] # "none"

LEMMA ResultStays ==
    ASSUME TypeOK, AnsweredInv, [Next]_vars
    PROVE  \A r \in Refs : result[r] # "none" => result'[r] # "none"
<1>1. AnswerTypeOK /\ \A d \in Deliveries : d[1] \in Refs
  BY DEF TypeOK, Deliveries
<1>2. ASSUME NEW d \in Deliveries, WorkerStep(d)
      PROVE  \A r \in Refs : result[r] # "none" => result'[r] # "none"
  BY <1>1, <1>2, OthersStay DEF AnsweredInv, AnswerTypeOK, ToStore
<1> QED BY <1>2, HandlerSteps

\* Where a step of a delivery leads it, given what it has found so far.
LEMMA WorkerAnswers ==
    ASSUME TypeOK, AnsweredInv, NEW d \in Deliveries, WorkerStep(d)
    PROVE  /\ hpc'[d] \in ToStore => verdict'[d] # "none"
           /\ hpc'[d] \in Stored => result'[d[1]] # "none"
<1> USE DEF In, Go, Decide, Ref
<1>0. /\ WorkerTypeOK /\ AnswerTypeOK
      /\ hpc[d] \in ToStore => verdict[d] # "none"
      /\ hpc[d] \in Stored => result[d[1]] # "none"
      /\ d[1] \in Refs
  BY DEF TypeOK, AnsweredInv, Deliveries
<1>1. CASE CheckResult(d)
  BY <1>0, <1>1 DEF CheckResult, WorkerTypeOK, ToStore, Stored
<1>2. CASE ConnectFails(d) \/ FindCommitted(d) \/ Conflict(d)
  BY <1>0, <1>2 DEF ConnectFails, FindCommitted, Conflict, WorkerTypeOK, ToStore,
                    Stored
<1>3. CASE CheckSeats(d) \/ Commit(d) \/ TxnFails(d) \/ PollDb(d)
  BY <1>0, <1>3 DEF CheckSeats, Commit, TxnFails, PollDb, WorkerTypeOK, ToStore,
                    Stored
<1>4. CASE KeepOrPut(d, "same", "put") \/ KeepOrPut(d, "pollSame", "pollPut")
  BY <1>0, <1>4 DEF KeepOrPut, WorkerTypeOK, ToStore, Stored
<1>5. CASE GuardFailure(d)
  BY <1>0, <1>5 DEF GuardFailure, WorkerTypeOK, ToStore, Stored
<1>6. ASSUME NEW pc \in {"put", "pollPut", "failPut"}, Put(d, pc)
      PROVE  hpc'[d] = "fin" /\ result'[d[1]] # "none"
  BY <1>0, <1>6 DEF Put, StoreResult, WorkerTypeOK, AnswerTypeOK, ToStore
<1>7. CASE PutFails(d) \/ CloseFails(d)
  BY <1>0, <1>7 DEF PutFails, CloseFails, WorkerTypeOK, ToStore, Stored
<1>8. CASE FinalizeNothing(d) \/ FinalizeRead(d) \/ FinalizeWrite(d)
           \/ FinalizeFails(d) \/ GiveBack(d) \/ CloseShow(d)
  <2>1. hpc[d] \in Stored /\ hpc'[d] \in Stored
    BY <1>0, <1>8 DEF FinalizeNothing, FinalizeRead, FinalizeWrite, FinalizeFails,
                      GiveBack, CloseShow, AfterFinalize, WorkerTypeOK, Stored
  <2>2. UNCHANGED result
    BY <1>8 DEF FinalizeNothing, FinalizeRead, FinalizeWrite, FinalizeFails,
                GiveBack, CloseShow
  <2> QED BY <1>0, <2>1, <2>2 DEF ToStore, Stored
<1>9. CASE Acknowledge(d)
  BY <1>0, <1>9 DEF Acknowledge, WorkerTypeOK, ToStore, Stored
<1> QED BY <1>1, <1>2, <1>3, <1>4, <1>5, <1>6, <1>7, <1>8, <1>9
        DEF WorkerStep, ToStore

\* A message leaves the queue by an acknowledgement or for the DLQ.
LEMMA QueueSteps ==
    ASSUME TypeOK, AnsweredInv, [Next]_vars,
           NEW r \in Refs, order'[r] > 0, r \notin msgs' \cup dlq'
    PROVE  (order[r] > 0 /\ r \notin msgs \cup dlq) \/ result[r] # "none"
<1>0. QueueTypeOK
  BY DEF TypeOK
<1>1. ASSUME UNCHANGED <<order, msgs, dlq>>
      PROVE  order[r] > 0 /\ r \notin msgs \cup dlq
  BY <1>1
<1>2. ASSUME NEW x \in Refs, RunCommit(x)
      PROVE  order[r] > 0 /\ r \notin msgs \cup dlq
  <2>1. Enqueue(x) \/ UNCHANGED queueVars
    BY <1>2, CommitWrites DEF RunCommit, TakeTicket, SendOk, SendFails, NoteQueued
  <2>2. CASE Enqueue(x)
    BY <1>0, <2>2 DEF Enqueue, QueueTypeOK
  <2> QED BY <1>1, <2>1, <2>2
<1>3. ASSUME NEW d \in Deliveries, RunDelivery(d)
      PROVE  (order[r] > 0 /\ r \notin msgs \cup dlq) \/ result[r] # "none"
  <2>1. CASE Acknowledge(d)
    <3>1. result[d[1]] # "none"
      BY <2>1 DEF Acknowledge, In, AnsweredInv, Stored
    <3>2. CASE r = d[1]
      BY <3>1, <3>2
    <3>3. CASE r # d[1]
      BY <2>1, <3>3 DEF Acknowledge, Delete, Ref
    <3> QED BY <3>2, <3>3
  <2> QED BY <1>1, <1>3, <2>1, WorkerWrites DEF RunDelivery
<1>4. ASSUME NEW x \in Refs, AskRefund(x) \/ RunRefund(x) \/ Timeout(x)
      PROVE  UNCHANGED <<order, msgs, dlq>>
  BY <1>4 DEF AskRefund, RefundCommit, RunRefund, RefundStep, ForgetRemain,
              FreeSeats, ResetRemain, Timeout, VisibilityTimeout, Reappear
<1>5. ASSUME NEW x \in Refs, Redrive(x)
      PROVE  order[r] > 0 /\ r \notin msgs \cup dlq
  BY <1>5 DEF Redrive, ToDlq
<1>6. CASE Poll
  BY <1>1, <1>6 DEF Poll, Receive, Deliver
<1>7. CASE Crash
  BY <1>1, <1>7 DEF Crash, CommitCrash, WorkerCrash, RefundCrash
<1>8. CASE Expiry \/ UNCHANGED vars
  BY <1>1, <1>8 DEF Expiry, vars
<1> QED BY <1>1, <1>2, <1>3, <1>4, <1>5, <1>6, <1>7, <1>8 DEF Next

LEMMA NextAnswered == TypeOK /\ AnsweredInv /\ [Next]_vars => AnsweredInv'
<1> SUFFICES ASSUME TypeOK, AnsweredInv, [Next]_vars PROVE AnsweredInv'
  OBVIOUS
<1>1. NothingLost'
  BY QueueSteps, ResultStays DEF AnsweredInv, NothingLost
<1>2. ASSUME NEW x \in Deliveries
      PROVE  /\ hpc'[x] \in ToStore => verdict'[x] # "none"
             /\ hpc'[x] \in Stored => result'[x[1]] # "none"
  <2>1. x[1] \in Refs
    BY DEF Deliveries
  <2>2. ASSUME NEW d \in Deliveries, WorkerStep(d)
        PROVE  /\ hpc'[x] \in ToStore => verdict'[x] # "none"
               /\ hpc'[x] \in Stored => result'[x[1]] # "none"
    <3>1. CASE x = d
      BY <2>2, <3>1, WorkerAnswers
    <3>2. CASE x # d
      BY <2>1, <2>2, <3>2, OthersStay, ResultStays DEF AnsweredInv
    <3> QED BY <3>1, <3>2
  <2>3. CASE /\ UNCHANGED <<verdict, result>>
             /\ \A d \in Deliveries : hpc'[d] \in {hpc[d], "start", "over"}
    BY <2>3 DEF AnsweredInv, ToStore, Stored
  <2> QED BY <2>2, <2>3, HandlerSteps
<1> QED BY <1>1, <1>2 DEF AnsweredInv

LEMMA InitAnswered == Init => AnsweredInv
BY DEF Init, QueueInit, WorkerInit, AnsweredInv, NothingLost, ToStore, Stored

\* A request that reached the queue is never forgotten: its message is there,
\* or in the dead-letter queue, or it has a result.
THEOREM NothingIsLost == Spec => []NothingLost
<1>1. AnsweredInv => NothingLost
  BY DEF AnsweredInv
<1> QED BY <1>1, InitAnswered, NextAnswered, TypeCorrect, PTL DEF Spec

-----------------------------------------------------------------------------
(* The refinement of SeatSale                                              *)

LEMMA InitSale == Init => Sale!Init
BY DEF Init, StoreInit, AnswerInit, Sale!Init, SaleState, SaleSeats, SaleAnswer,
       SeatsOf

\* Commit books, the refund's transaction cancels, store_result answers, and
\* nothing else is seen of the system.
LEMMA NextSale ==
    ASSUME TypeOK, TypeOK', BookInv, OkInv, AnsweredInv, [Next]_vars
    PROVE  [Sale!Next]_(Sale!vars)
<1>0. StoreTypeOK /\ AnswerTypeOK /\ AnswerTypeOK'
  BY DEF TypeOK
<1>1. ASSUME NEW d \in Deliveries, RunDelivery(d), Commit(d)
      PROVE  Sale!Next
  <2>1. d[1] \in Refs /\ UNCHANGED result
    BY <1>1 DEF Deliveries, Commit
  <2>2. /\ SaleState[d[1]] = "open"
        /\ SaleState' = [SaleState EXCEPT ![d[1]] = "booked"]
    BY <1>0, <1>1, <2>1, CommitBooks DEF SaleState, StoreTypeOK
  <2>3. SaleSeats' = [SaleSeats EXCEPT ![d[1]] = Want(d[1])]
    BY <1>0, <1>1, <2>1, CommitBooks DEF SaleSeats
  <2>4. Want(d[1]) \in (SUBSET (Seats \ Sale!Taken)) \ {{}}
    <3>1. ASSUME NEW s \in Sale!Taken
          PROVE  s \in Sold
      <4>1. PICK r \in Refs : s \in SeatsOf(r)
        BY DEF Sale!Taken, SaleSeats
      <4> QED BY <4>1 DEF SeatsOf, Sold
    <3>2. Want(d[1]) # {} /\ Want(d[1]) \in SUBSET Seats
      BY <1>0, <2>1, StoreAssumption DEF StoreTypeOK, Want
    <3> QED BY <1>0, <1>1, <3>1, <3>2, CommitBooks
  <2>5. UNCHANGED SaleAnswer
    BY <2>1 DEF SaleAnswer
  <2>6. Sale!Book(d[1])
    BY <2>2, <2>3, <2>4, <2>5 DEF Sale!Book
  <2> QED BY <2>1, <2>6 DEF Sale!Next
<1>2. ASSUME NEW r \in Refs, RefundCommit(r)
      PROVE  Sale!Next
  <2>1. /\ SaleState[r] = "booked"
        /\ SaleState' = [SaleState EXCEPT ![r] = "cancelled"]
    <3>1. booking[r] = "PAID" /\ booking' = [booking EXCEPT ![r] = "CANCEL"]
      BY <1>2 DEF RefundCommit
    <3> QED BY <1>0, <3>1 DEF SaleState, StoreTypeOK
  <2>2. SaleSeats' = [SaleSeats EXCEPT ![r] = {}]
    BY <1>0, <1>2, RefundCancels DEF SaleSeats
  <2>3. UNCHANGED SaleAnswer
    BY <1>2 DEF RefundCommit, SaleAnswer
  <2>4. Sale!Cancel(r)
    BY <2>1, <2>2, <2>3 DEF Sale!Cancel
  <2> QED BY <2>4 DEF Sale!Next
<1>3. ASSUME UNCHANGED <<booking, rows, payment>>,
             NEW d \in Deliveries, WorkerStep(d), ~UNCHANGED result
      PROVE  Sale!Next
  <2>1. d[1] \in Refs
    BY DEF Deliveries
  <2>2. UNCHANGED <<SaleState, SaleSeats>>
    BY <1>3 DEF SaleState, SaleSeats, SeatsOf
  <2>3. /\ verdict[d] \in Codes
        /\ result' = [result EXCEPT ![d[1]] = verdict[d]]
    <3>1. WorkerTypeOK
      BY DEF TypeOK
    <3> QED BY <1>3, <3>1, OthersStay DEF AnsweredInv, ToStore, WorkerTypeOK
  <2>4. CASE verdict[d] = "OK"
    <3>1. SaleState[d[1]] # "open"
      BY <1>0, <2>1, <2>4 DEF OkInv, SaleState, StoreTypeOK
    <3>2. SaleAnswer' = [SaleAnswer EXCEPT ![d[1]] = "ok"]
      BY <1>0, <2>1, <2>3, <2>4 DEF SaleAnswer, AnswerTypeOK
    <3> QED BY <2>1, <2>2, <3>1, <3>2 DEF Sale!AnswerOk, Sale!Next
  <2>5. CASE verdict[d] # "OK"
    <3>1. SaleAnswer' = [SaleAnswer EXCEPT ![d[1]] = "failed"]
      BY <1>0, <2>1, <2>3, <2>5 DEF SaleAnswer, AnswerTypeOK, Codes
    <3> QED BY <2>1, <2>2, <3>1 DEF Sale!AnswerFailed, Sale!Next
  <2> QED BY <2>4, <2>5
<1>4. ASSUME UNCHANGED <<booking, rows, payment, result>>
      PROVE  UNCHANGED Sale!vars
  BY <1>4 DEF Sale!vars, SaleState, SaleSeats, SeatsOf, SaleAnswer
<1> QED BY <1>1, <1>2, <1>3, <1>4, TableWriters, HandlerSteps

\* The system, queue, cache, retries and faults included, implements the
\* abstract sale of seats.
THEOREM SaleRefinement == Spec => ImplementsSale
<1>1. TypeOK /\ TypeOK' /\ BookInv /\ OkInv /\ AnsweredInv /\ [Next]_vars
        => [Sale!Next]_(Sale!vars)
  BY NextSale
<1> QED BY <1>1, InitSale, InitBook, NextBook, InitOk, NextOk, InitAnswered,
           NextAnswered, TypeCorrect, PTL DEF Spec, ImplementsSale, Sale!Spec
=============================================================================
