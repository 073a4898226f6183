-------------------------- MODULE ConcertHoldProofs --------------------------
(***************************************************************************)
(* What ConcertBooking promises of its holds, its failures and its remain  *)
(* counter. Unlike the properties of ConcertBookingProofs these do not     *)
(* survive every fault: each theorem names the faults that would break it, *)
(* and the requests it is about, and holds under all the others.           *)
(***************************************************************************)
EXTENDS ConcertBookingProofs

USE DEF storeVars, cacheVars, dbVars, answerVars, queueVars, commitVars,
        commitLocals, workerVars, workerLocals, refundVars, refundLocals

\* None of the faults in F happens.
Without(F) == Faults \cap F = {}

\* Nobody refunds a booking.
NoRefunds == Refundable = {}

\* Every request takes a hold before it is queued.
AllHold == \A q \in Requests : ~q.skip

\* Clients ask for seats the show has.
AllValid == \A q \in Requests : q.seats \cap Invalid = {}

\* Clients ask for one seat at a time.
OneSeatEach == \A q \in Requests : q.seats = {q.lead}

\* The keys that hold booking_ref r.
Keys(r) == {s \in Seats : seatKey[s] = r}

-----------------------------------------------------------------------------
(* Steps                                                                   *)

\* Without a refund no refund is ever under way.
IdleRefunds == \A r \in Refs : rpc[r] = "idle"

LEMMA Steps ==
    ASSUME NoRefunds, IdleRefunds, [Next]_vars
    PROVE  /\ IdleRefunds'
           /\ \/ \E r \in Refs : RunCommit(r)
              \/ \E d \in Deliveries : RunDelivery(d)
              \/ \E r \in Refs : Timeout(r) \/ Redrive(r)
              \/ Poll
              \/ \E r \in Refs : CommitCrash(r) /\ UNCHANGED workerVars
              \/ \E d \in Deliveries : WorkerCrash(d) /\ UNCHANGED commitVars
              \/ Expiry
              \/ UNCHANGED vars
<1>1. ASSUME NEW r \in Refs
      PROVE  ~AskRefund(r) /\ ~RunRefund(r) /\ ~RefundCrash(r)
  BY DEF NoRefunds, IdleRefunds, AskRefund, RefundCommit, RunRefund, RefundStep,
         ForgetRemain, FreeSeats, ResetRemain, RefundCrash, Refunding
<1>2. \/ \E r \in Refs : RunCommit(r)
      \/ \E d \in Deliveries : RunDelivery(d)
      \/ \E r \in Refs : Timeout(r) \/ Redrive(r)
      \/ Poll
      \/ \E r \in Refs : CommitCrash(r) /\ UNCHANGED <<workerVars, refundVars>>
      \/ \E d \in Deliveries : WorkerCrash(d) /\ UNCHANGED <<commitVars, refundVars>>
      \/ Expiry
      \/ UNCHANGED vars
  BY <1>1 DEF Next, Crash
<1>3. UNCHANGED rpc
  BY <1>2 DEF RunCommit, RunDelivery, Timeout, Redrive, Poll, Expiry, vars
<1> QED BY <1>2, <1>3 DEF IdleRefunds

\* How a request came to where it is.
LEMMA CommitFlow ==
    ASSUME CommitTypeOK, NEW r \in Refs, CommitStep(r)
    PROVE  /\ cpc[r] \in Running
           /\ \A x \in Refs \ {r} : cpc'[x] = cpc[x] /\ mine'[x] = mine[x] /\ held'[x] = held[x]
           /\ cpc'[r] = "queued" => NoteQueued(r)
           /\ cpc'[r] = "note" => SendOk(r)
           /\ cpc'[r] = "send" => TakeTicket(r)
           /\ cpc'[r] = "take" => SkipHold(r) \/ MarkHold(r)
           /\ cpc'[r] = "mark" => HoldAll(r) \/ HoldFailsOpen(r)
           /\ cpc'[r] = "relWrite" => ReleaseRead(r)
           /\ cpc'[r] = "relRead" => HoldPart(r) \/ SendFails(r)
<1> USE DEF At, GoTo, CommitTypeOK
<1>1. cpc[r] \in Running
  BY DEF Running, CommitStep, SeedNotNeeded, SeedNeeded, SeedRead, SeedWrite,
      PermitDenied, SkipHold, GatePass, GateFull, GateFailsOpen, MarkSoldOut,
      CheckConfirmed, HoldAll, HoldPart, HoldFailsOpen, MarkHold, ReleaseRead,
      ReleaseWrite, ReleaseRestore, UndoDecrement, TakeTicket, SendOk,
      SendFails, NoteQueued
<1>2. \A x \in Refs \ {r} : cpc'[x] = cpc[x]
  BY CommitWrites
<1>3. \A x \in Refs \ {r} : mine'[x] = mine[x]
  BY CommitWrites DEF ReleaseRead, ReleaseRestore
<1>4. \A x \in Refs \ {r} : held'[x] = held[x]
  <2>1. CASE HoldPart(r)
    <3>1. PICK S : held' = [held EXCEPT ![r] = S]
      BY <2>1 DEF HoldPart
    <3> QED BY <3>1
  <2>2. CASE HoldAll(r) \/ ReleaseRestore(r) \/ SendFails(r) \/ UNCHANGED held
    BY <2>2 DEF HoldAll, ReleaseRestore, SendFails
  <2> QED BY <2>1, <2>2, CommitWrites
<1>5. ASSUME ~NoteQueued(r), ~SendOk(r), ~TakeTicket(r), ~SkipHold(r),
             ~MarkHold(r), ~HoldAll(r), ~HoldFailsOpen(r), ~ReleaseRead(r),
             ~HoldPart(r), ~SendFails(r)
      PROVE  cpc'[r] \notin {"queued", "note", "send", "take", "mark", "relWrite", "relRead"}
  BY <1>5 DEF CommitStep, SeedNotNeeded, SeedNeeded, SeedRead, SeedWrite,
      PermitDenied, GatePass, GateFull, GateFailsOpen, MarkSoldOut,
      CheckConfirmed, ReleaseWrite, ReleaseRestore, UndoDecrement
<1>6. /\ NoteQueued(r) => cpc'[r] = "queued"
      /\ SendOk(r) => cpc'[r] = "note"
      /\ TakeTicket(r) => cpc'[r] = "send"
      /\ SkipHold(r) \/ MarkHold(r) => cpc'[r] = "take"
      /\ HoldAll(r) \/ HoldFailsOpen(r) => cpc'[r] = "mark"
      /\ ReleaseRead(r) => cpc'[r] = "relWrite"
      /\ HoldPart(r) => cpc'[r] \in {"relRead", "undo"}
      /\ SendFails(r) => cpc'[r] \in {"relRead", "error"}
  BY DEF NoteQueued, SendOk, TakeTicket, SkipHold, MarkHold, HoldAll,
         HoldFailsOpen, ReleaseRead, HoldPart, SendFails
<1> QED BY <1>1, <1>2, <1>3, <1>4, <1>5, <1>6

\* How a delivery came to where it is.
LEMMA WorkerFlow ==
    ASSUME WorkerTypeOK, NEW d \in Deliveries, WorkerStep(d)
    PROVE  /\ hpc[d] \in Working
           /\ \A x \in Deliveries \ {d} :
                hpc'[x] = hpc[x] /\ verdict'[x] = verdict[x] /\ owned'[x] = owned[x]
           /\ hpc'[d] \in HandlerPCs \ {"idle", "start"}
           /\ hpc'[d] = "txn" => CheckSeats(d)
           /\ hpc'[d] = "poll" => Conflict(d)
           /\ hpc'[d] = "drop" => FinalizeRead(d)
           /\ hpc'[d] = "give" => FinalizeWrite(d)
           /\ hpc'[d] = "fin" => \/ \E pc \in {"put", "pollPut", "failPut"} : Put(d, pc)
                                 \/ KeepOrPut(d, "same", "put")
                                 \/ KeepOrPut(d, "pollSame", "pollPut")
                                 \/ GuardFailure(d)
<1> USE DEF In, Go, WorkerTypeOK
<1>1. hpc[d] \in Working
  BY DEF Working, WorkerStep, CheckResult, ConnectFails, CheckSeats, Commit,
      FindCommitted, Conflict, TxnFails, PollDb, KeepOrPut, GuardFailure, Put,
      PutFails, FinalizeNothing, FinalizeRead, FinalizeWrite, FinalizeFails,
      GiveBack, CloseShow, CloseFails, Acknowledge
<1>2. \A x \in Deliveries \ {d} : hpc'[x] = hpc[x] /\ verdict'[x] = verdict[x]
  BY WorkerWrites DEF Decide
<1>3. \A x \in Deliveries \ {d} : owned'[x] = owned[x]
  BY WorkerWrites DEF FinalizeRead
<1>4. CASE \/ CheckResult(d) \/ ConnectFails(d) \/ CheckSeats(d)
           \/ Commit(d) \/ FindCommitted(d) \/ Conflict(d) \/ TxnFails(d) \/ PollDb(d)
  BY <1>1, <1>2, <1>3, <1>4
  DEF HandlerPCs, Working, CheckResult, ConnectFails, CheckSeats, Commit,
      FindCommitted, Conflict, TxnFails, PollDb
<1>5. CASE \/ KeepOrPut(d, "same", "put") \/ KeepOrPut(d, "pollSame", "pollPut")
           \/ GuardFailure(d)
           \/ \E pc \in {"put", "pollPut", "failPut"} : Put(d, pc)
           \/ PutFails(d)
  BY <1>1, <1>2, <1>3, <1>5
  DEF HandlerPCs, Working, KeepOrPut, GuardFailure, Put, PutFails
<1>6. CASE \/ FinalizeNothing(d) \/ FinalizeRead(d) \/ FinalizeWrite(d)
           \/ FinalizeFails(d) \/ GiveBack(d) \/ CloseShow(d) \/ CloseFails(d)
           \/ Acknowledge(d)
  BY <1>1, <1>2, <1>3, <1>6
  DEF HandlerPCs, Working, FinalizeNothing, FinalizeRead, FinalizeWrite,
      FinalizeFails, GiveBack, CloseShow, CloseFails, Acknowledge, AfterFinalize
<1> QED BY <1>4, <1>5, <1>6 DEF WorkerStep

\* Who writes a seat key, and what.
LEMMA KeyWriters ==
    ASSUME TypeOK, NoRefunds, IdleRefunds, [Next]_vars
    PROVE  \/ \E r \in Refs :
                /\ RunCommit(r) /\ (HoldAll(r) \/ HoldPart(r))
                /\ seatKey' = [s \in Seats |-> IF s \in FreeKeys(Want(r)) THEN r ELSE seatKey[s]]
           \/ \E r \in Refs :
                /\ RunCommit(r) /\ ReleaseWrite(r)
                /\ seatKey' = [s \in Seats |-> IF s \in mine[r] THEN Nobody ELSE seatKey[s]]
           \/ \E d \in Deliveries :
                /\ RunDelivery(d) /\ FinalizeWrite(d)
                /\ seatKey' = [s \in Seats |->
                     IF s \in owned[d] THEN IF verdict[d] = "OK" THEN Confirmed ELSE Nobody
                                       ELSE seatKey[s]]
           \/ "expiry" \in Faults /\ \E s \in Seats : seatKey' = [seatKey EXCEPT ![s] = Nobody]
           \/ UNCHANGED seatKey
<1>0. StoreTypeOK
  BY DEF TypeOK
<1>1. ASSUME NEW r \in Refs, RunCommit(r)
      PROVE  \/ /\ HoldAll(r) \/ HoldPart(r)
                /\ seatKey' = [s \in Seats |-> IF s \in FreeKeys(Want(r)) THEN r ELSE seatKey[s]]
             \/ /\ ReleaseWrite(r)
                /\ seatKey' = [s \in Seats |-> IF s \in mine[r] THEN Nobody ELSE seatKey[s]]
             \/ UNCHANGED seatKey
  <2>1. CASE HoldAll(r) \/ HoldPart(r)
    BY <2>1 DEF HoldAll, HoldPart, TakeKeys
  <2>2. CASE ReleaseWrite(r)
    BY <2>2 DEF ReleaseWrite, DropKeys
  <2>3. CASE SeedWrite(r) \/ GatePass(r) \/ MarkSoldOut(r) \/ MarkHold(r)
             \/ ReleaseRestore(r) \/ UndoDecrement(r) \/ UNCHANGED cacheVars
    BY <2>3 DEF SeedWrite, GatePass, MarkSoldOut, MarkHold, ReleaseRestore, UndoDecrement
  <2> QED BY <1>1, <2>1, <2>2, <2>3, CommitWrites DEF RunCommit
<1>2. ASSUME NEW d \in Deliveries, RunDelivery(d)
      PROVE  \/ /\ FinalizeWrite(d)
                /\ seatKey' = [s \in Seats |->
                     IF s \in owned[d] THEN IF verdict[d] = "OK" THEN Confirmed ELSE Nobody
                                       ELSE seatKey[s]]
             \/ UNCHANGED seatKey
  <2>1. CASE FinalizeWrite(d)
    BY <2>1 DEF FinalizeWrite, Restores
  <2> QED BY <1>2, <2>1, WorkerWrites DEF RunDelivery, GiveBack
<1>3. ASSUME NEW r \in Refs, Timeout(r) \/ Redrive(r) \/ CommitCrash(r)
      PROVE  UNCHANGED seatKey
  BY <1>3 DEF Timeout, VisibilityTimeout, Redrive, CommitCrash
<1>4. ASSUME NEW d \in Deliveries, WorkerCrash(d)
      PROVE  UNCHANGED seatKey
  BY <1>4 DEF WorkerCrash
<1>5. CASE Poll \/ UNCHANGED vars
  BY <1>5 DEF Poll, Receive, vars
<1>6. CASE Expiry
  BY <1>6 DEF Expiry, ExpireSeat, ExpireMeta, ExpireHoldSet, ExpireRemain
<1> QED BY <1>1, <1>2, <1>3, <1>4, <1>5, <1>6, Steps

\* Who writes hold metadata, and what.
LEMMA MetaWriters ==
    ASSUME TypeOK, NoRefunds, IdleRefunds, [Next]_vars
    PROVE  \/ \E r \in Refs :
                /\ RunCommit(r) /\ MarkHold(r)
                /\ holdMeta' = [holdMeta EXCEPT ![r] = held[r]]
           \/ \E d \in Deliveries :
                /\ RunDelivery(d) /\ FinalizeWrite(d)
                /\ holdMeta' = [holdMeta EXCEPT ![d[1]] = {}]
           \/ "expiry" \in Faults /\ \E r \in Refs : holdMeta' = [holdMeta EXCEPT ![r] = {}]
           \/ UNCHANGED holdMeta
<1>1. ASSUME NEW r \in Refs, RunCommit(r)
      PROVE  \/ MarkHold(r) /\ holdMeta' = [holdMeta EXCEPT ![r] = held[r]]
             \/ UNCHANGED holdMeta
  <2>1. CASE MarkHold(r)
    BY <2>1 DEF MarkHold
  <2>2. CASE \/ SeedWrite(r) \/ GatePass(r) \/ MarkSoldOut(r) \/ HoldAll(r)
             \/ HoldPart(r) \/ ReleaseWrite(r) \/ ReleaseRestore(r)
             \/ UndoDecrement(r) \/ UNCHANGED cacheVars
    BY <2>2 DEF SeedWrite, GatePass, MarkSoldOut, HoldAll, HoldPart, ReleaseWrite,
                ReleaseRestore, UndoDecrement
  <2> QED BY <1>1, <2>1, <2>2, CommitWrites DEF RunCommit
<1>2. ASSUME NEW d \in Deliveries, RunDelivery(d)
      PROVE  \/ FinalizeWrite(d) /\ holdMeta' = [holdMeta EXCEPT ![d[1]] = {}]
             \/ UNCHANGED holdMeta
  <2>1. CASE FinalizeWrite(d)
    BY <2>1 DEF FinalizeWrite, Ref
  <2> QED BY <1>2, <2>1, WorkerWrites DEF RunDelivery, GiveBack
<1>3. ASSUME NEW r \in Refs, Timeout(r) \/ Redrive(r) \/ CommitCrash(r)
      PROVE  UNCHANGED holdMeta
  BY <1>3 DEF Timeout, VisibilityTimeout, Redrive, CommitCrash
<1>4. ASSUME NEW d \in Deliveries, WorkerCrash(d)
      PROVE  UNCHANGED holdMeta
  BY <1>4 DEF WorkerCrash
<1>5. CASE Poll \/ UNCHANGED vars
  BY <1>5 DEF Poll, Receive, vars
<1>6. CASE Expiry
  BY <1>6 DEF Expiry, ExpireSeat, ExpireMeta, ExpireHoldSet, ExpireRemain
<1> QED BY <1>1, <1>2, <1>3, <1>4, <1>5, <1>6, Steps

-----------------------------------------------------------------------------
(* Confirmed seats                                                         *)

\* What a request or a delivery believes to be its seats are seats it asked
\* for, and no booking is cancelled: ConfirmedIsSold needs both, since
\* _finalize_concert_hold_by_ref marks what the hold metadata lists.
MarkInv ==
    /\ IdleRefunds
    /\ ConfirmedIsSold
    /\ \A r \in Refs : booking[r] # "CANCEL" /\ holdMeta[r] \subseteq Want(r)
                       /\ held[r] \subseteq Want(r)
    /\ \A d \in Deliveries : owned[d] \subseteq Want(d[1])

LEMMA InitMark == Init => MarkInv
BY StoreAssumption
DEF Init, StoreInit, CommitInit, WorkerInit, RefundInit, MarkInv, IdleRefunds,
    ConfirmedIsSold

\* Without a refund the tables only grow.
LEMMA TablesGrow ==
    ASSUME NoRefunds, TypeOK, BookInv, [Next]_vars
    PROVE  /\ \A r \in Refs : /\ Want(r)' = Want(r)
                              /\ SeatsOf(r) \subseteq SeatsOf(r)'
                              /\ booking'[r] = "CANCEL" => booking[r] = "CANCEL"
           /\ Sold \subseteq Sold'
<1>0. StoreTypeOK
  BY DEF TypeOK
<1>1. \A r \in Refs : ~RefundCommit(r)
  BY DEF NoRefunds, RefundCommit
<1>2. \A r \in Refs : Want(r)' = Want(r)
  BY TableWriters DEF Want
<1>3. ASSUME NEW d \in Deliveries, Commit(d)
      PROVE  /\ rows \subseteq rows'
             /\ \A r \in Refs : booking'[r] = "CANCEL" => booking[r] = "CANCEL"
  <2>1. rows \subseteq rows'
    BY <1>3 DEF Commit, InsertRows
  <2> QED BY <1>0, <1>3, <2>1, CommitBooks DEF StoreTypeOK
<1>4. /\ rows \subseteq rows'
      /\ \A r \in Refs : booking'[r] = "CANCEL" => booking[r] = "CANCEL"
  BY <1>1, <1>3, TableWriters
<1> QED BY <1>2, <1>4 DEF SeatsOf, Sold

\* A booking that is in the database and not cancelled has its seats.
LEMMA BookedSeats ==
    ASSUME StoreTypeOK, BookInv, NEW r \in Refs, booking[r] \notin {"none", "CANCEL"}
    PROVE  SeatsOf(r) = Want(r) /\ Want(r) \subseteq Sold
BY DEF StoreTypeOK, BookInv, BookedWhole, SeatsOf, Sold

LEMMA NextMark ==
    ASSUME NoRefunds, TypeOK, BookInv, OkInv, MarkInv, [Next]_vars
    PROVE  MarkInv'
<1>0. /\ StoreTypeOK /\ CommitTypeOK /\ WorkerTypeOK /\ IdleRefunds
      /\ \A d \in Deliveries : d[1] \in Refs
  BY DEF TypeOK, MarkInv, Deliveries
<1>1. IdleRefunds'
  BY <1>0, Steps
<1>2. ConfirmedIsSold'
  <2>1. SUFFICES ASSUME NEW s \in Seats, seatKey'[s] = Confirmed
                 PROVE  s \in Sold
    BY TablesGrow DEF ConfirmedIsSold
  <2>2. ASSUME seatKey[s] = Confirmed
        PROVE  s \in Sold
    BY <2>2 DEF MarkInv, ConfirmedIsSold
  <2>3. ASSUME NEW d \in Deliveries, FinalizeWrite(d), s \in owned[d], verdict[d] = "OK"
        PROVE  s \in Sold
    <3>1. booking[d[1]] \notin {"none", "CANCEL"}
      BY <1>0, <2>3 DEF OkInv, MarkInv
    <3> QED BY <1>0, <2>3, <3>1, BookedSeats DEF MarkInv
  <2> QED BY <1>0, <2>1, <2>2, <2>3, KeyWriters, StoreAssumption DEF StoreTypeOK
<1>3. ASSUME NEW r \in Refs
      PROVE  booking'[r] # "CANCEL"
  BY TablesGrow DEF MarkInv
<1>4. ASSUME NEW r \in Refs
      PROVE  holdMeta'[r] \subseteq Want(r)
  BY <1>0, MetaWriters DEF MarkInv, StoreTypeOK
<1>5. ASSUME NEW r \in Refs
      PROVE  held'[r] \subseteq Want(r)
  <2>1. held[r] \subseteq Want(r)
    BY DEF MarkInv
  <2>2. ASSUME NEW x \in Refs, CommitStep(x)
        PROVE  held'[r] \subseteq Want(r)
    <3>1. CASE x # r
      BY <1>0, <2>1, <2>2, <3>1, CommitFlow
    <3>2. CASE x = r /\ HoldPart(r)
      BY <1>0, <3>2 DEF HoldPart, FreeKeys, CommitTypeOK
    <3>3. CASE x = r /\ (HoldAll(r) \/ ReleaseRestore(r) \/ SendFails(r) \/ UNCHANGED held)
      BY <1>0, <2>1, <3>3 DEF HoldAll, ReleaseRestore, SendFails, CommitTypeOK
    <3> QED BY <2>2, <3>1, <3>2, <3>3, CommitWrites
  <2>3. UNCHANGED held \/ \E x \in Refs : CommitStep(x)
    BY <1>0, Steps DEF RunCommit, RunDelivery, Timeout, Redrive, Poll, CommitCrash,
                       Expiry, vars
  <2> QED BY <2>1, <2>2, <2>3
<1>6. ASSUME NEW x \in Deliveries
      PROVE  owned'[x] \subseteq Want(x[1])
  <2>1. owned[x] \subseteq Want(x[1])
    BY DEF MarkInv
  <2>2. ASSUME NEW d \in Deliveries, WorkerStep(d)
        PROVE  owned'[x] \subseteq Want(x[1])
    <3>1. CASE x # d \/ UNCHANGED owned
      BY <1>0, <2>1, <2>2, <3>1, WorkerFlow
    <3>2. CASE x = d /\ FinalizeRead(d)
      BY <1>0, <3>2 DEF FinalizeRead, OwnedBy, Ref, MarkInv, WorkerTypeOK
    <3> QED BY <2>2, <3>1, <3>2, WorkerWrites
  <2>3. UNCHANGED owned \/ \E d \in Deliveries : WorkerStep(d)
    BY <1>0, Steps DEF RunCommit, RunDelivery, Timeout, VisibilityTimeout, Redrive,
                       Poll, Receive, WorkerCrash, Expiry, vars
  <2> QED BY <2>1, <2>2, <2>3
<1> QED
  BY <1>0, <1>1, <1>2, <1>3, <1>4, <1>5, <1>6, TablesGrow DEF MarkInv

\* While nobody refunds, a seat key reads "CONFIRMED" only for a seat that is
\* in the database, under every fault: _finalize_concert_hold_by_ref marks the
\* seats of a booking it knows to be committed, and only those.
THEOREM ConfirmedSeatsAreSold ==
    ASSUME NoRefunds
    PROVE  Spec => []ConfirmedIsSold
<1>1. MarkInv => ConfirmedIsSold
  BY DEF MarkInv
<1>2. TypeOK /\ BookInv /\ OkInv /\ MarkInv /\ [Next]_vars => MarkInv'
  BY NextMark
<1> QED BY <1>1, <1>2, InitMark, InitBook, NextBook, InitOk, NextOk, TypeCorrect, PTL
        DEF Spec

-----------------------------------------------------------------------------
(* Failures                                                                *)

\* The faults that make worker-svc answer a failure it does not know to be one:
\* a database error whose transaction may have been applied by another
\* delivery, and a result that cannot be read or stored.
ClearAnswers == NoRefunds /\ Without({"redis", "db"})

\* Request r can never be booked: a seat of its is not one of the show, or has
\* been sold to another.
Hopeless(r) ==
    /\ booking[r] = "none"
    /\ Want(r) \cap (Invalid \cup Sold) # {}

\* Who has decided a failure, is about to or has recorded it, knows its request
\* to be hopeless.
HonestInv ==
    /\ \A r \in Refs : booking[r] # "none" => Want(r) \cap Invalid = {}
    /\ \A r \in Refs : result[r] \notin {"none", "OK"} => Hopeless(r)
    /\ \A d \in Deliveries :
         /\ hpc[d] = "txn" => Want(d[1]) \cap Invalid = {}
         /\ hpc[d] = "poll" \/ verdict[d] \notin {"none", "OK"} => Hopeless(d[1])

LEMMA InitHonest == Init => HonestInv
BY DEF Init, StoreInit, AnswerInit, WorkerInit, HonestInv

\* Once hopeless, always hopeless.
LEMMA StaysHopeless ==
    ASSUME ClearAnswers, TypeOK, BookInv, HonestInv, [Next]_vars,
           NEW r \in Refs, Hopeless(r)
    PROVE  Hopeless(r)'
<1>0. StoreTypeOK /\ NoRefunds
  BY DEF TypeOK, ClearAnswers
<1>1. Want(r)' = Want(r) /\ Sold \subseteq Sold'
  BY <1>0, TablesGrow
<1>2. ASSUME NEW d \in Deliveries, Commit(d)
      PROVE  booking'[r] = "none"
  <2>1. d[1] # r
    BY <1>0, <1>2, CommitBooks DEF Hopeless, HonestInv, Commit, In
  <2> QED BY <1>0, <1>2, <2>1, CommitBooks DEF Hopeless, StoreTypeOK
<1>3. \A x \in Refs : ~RefundCommit(x)
  BY <1>0 DEF NoRefunds, RefundCommit
<1>4. booking'[r] = "none"
  BY <1>2, <1>3, TableWriters DEF Hopeless
<1> QED BY <1>1, <1>4 DEF Hopeless

\* What a delivery decides for itself.
LEMMA Decides ==
    ASSUME ClearAnswers, TypeOK, BookInv, MarkInv, HonestInv,
           NEW d \in Deliveries, WorkerStep(d)
    PROVE  /\ hpc'[d] = "txn" => Want(d[1]) \cap Invalid = {}
           /\ hpc'[d] = "poll" \/ verdict'[d] \notin {"none", "OK"} => Hopeless(d[1])
<1> USE DEF In, Go, Decide, Ref, WorkerTypeOK
<1>0. /\ StoreTypeOK /\ WorkerTypeOK /\ "redis" \notin Faults /\ "db" \notin Faults
      /\ d[1] \in Refs
      /\ hpc[d] = "txn" => Want(d[1]) \cap Invalid = {}
      /\ hpc[d] = "poll" \/ verdict[d] \notin {"none", "OK"} => Hopeless(d[1])
  BY DEF TypeOK, ClearAnswers, Without, Deliveries, HonestInv
<1>1. CASE CheckSeats(d)
  <2>1. Want(d[1]) \cap Invalid # {} => Hopeless(d[1])
    BY <1>0 DEF HonestInv, Hopeless
  <2> QED BY <1>0, <1>1, <2>1 DEF CheckSeats
<1>2. CASE Conflict(d)
  <2>1. booking[d[1]] = "none"
    BY <1>0, <1>2, BookedSeats DEF MarkInv, Conflict, AlreadyBooked
  <2>2. Want(d[1]) \cap Sold # {}
    BY <1>0, <1>2, <2>1
    DEF Conflict, InsertsSucceed, SeatIndexFree, PaymentIndexFree, BookInv
  <2> QED BY <1>0, <1>2, <2>1, <2>2 DEF Conflict, Hopeless
<1>3. CASE PollDb(d)
  BY <1>0, <1>3 DEF PollDb
<1>4. CASE \/ CheckResult(d) \/ ConnectFails(d) \/ Commit(d) \/ FindCommitted(d)
           \/ TxnFails(d) \/ PutFails(d) \/ GuardFailure(d)
           \/ KeepOrPut(d, "same", "put") \/ KeepOrPut(d, "pollSame", "pollPut")
  BY <1>0, <1>4
  DEF CheckResult, ConnectFails, Commit, FindCommitted, TxnFails, PutFails,
      GuardFailure, KeepOrPut
<1>5. CASE \/ FinalizeNothing(d) \/ FinalizeRead(d) \/ FinalizeWrite(d)
           \/ FinalizeFails(d) \/ GiveBack(d) \/ CloseShow(d) \/ CloseFails(d)
           \/ Acknowledge(d)
           \/ \E pc \in {"put", "pollPut", "failPut"} : Put(d, pc)
  BY <1>0, <1>5
  DEF FinalizeNothing, FinalizeRead, FinalizeWrite, FinalizeFails, GiveBack,
      CloseShow, CloseFails, Acknowledge, AfterFinalize, Put
<1> QED BY <1>1, <1>2, <1>3, <1>4, <1>5 DEF WorkerStep

LEMMA NextHonest ==
    ASSUME ClearAnswers, TypeOK, BookInv, AnsweredInv, MarkInv, HonestInv, [Next]_vars
    PROVE  HonestInv'
<1>0. /\ StoreTypeOK /\ AnswerTypeOK /\ NoRefunds /\ \A d \in Deliveries : d[1] \in Refs
      /\ \A r \in Refs : Hopeless(r) => Hopeless(r)'
      /\ \A r \in Refs : Want(r)' = Want(r)
  BY StaysHopeless, TablesGrow DEF TypeOK, ClearAnswers, Deliveries
<1>1. ASSUME NEW r \in Refs, booking'[r] # "none"
      PROVE  Want(r) \cap Invalid = {}
  <2>1. ASSUME NEW d \in Deliveries, Commit(d)
        PROVE  Want(r) \cap Invalid = {}
    BY <1>0, <1>1, <2>1, CommitBooks DEF HonestInv, Commit, In, StoreTypeOK
  <2>2. \A x \in Refs : ~RefundCommit(x)
    BY <1>0 DEF NoRefunds, RefundCommit
  <2> QED BY <1>1, <2>1, <2>2, TableWriters DEF HonestInv
<1>2. ASSUME NEW d \in Deliveries, WorkerStep(d)
      PROVE  HonestInv'
  <2>1. ASSUME NEW r \in Refs, result'[r] \notin {"none", "OK"}
        PROVE  Hopeless(r)'
    BY <1>0, <1>2, <2>1, OthersStay DEF HonestInv, AnsweredInv, ToStore, AnswerTypeOK
  <2>2. ASSUME NEW x \in Deliveries
        PROVE  /\ hpc'[x] = "txn" => Want(x[1]) \cap Invalid = {}
               /\ hpc'[x] = "poll" \/ verdict'[x] \notin {"none", "OK"} => Hopeless(x[1])'
    BY <1>0, <1>2, OthersStay, Decides DEF HonestInv
  <2> QED BY <1>0, <1>1, <2>1, <2>2 DEF HonestInv
<1>3. CASE /\ UNCHANGED <<verdict, result>>
           /\ \A d \in Deliveries : hpc'[d] \in {hpc[d], "start", "over"}
  BY <1>0, <1>1, <1>3 DEF HonestInv
<1> QED BY <1>2, <1>3, HandlerSteps

\* While nobody refunds and neither Redis nor the database fails, a client that
\* is told of a failure has not been booked and never will be, however slow the
\* handlers are, whatever pods die and COMMITs lose their answer.
THEOREM FailuresAreHonest ==
    ASSUME ClearAnswers
    PROVE  Spec => []FailureIsHonest
<1>1. HonestInv => FailureIsHonest
  BY DEF HonestInv, FailureIsHonest, Hopeless
<1>2. TypeOK /\ BookInv /\ OkInv /\ MarkInv /\ [Next]_vars => MarkInv'
  BY NextMark DEF ClearAnswers
<1>3. TypeOK /\ BookInv /\ AnsweredInv /\ MarkInv /\ HonestInv /\ [Next]_vars => HonestInv'
  BY NextHonest
<1> QED BY <1>1, <1>2, <1>3, InitMark, InitHonest, InitBook, NextBook, InitOk, NextOk,
           InitAnswered, NextAnswered, TypeCorrect, PTL DEF Spec

\* Under the same conditions no failure overwrites a recorded OK, although
\* store_failure_result reads the result first and writes it later.
THEOREM OksAreKept ==
    ASSUME ClearAnswers
    PROVE  Spec => OkIsKept
<1>1. ASSUME TypeOK, OkInv, AnsweredInv, HonestInv, [Next]_vars
      PROVE  \A r \in Refs : result[r] = "OK" => result'[r] = "OK"
  <2>1. SUFFICES ASSUME NEW r \in Refs, result[r] = "OK", NEW d \in Deliveries,
                        WorkerStep(d)
                 PROVE  result'[r] = "OK"
    BY <1>1, HandlerSteps
  <2>2. AnswerTypeOK /\ d[1] \in Refs /\ ~Hopeless(r)
    BY <1>1, <2>1 DEF TypeOK, Deliveries, OkInv, Hopeless
  <2> QED BY <1>1, <2>1, <2>2, OthersStay
          DEF HonestInv, AnsweredInv, ToStore, AnswerTypeOK
<1>2. TypeOK /\ BookInv /\ OkInv /\ MarkInv /\ [Next]_vars => MarkInv'
  BY NextMark DEF ClearAnswers
<1>3. TypeOK /\ BookInv /\ AnsweredInv /\ MarkInv /\ HonestInv /\ [Next]_vars => HonestInv'
  BY NextHonest
<1>4. TypeOK /\ OkInv /\ AnsweredInv /\ HonestInv /\ [Next]_vars
        => \A r \in Refs : result[r] = "OK" => result'[r] = "OK"
  BY <1>1
<1> QED BY <1>2, <1>3, <1>4, InitMark, InitHonest, InitBook, NextBook, InitOk, NextOk,
           InitAnswered, NextAnswered, TypeCorrect, PTL DEF Spec, OkIsKept

-----------------------------------------------------------------------------
(* What has been sent                                                      *)

\* Only a request that write-api has sent, and has nothing left to do for but
\* note it, is delivered, decided, answered or booked. A send that fails after
\* the message has gone would break this.
SentInv ==
    /\ \A r \in Refs :
         /\ order[r] > 0 => cpc[r] \in {"note", "queued", "dead"}
         /\ cpc[r] \in {"note", "queued"} \/ r \in msgs => order[r] > 0
         /\ booking[r] # "none" \/ result[r] # "none" => order[r] > 0
    /\ \A d \in Deliveries : hpc[d] # "idle" \/ verdict[d] # "none" => order[d[1]] > 0

LEMMA InitSent == Init => SentInv
BY DEF Init, StoreInit, AnswerInit, QueueInit, CommitInit, WorkerInit, SentInv

\* A step of a request, and the queue.
LEMMA CommitSends ==
    ASSUME Without({"send"}), TypeOK, NEW r \in Refs, CommitStep(r)
    PROVE  /\ cpc[r] = "note" => cpc'[r] = "queued"
           /\ cpc[r] # "note" => cpc'[r] # "queued"
           /\ \/ /\ cpc[r] = "send" /\ cpc'[r] = "note"
                 /\ msgs' = msgs \cup {r}
                 /\ order'[r] > 0 /\ \A x \in Refs \ {r} : order'[x] = order[x]
                 /\ UNCHANGED <<inflight, receives, dlq>>
              \/ UNCHANGED queueVars /\ cpc'[r] # "note"
<1>0. CommitTypeOK /\ QueueTypeOK /\ ~SendFails(r)
  BY DEF TypeOK, Without, SendFails
<1>1. CASE SendOk(r)
  BY <1>0, <1>1 DEF SendOk, Enqueue, QueueTypeOK, CommitTypeOK, At, GoTo
<1>2. CASE TakeTicket(r) \/ NoteQueued(r)
  BY <1>0, <1>2 DEF TakeTicket, NoteQueued, CommitTypeOK, At, GoTo
<1>3. ASSUME ~SendOk(r), ~TakeTicket(r), ~NoteQueued(r)
      PROVE  /\ UNCHANGED queueVars /\ cpc'[r] \notin {"note", "queued"}
             /\ cpc[r] # "note"
  <2>1. UNCHANGED queueVars /\ cpc'[r] \notin {"note", "queued"}
    BY <1>0, <1>3, CommitWrites, CommitFlow
  <2>2. cpc[r] # "note"
    BY <1>0, <1>3
    DEF CommitStep, At, SeedNotNeeded, SeedNeeded, SeedRead, SeedWrite,
        PermitDenied, SkipHold, GatePass, GateFull, GateFailsOpen, MarkSoldOut,
        CheckConfirmed, HoldAll, HoldPart, HoldFailsOpen, MarkHold, ReleaseRead,
        ReleaseWrite, ReleaseRestore, UndoDecrement
  <2> QED BY <2>1, <2>2
<1> QED BY <1>1, <1>2, <1>3

LEMMA NextSent ==
    ASSUME Without({"send"}), NoRefunds, TypeOK, BookInv, AnsweredInv, IdleRefunds,
           SentInv, [Next]_vars
    PROVE  SentInv'
<1>0. /\ StoreTypeOK /\ CommitTypeOK /\ WorkerTypeOK /\ QueueTypeOK /\ AnswerTypeOK
      /\ \A d \in Deliveries : d[1] \in Refs
  BY DEF TypeOK, Deliveries
<1>1. ASSUME NEW r \in Refs, RunCommit(r)
      PROVE  SentInv'
  <2>1. \A x \in Refs : order[x] > 0 => order'[x] > 0
    BY <1>0, <1>1, CommitSends DEF RunCommit
  <2>2. UNCHANGED <<hpc, verdict, booking, result>>
    BY <1>1, CommitWrites DEF RunCommit
  <2>3. \A x \in Refs : order'[x] > 0 => cpc'[x] \in {"note", "queued", "dead"}
    BY <1>0, <1>1, CommitSends, CommitFlow DEF RunCommit, SentInv, Running
  <2>4. \A x \in Refs : cpc'[x] \in {"note", "queued"} \/ x \in msgs' => order'[x] > 0
    BY <1>0, <1>1, <2>1, CommitSends, CommitFlow DEF RunCommit, SentInv
  <2> QED BY <1>0, <2>1, <2>2, <2>3, <2>4 DEF SentInv
<1>2. ASSUME NEW d \in Deliveries, RunDelivery(d)
      PROVE  SentInv'
  <2>1. UNCHANGED order /\ msgs' \subseteq msgs /\ UNCHANGED cpc
    BY <1>2, WorkerWrites DEF RunDelivery, Acknowledge, Delete
  <2>2. order[d[1]] > 0
    BY <1>0, <1>2, WorkerFlow DEF RunDelivery, SentInv, Working
  <2>3. ASSUME NEW x \in Refs, booking'[x] # "none" \/ result'[x] # "none"
        PROVE  order[x] > 0
    <3>1. CASE x = d[1]
      BY <2>2, <3>1
    <3>2. CASE x # d[1]
      <4>1. result'[x] = result[x]
        BY <1>0, <1>2, <3>2, OthersStay DEF RunDelivery, AnswerTypeOK
      <4>2. booking'[x] = booking[x]
        BY <1>0, <1>2, <3>2, WorkerWrites, CommitBooks DEF RunDelivery, StoreTypeOK
      <4> QED BY <2>3, <4>1, <4>2 DEF SentInv
    <3> QED BY <3>1, <3>2
  <2>4. \A x \in Deliveries \ {d} : hpc'[x] = hpc[x] /\ verdict'[x] = verdict[x]
    BY <1>0, <1>2, WorkerFlow DEF RunDelivery
  <2> QED BY <1>0, <2>1, <2>2, <2>3, <2>4 DEF SentInv
<1>3. ASSUME NEW r \in Refs, Timeout(r) \/ Redrive(r)
      PROVE  SentInv'
  <2>1. UNCHANGED <<order, cpc, hpc, verdict, booking, result>> /\ msgs' \subseteq msgs
    BY <1>3 DEF Timeout, VisibilityTimeout, Reappear, Redrive, ToDlq
  <2> QED BY <2>1 DEF SentInv
<1>4. CASE Poll
  <2>1. PICK B \in SUBSET msgs : Receive(B, GroupOf)
    BY <1>4 DEF Poll
  <2>2. UNCHANGED <<order, cpc, msgs, verdict, booking, result>>
    BY <1>4, <2>1 DEF Poll, Receive, Deliver
  <2>3. ASSUME NEW d \in Deliveries, hpc'[d] # "idle"
        PROVE  order[d[1]] > 0
    BY <1>0, <2>1, <2>3 DEF Receive, SentInv
  <2> QED BY <2>2, <2>3 DEF SentInv
<1>5. ASSUME NEW r \in Refs, CommitCrash(r), UNCHANGED workerVars
      PROVE  SentInv'
  BY <1>0, <1>5 DEF CommitCrash, GoTo, CommitTypeOK, SentInv
<1>6. ASSUME NEW d \in Deliveries, WorkerCrash(d), UNCHANGED commitVars
      PROVE  SentInv'
  BY <1>0, <1>6 DEF WorkerCrash, Go, WorkerTypeOK, SentInv, Working
<1>7. CASE Expiry \/ UNCHANGED vars
  <2>1. UNCHANGED <<order, cpc, msgs, hpc, verdict, booking, result>>
    BY <1>7 DEF Expiry, ExpireSeat, ExpireMeta, ExpireHoldSet, ExpireRemain, vars
  <2> QED BY <2>1 DEF SentInv
<1> QED BY <1>1, <1>2, <1>3, <1>4, <1>5, <1>6, <1>7, Steps

-----------------------------------------------------------------------------
(* Seat keys that were read and are written later                          *)

\* release_seats deletes what it has read, and the keys it has read are still
\* the request's own.
MineInv ==
    \A r \in Refs :
      /\ mine[r] # {} => cpc[r] \in {"relWrite", "relAdd", "dead"}
      /\ cpc[r] = "relWrite" => mine[r] \subseteq Keys(r)

LEMMA InitMine == Init => MineInv
BY DEF Init, CommitInit, MineInv

\* A finalization never finds another request's key where it read its own.
OwnedStay ==
    \A d \in Deliveries : hpc[d] = "drop" =>
      \A s \in owned[d] : seatKey[s] \in {d[1], Confirmed}

LEMMA NextMine ==
    ASSUME Without({"send", "expiry"}), NoRefunds, TypeOK, IdleRefunds, SentInv,
           MineInv, OwnedStay, [Next]_vars
    PROVE  MineInv'
<1>0. /\ StoreTypeOK /\ CommitTypeOK /\ WorkerTypeOK
      /\ Without({"send"}) /\ "expiry" \notin Faults
      /\ \A d \in Deliveries : d[1] \in Refs
  BY DEF TypeOK, Without, Deliveries
<1> SUFFICES ASSUME NEW r \in Refs
             PROVE  /\ mine'[r] # {} => cpc'[r] \in {"relWrite", "relAdd", "dead"}
                    /\ cpc'[r] = "relWrite" => mine'[r] \subseteq Keys(r)'
  BY DEF MineInv
<1>1. ASSUME cpc[r] = "relWrite", cpc'[r] = "relWrite"
      PROVE  Keys(r) \subseteq Keys(r)'
  <2>1. ASSUME NEW x \in Refs, RunCommit(x), ReleaseWrite(x)
        PROVE  x # r /\ mine[x] \cap Keys(r) = {}
    BY <1>0, <1>1, <2>1 DEF ReleaseWrite, At, GoTo, MineInv, Keys, CommitTypeOK
  <2>2. ASSUME NEW d \in Deliveries, FinalizeWrite(d)
        PROVE  owned[d] \cap Keys(r) = {}
    <3>1. d[1] # r
      BY <1>0, <1>1, <2>2 DEF FinalizeWrite, In, SentInv
    <3> QED BY <1>0, <2>2, <3>1, StoreAssumption DEF FinalizeWrite, In, OwnedStay, Keys
  <2> QED BY <1>0, <2>1, <2>2, KeyWriters, StoreAssumption
          DEF Keys, FreeKeys, StoreTypeOK
<1>2. CASE RunCommit(r)
  <2>1. CommitStep(r)
    BY <1>2 DEF RunCommit
  <2>2. CASE ReleaseRead(r)
    BY <1>0, <2>2 DEF ReleaseRead, At, GoTo, CommitTypeOK, MineInv, OwnedBy, Keys
  <2>3. CASE ReleaseRestore(r)
    BY <1>0, <2>3 DEF ReleaseRestore, At, GoTo, CommitTypeOK
  <2>4. CASE ReleaseWrite(r)
    BY <1>0, <2>4 DEF ReleaseWrite, At, GoTo, CommitTypeOK
  <2>5. ASSUME ~ReleaseRead(r), ~ReleaseRestore(r), ~ReleaseWrite(r)
        PROVE  UNCHANGED mine /\ cpc[r] \notin {"relWrite", "relAdd", "dead"}
               /\ cpc'[r] # "relWrite"
    <3>1. UNCHANGED mine /\ cpc'[r] # "relWrite"
      BY <1>0, <2>1, <2>5, CommitWrites, CommitFlow
    <3>2. cpc[r] \notin {"relWrite", "relAdd", "dead"}
      BY <2>1, <2>5
      DEF CommitStep, At, SeedNotNeeded, SeedNeeded, SeedRead, SeedWrite,
          PermitDenied, SkipHold, GatePass, GateFull, GateFailsOpen, MarkSoldOut,
          CheckConfirmed, HoldAll, HoldPart, HoldFailsOpen, MarkHold,
          UndoDecrement, TakeTicket, SendOk, SendFails, NoteQueued
    <3> QED BY <3>1, <3>2
  <2> QED BY <2>2, <2>3, <2>4, <2>5 DEF MineInv
<1>3. ASSUME NEW x \in Refs, RunCommit(x), x # r
      PROVE  mine'[r] = mine[r] /\ cpc'[r] = cpc[r]
  BY <1>0, <1>3, CommitFlow DEF RunCommit
<1>4. ASSUME NEW x \in Refs, CommitCrash(x)
      PROVE  mine'[r] = mine[r] /\ cpc'[r] \in {cpc[r], "dead"}
  BY <1>0, <1>4 DEF CommitCrash, GoTo, CommitTypeOK
<1>5. \/ RunCommit(r)
      \/ mine'[r] = mine[r] /\ cpc'[r] \in {cpc[r], "dead"}
  BY <1>3, <1>4, Steps DEF RunDelivery, Timeout, Redrive, Poll, Expiry, vars
<1> QED BY <1>1, <1>2, <1>5 DEF MineInv

\* No delivery of a message begins before the last one has ended: false as soon
\* as a handler outlives the visibility timeout.
SingleInv ==
    \A d \in Deliveries : hpc[d] \in Working =>
      d[2] = receives[d[1]] /\ d[1] \in inflight

LEMMA InitSingle == Init => SingleInv
BY DEF Init, WorkerInit, SingleInv, Working

LEMMA Alone ==
    ASSUME SingleInv, NEW d \in Deliveries, NEW e \in Deliveries,
           hpc[d] \in Working, hpc[e] \in Working, d[1] = e[1]
    PROVE  d = e
BY DEF SingleInv, Deliveries

LEMMA NextSingle ==
    ASSUME Without({"send", "slow"}), NoRefunds, TypeOK, IdleRefunds, SingleInv,
           [Next]_vars
    PROVE  SingleInv'
<1>0. /\ WorkerTypeOK /\ QueueTypeOK /\ CommitTypeOK
      /\ Without({"send"}) /\ "slow" \notin Faults
      /\ \A d \in Deliveries : d = <<d[1], d[2]>> /\ d[1] \in Refs
  BY DEF TypeOK, Without, Deliveries
<1>1. ASSUME NEW r \in Refs, RunCommit(r)
      PROVE  SingleInv'
  <2>1. UNCHANGED <<hpc, inflight, receives>>
    BY <1>0, <1>1, CommitSends DEF RunCommit
  <2> QED BY <2>1 DEF SingleInv
<1>2. ASSUME NEW d \in Deliveries, RunDelivery(d)
      PROVE  SingleInv'
  <2>1. UNCHANGED receives
    BY <1>2, WorkerWrites DEF RunDelivery, Acknowledge, Delete
  <2>2. /\ hpc[d] \in Working
        /\ \A x \in Deliveries \ {d} : hpc'[x] = hpc[x]
    BY <1>0, <1>2, WorkerFlow DEF RunDelivery
  <2>3. CASE Acknowledge(d)
    <3>1. hpc'[d] = "over" /\ \A r \in inflight : r # d[1] => r \in inflight'
      BY <1>0, <2>3 DEF Acknowledge, Delete, Go, WorkerTypeOK, Ref
    <3> QED BY <1>0, <2>1, <2>2, <3>1, Alone DEF SingleInv, Working
  <2>4. CASE UNCHANGED queueVars
    BY <1>0, <2>1, <2>2, <2>4 DEF SingleInv
  <2> QED BY <1>2, <2>3, <2>4, WorkerWrites DEF RunDelivery
<1>3. ASSUME NEW r \in Refs, Timeout(r)
      PROVE  SingleInv'
  <2>1. /\ hpc[<<r, receives[r]>>] = "over"
        /\ inflight' = inflight \ {r}
        /\ UNCHANGED <<hpc, receives>>
    BY <1>0, <1>3 DEF Timeout, VisibilityTimeout, Reappear
  <2> QED BY <1>0, <2>1 DEF SingleInv, Working
<1>4. ASSUME NEW r \in Refs, Redrive(r)
      PROVE  SingleInv'
  BY <1>4 DEF Redrive, ToDlq, SingleInv
<1>5. CASE Poll
  <2>1. PICK B \in SUBSET msgs : Receive(B, GroupOf)
    BY <1>5 DEF Poll
  <2>2. /\ inflight' = inflight \cup B
        /\ \A r \in Refs : receives'[r] = IF r \in B THEN receives[r] + 1 ELSE receives[r]
        /\ B \cap inflight = {}
    BY <1>0, <2>1 DEF Receive, Deliver, Deliverable
  <2>3. ASSUME NEW d \in Deliveries, hpc'[d] \in Working
        PROVE  d[2] = receives'[d[1]] /\ d[1] \in inflight'
    <3>1. hpc'[d] = IF d[1] \in B /\ d[2] = receives[d[1]] + 1 THEN "start" ELSE hpc[d]
      BY <2>1, <2>3 DEF Receive
    <3> QED BY <1>0, <2>2, <2>3, <3>1 DEF SingleInv
  <2> QED BY <2>3 DEF SingleInv
<1>6. ASSUME NEW r \in Refs, CommitCrash(r), UNCHANGED workerVars
      PROVE  SingleInv'
  BY <1>6 DEF CommitCrash, SingleInv
<1>7. ASSUME NEW d \in Deliveries, WorkerCrash(d), UNCHANGED commitVars
      PROVE  SingleInv'
  BY <1>0, <1>7 DEF WorkerCrash, Go, WorkerTypeOK, SingleInv, Working
<1>8. CASE Expiry \/ UNCHANGED vars
  BY <1>8 DEF Expiry, vars, SingleInv
<1> QED BY <1>1, <1>2, <1>3, <1>4, <1>5, <1>6, <1>7, <1>8, Steps

\* The faults under which a key that was read as one's own may be another's
\* when it is deleted: it expires in between, two deliveries of a message
\* overlap, or write-api and worker-svc both release the hold of a message that
\* was sent although the send failed.
NoStaleKeys == NoRefunds /\ Without({"slow", "send", "expiry"})

OwnInv ==
    /\ IdleRefunds
    /\ SentInv
    /\ MineInv
    /\ SingleInv
    /\ \A d \in Deliveries : hpc[d] = "drop" => owned[d] \subseteq Keys(d[1])

LEMMA InitOwn == Init => OwnInv
<1>1. Init => IdleRefunds /\ \A d \in Deliveries : hpc[d] # "drop"
  BY DEF Init, RefundInit, WorkerInit, IdleRefunds
<1> QED BY <1>1, InitSent, InitMine, InitSingle DEF OwnInv

LEMMA NextOwn ==
    ASSUME NoStaleKeys, TypeOK, BookInv, AnsweredInv, OwnInv, [Next]_vars
    PROVE  OwnInv'
<1>0. /\ StoreTypeOK /\ CommitTypeOK /\ WorkerTypeOK
      /\ NoRefunds /\ Without({"send"}) /\ Without({"send", "slow"})
      /\ Without({"send", "expiry"}) /\ "expiry" \notin Faults
      /\ IdleRefunds /\ SentInv /\ MineInv /\ SingleInv
      /\ \A d \in Deliveries : d[1] \in Refs
  BY DEF TypeOK, NoStaleKeys, Without, OwnInv, Deliveries
<1>1. OwnedStay
  BY DEF OwnInv, OwnedStay, Keys
<1>2. IdleRefunds' /\ SentInv' /\ MineInv' /\ SingleInv'
  BY <1>0, <1>1, Steps, NextSent, NextMine, NextSingle
<1>3. ASSUME NEW d \in Deliveries, hpc[d] = "drop", hpc'[d] = "drop"
      PROVE  Keys(d[1]) \subseteq Keys(d[1])'
  <2>1. ASSUME NEW x \in Refs, ReleaseWrite(x)
        PROVE  mine[x] \cap Keys(d[1]) = {}
    BY <1>0, <1>3, <2>1 DEF ReleaseWrite, At, MineInv, SentInv, Keys
  <2>2. ASSUME NEW e \in Deliveries, FinalizeWrite(e)
        PROVE  owned[e] \cap Keys(d[1]) = {}
    <3>1. hpc[e] = "drop" /\ hpc'[e] # "drop"
      BY <1>0, <2>2 DEF FinalizeWrite, In, Go, AfterFinalize, WorkerTypeOK
    <3>2. d[1] # e[1]
      BY <1>0, <1>3, <3>1, Alone DEF Working
    <3> QED BY <3>1, <3>2 DEF OwnInv, Keys
  <2> QED BY <1>0, <2>1, <2>2, KeyWriters, StoreAssumption
          DEF Keys, FreeKeys, StoreTypeOK
<1>4. ASSUME NEW d \in Deliveries, hpc'[d] = "drop"
      PROVE  owned'[d] \subseteq Keys(d[1])'
  <2>1. CASE WorkerStep(d)
    <3>1. FinalizeRead(d)
      BY <1>0, <1>4, <2>1, WorkerFlow
    <3>2. owned'[d] \subseteq Keys(d[1]) /\ UNCHANGED seatKey
      BY <1>0, <3>1 DEF FinalizeRead, OwnedBy, Keys, Ref, WorkerTypeOK, StoreTypeOK
    <3> QED BY <3>2 DEF Keys
  <2>2. ASSUME ~WorkerStep(d)
        PROVE  owned'[d] = owned[d] /\ hpc[d] = "drop"
    <3>1. ASSUME NEW e \in Deliveries, RunDelivery(e)
          PROVE  owned'[d] = owned[d] /\ hpc[d] = "drop"
      BY <1>0, <1>4, <2>2, <3>1, WorkerFlow DEF RunDelivery
    <3>2. ASSUME NEW e \in Deliveries, WorkerCrash(e)
          PROVE  owned'[d] = owned[d] /\ hpc[d] = "drop"
      BY <1>0, <1>4, <3>2 DEF WorkerCrash, Go, WorkerTypeOK
    <3>3. CASE Poll
      <4>1. PICK B \in SUBSET msgs : Receive(B, GroupOf)
        BY <3>3 DEF Poll
      <4> QED BY <1>4, <4>1 DEF Receive
    <3> QED BY <1>0, <1>4, <3>1, <3>2, <3>3, Steps
            DEF RunCommit, Timeout, VisibilityTimeout, Redrive, Expiry, vars
  <2> QED BY <1>3, <1>4, <2>1, <2>2 DEF OwnInv
<1> QED BY <1>2, <1>4 DEF OwnInv

\* While nobody refunds and no key is read stale, no step of one request, and
\* none of a delivery of its message, deletes or overwrites the key another
\* request holds, although both read the keys first and write them later. Redis
\* and database failures, crashes and lost COMMIT answers are allowed.
THEOREM HoldsAreOnesOwn ==
    ASSUME NoStaleKeys
    PROVE  Spec => OwnHoldsOnly
<1>1. ASSUME TypeOK, OwnInv, [Next]_vars
      PROVE  \A s \in Seats, a, b \in Refs :
               /\ seatKey[s] = a /\ a # b
               /\ cpc'[b] # cpc[b] \/ \E k \in 1..MaxReceive : hpc'[<<b, k>>] # hpc[<<b, k>>]
               => seatKey'[s] = a
  <2>0. /\ StoreTypeOK /\ CommitTypeOK /\ WorkerTypeOK /\ NoRefunds /\ IdleRefunds
        /\ "expiry" \notin Faults
        /\ \A d \in Deliveries : d[1] \in Refs
        /\ \A b \in Refs, k \in 1..MaxReceive : <<b, k>> \in Deliveries /\ <<b, k>>[1] = b
    BY <1>1 DEF TypeOK, OwnInv, NoStaleKeys, Without, Deliveries
  <2>1. SUFFICES ASSUME NEW s \in Seats, NEW a \in Refs, NEW b \in Refs,
                        seatKey[s] = a, a # b, seatKey'[s] # a
                 PROVE  /\ cpc'[b] = cpc[b]
                        /\ \A k \in 1..MaxReceive : hpc'[<<b, k>>] = hpc[<<b, k>>]
    OBVIOUS
  <2>2. ASSUME NEW x \in Refs, RunCommit(x), ReleaseWrite(x), s \in mine[x]
        PROVE  x # b /\ UNCHANGED hpc
    BY <1>1, <2>1, <2>2 DEF ReleaseWrite, At, OwnInv, MineInv, Keys, RunCommit
  <2>3. ASSUME NEW d \in Deliveries, RunDelivery(d), FinalizeWrite(d), s \in owned[d]
        PROVE  d[1] # b /\ UNCHANGED cpc
    BY <1>1, <2>1, <2>3 DEF FinalizeWrite, In, OwnInv, Keys, RunDelivery
  <2>4. \/ \E x \in Refs : RunCommit(x) /\ x # b /\ UNCHANGED hpc
        \/ \E d \in Deliveries : RunDelivery(d) /\ d[1] # b /\ UNCHANGED cpc
    BY <1>1, <2>0, <2>1, <2>2, <2>3, KeyWriters, StoreAssumption
    DEF FreeKeys, StoreTypeOK
  <2> QED BY <2>0, <2>4, CommitFlow, WorkerFlow DEF RunCommit, RunDelivery
<1>2. TypeOK /\ BookInv /\ AnsweredInv /\ OwnInv /\ [Next]_vars => OwnInv'
  BY NextOwn
<1>3. TypeOK /\ OwnInv /\ [Next]_vars =>
        \A s \in Seats, a, b \in Refs :
          /\ seatKey[s] = a /\ a # b
          /\ cpc'[b] # cpc[b] \/ \E k \in 1..MaxReceive : hpc'[<<b, k>>] # hpc[<<b, k>>]
          => seatKey'[s] = a
  BY <1>1
<1> QED BY <1>2, <1>3, InitOwn, InitBook, NextBook, InitAnswered, NextAnswered,
           TypeCorrect, PTL DEF Spec, OwnHoldsOnly

-----------------------------------------------------------------------------
(* Verdicts                                                                *)

\* A delivery that finalizes has decided something.
DecidedInv ==
    \A d \in Deliveries : hpc[d] \in {"fin", "drop", "give"} => verdict[d] # "none"

LEMMA InitDecided == Init => DecidedInv
BY DEF Init, WorkerInit, DecidedInv

LEMMA NextDecided == TypeOK /\ AnsweredInv /\ DecidedInv /\ [Next]_vars => DecidedInv'
<1> SUFFICES ASSUME TypeOK, AnsweredInv, DecidedInv, [Next]_vars,
                    NEW d \in Deliveries, hpc'[d] \in {"fin", "drop", "give"}
             PROVE  verdict'[d] # "none"
  BY DEF DecidedInv
<1>0. WorkerTypeOK
  BY DEF TypeOK
<1>1. CASE WorkerStep(d)
  <2>1. CASE FinalizeRead(d) \/ FinalizeWrite(d)
    BY <1>0, <2>1 DEF FinalizeRead, FinalizeWrite, In, DecidedInv
  <2>2. CASE \/ \E pc \in {"put", "pollPut", "failPut"} : Put(d, pc)
             \/ GuardFailure(d)
    BY <1>0, <2>2 DEF Put, GuardFailure, In, AnsweredInv, ToStore
  <2>3. CASE KeepOrPut(d, "same", "put") \/ KeepOrPut(d, "pollSame", "pollPut")
    BY <1>0, <2>3 DEF KeepOrPut, Decide, WorkerTypeOK
  <2> QED BY <1>0, <1>1, <2>1, <2>2, <2>3, WorkerFlow
<1>2. CASE ~WorkerStep(d)
  <2>1. ASSUME NEW e \in Deliveries, WorkerStep(e)
        PROVE  hpc'[d] = hpc[d] /\ verdict'[d] = verdict[d]
    BY <1>0, <1>2, <2>1, WorkerFlow
  <2> QED BY <2>1, HandlerSteps DEF DecidedInv
<1> QED BY <1>1, <1>2

-----------------------------------------------------------------------------
(* A hold wins                                                             *)

\* Nothing undermines a hold: every request takes one for seats of the show,
\* Redis neither fails nor expires a key, and no hold is released for a message
\* that was sent or whose booking is only delayed.
HoldsStand ==
    /\ NoRefunds
    /\ Without({"redis", "db", "send", "expiry"})
    /\ AllHold
    /\ AllValid

\* Request r has all its seats: it holds their keys or has booked them.
Secured(r) ==
    \A s \in Want(r) :
      seatKey[s] = r \/ (seatKey[s] = Confirmed /\ s \in SeatsOf(r))

\* From the SET NX that took every seat on, a request is secured.
WinInv ==
    \A r \in Refs : cpc[r] \in {"mark", "take", "send", "note", "queued"} \/ order[r] > 0
                    => Secured(r)

LEMMA InitWin == Init => WinInv
BY DEF Init, CommitInit, QueueInit, WinInv

\* What is secured by one is neither held nor sold by another.
LEMMA SecuredOnce ==
    ASSUME TypeOK, BookInv, NEW q \in Refs, NEW r \in Refs, q # r,
           Secured(q), Secured(r), NEW s \in Want(q), s \in Want(r)
    PROVE  FALSE
BY StoreAssumption DEF TypeOK, StoreTypeOK, BookInv, BookedWhole, Secured

\* A request that was sent is not hopeless.
LEMMA NotHopeless ==
    ASSUME HoldsStand, TypeOK, BookInv, SentInv, WinInv, NEW r \in Refs, order[r] > 0
    PROVE  ~Hopeless(r)
<1>0. StoreTypeOK /\ Want(r) \in SUBSET Seats
  BY WantType DEF TypeOK
<1>1. SUFFICES ASSUME booking[r] = "none", NEW s \in Want(r), s \in Sold
               PROVE  FALSE
  BY <1>0 DEF Hopeless, HoldsStand, AllValid, StoreTypeOK, Want
<1>2. PICK q \in Refs : s \in SeatsOf(q)
  BY <1>1 DEF Sold, SeatsOf
<1>3. booking[q] # "none" /\ s \in Want(q) /\ q # r
  BY <1>0, <1>1, <1>2 DEF BookInv, BookedWhole
<1>4. Secured(q) /\ Secured(r)
  BY <1>3 DEF SentInv, WinInv
<1> QED BY <1>1, <1>3, <1>4, SecuredOnce

\* Under these conditions every delivery that finalizes has booked its seats,
\* and finds them secured.
LEMMA Finalizes ==
    ASSUME HoldsStand, TypeOK, BookInv, OkInv, MarkInv, DecidedInv, HonestInv, SentInv,
           WinInv, NEW d \in Deliveries, hpc[d] = "drop"
    PROVE  /\ verdict[d] = "OK"
           /\ Secured(d[1])
           /\ owned[d] \subseteq SeatsOf(d[1])
<1>0. StoreTypeOK /\ WorkerTypeOK /\ d[1] \in Refs
  BY DEF TypeOK, Deliveries
<1>1. order[d[1]] > 0
  BY <1>0 DEF SentInv
<1>2. verdict[d] = "OK"
  BY <1>0, <1>1, NotHopeless DEF HonestInv, DecidedInv
<1>3. SeatsOf(d[1]) = Want(d[1])
  BY <1>0, <1>2, BookedSeats DEF OkInv, MarkInv
<1> QED BY <1>0, <1>1, <1>2, <1>3 DEF WinInv, MarkInv

LEMMA SecuredStays ==
    ASSUME HoldsStand, TypeOK, BookInv, OkInv, MarkInv, DecidedInv, HonestInv, SentInv,
           MineInv, WinInv, [Next]_vars, NEW r \in Refs, Secured(r), cpc[r] # "relWrite"
    PROVE  Secured(r)'
<1>0. /\ StoreTypeOK /\ NoRefunds /\ IdleRefunds /\ "expiry" \notin Faults
      /\ Want(r) \in SUBSET Seats
      /\ \A d \in Deliveries : d[1] \in Refs
  BY WantType DEF TypeOK, HoldsStand, Without, MarkInv, Deliveries
<1>1. Want(r)' = Want(r) /\ SeatsOf(r) \subseteq SeatsOf(r)'
  BY <1>0, TablesGrow
<1>2. SUFFICES ASSUME NEW s \in Want(r)
               PROVE  seatKey'[s] = seatKey[s]
                      \/ (seatKey'[s] = Confirmed /\ s \in SeatsOf(r))
  BY <1>1 DEF Secured
<1>3. seatKey[s] # Nobody /\ (seatKey[s] \in Refs => seatKey[s] = r)
  BY <1>0, <1>2, StoreAssumption DEF Secured
<1>4. ASSUME NEW x \in Refs, ReleaseWrite(x)
      PROVE  s \notin mine[x]
  BY <1>0, <1>3, <1>4 DEF ReleaseWrite, At, MineInv, Keys
<1>5. ASSUME NEW d \in Deliveries, FinalizeWrite(d), s \in owned[d]
      PROVE  verdict[d] = "OK" /\ s \in SeatsOf(r)
  <2>1. hpc[d] = "drop" /\ s \in Want(d[1])
    BY <1>0, <1>5 DEF FinalizeWrite, In, MarkInv
  <2>2. d[1] = r
    BY <1>0, <1>2, <2>1, Finalizes, SecuredOnce
  <2> QED BY <1>5, <2>1, <2>2, Finalizes
<1> QED BY <1>0, <1>2, <1>3, <1>4, <1>5, KeyWriters DEF FreeKeys, StoreTypeOK

LEMMA NextWin ==
    ASSUME HoldsStand, TypeOK, BookInv, OkInv, AnsweredInv, MarkInv, DecidedInv, HonestInv,
           SentInv, MineInv, WinInv, [Next]_vars
    PROVE  SentInv' /\ MineInv' /\ WinInv'
<1>0. /\ StoreTypeOK /\ CommitTypeOK /\ WorkerTypeOK /\ NoRefunds /\ IdleRefunds
      /\ Without({"send"}) /\ Without({"send", "expiry"})
      /\ "redis" \notin Faults
      /\ \A r \in Refs : ~req[r].skip /\ Want(r) \in SUBSET Seats
      /\ \A d \in Deliveries : d[1] \in Refs
  BY WantType DEF TypeOK, HoldsStand, Without, MarkInv, AllHold, StoreTypeOK, Deliveries
<1>1. SentInv'
  BY <1>0, NextSent
<1>2. MineInv'
  <2>1. OwnedStay
    BY Finalizes, <1>0 DEF OwnedStay, Secured, BookInv, BookedWhole
  <2> QED BY <1>0, <2>1, NextMine
<1>3. ASSUME NEW r \in Refs,
             cpc'[r] \in {"mark", "take", "send", "note", "queued"} \/ order'[r] > 0
      PROVE  Secured(r)'
  <2>1. CASE cpc[r] \in {"mark", "take", "send", "note", "queued"} \/ order[r] > 0
    <3>1. Secured(r) /\ cpc[r] # "relWrite"
      BY <2>1 DEF WinInv, SentInv
    <3> QED BY <3>1, SecuredStays
  <2>2. CASE ~(cpc[r] \in {"mark", "take", "send", "note", "queued"} \/ order[r] > 0)
    <3>1. UNCHANGED <<cpc, order>> \/ (\E x \in Refs : RunCommit(x) \/ CommitCrash(x))
      BY <1>0, Steps, WorkerWrites
      DEF RunDelivery, Acknowledge, Delete, Timeout, VisibilityTimeout, Reappear,
          Redrive, ToDlq, Poll, Receive, Deliver, WorkerCrash, Expiry, vars
    <3>2. ASSUME NEW x \in Refs, CommitCrash(x)
          PROVE  cpc'[r] \in {cpc[r], "dead"} /\ UNCHANGED order
      BY <1>0, <3>2 DEF CommitCrash, GoTo, CommitTypeOK
    <3>3. ASSUME NEW x \in Refs, RunCommit(x), x # r
          PROVE  cpc'[r] = cpc[r] /\ order'[r] = order[r]
      BY <1>0, <3>3, CommitFlow, CommitSends DEF RunCommit
    <3>4. CommitStep(r)
      BY <1>3, <2>2, <3>1, <3>2, <3>3 DEF RunCommit
    <3>5. HoldAll(r)
      <4>1. UNCHANGED order
        BY <1>0, <2>2, <3>4, CommitSends
      <4>2. cpc'[r] = "mark" => HoldAll(r)
        BY <1>0, <3>4, CommitFlow DEF HoldFailsOpen
      <4>3. cpc'[r] = "take" => FALSE
        BY <1>0, <2>2, <3>4, CommitFlow DEF SkipHold, MarkHold, At
      <4>4. cpc'[r] = "send" => FALSE
        BY <1>0, <2>2, <3>4, CommitFlow DEF TakeTicket, At
      <4>5. cpc'[r] \notin {"note", "queued"}
        BY <1>0, <2>2, <3>4, CommitSends
      <4> QED BY <1>3, <2>2, <4>1, <4>2, <4>3, <4>4, <4>5
    <3>6. /\ \A s \in Want(r) : seatKey'[s] = r
          /\ Want(r)' = Want(r)
      BY <1>0, <3>5 DEF HoldAll, TakeKeys, Want
    <3> QED BY <3>6 DEF Secured
  <2> QED BY <2>1, <2>2
<1> QED BY <1>1, <1>2, <1>3 DEF WinInv

\* While nothing undermines a hold, a request that was accepted with one is
\* never told that its seat was taken, however often its message is delivered,
\* slow handlers, crashes and lost answers of COMMITs and deletions included.
THEOREM HoldsWin ==
    ASSUME HoldsStand
    PROVE  Spec => []HoldWins
<1>0. ClearAnswers
  BY DEF HoldsStand, ClearAnswers, Without
<1>1. TypeOK /\ BookInv /\ HonestInv /\ SentInv /\ WinInv => HoldWins
  BY NotHopeless DEF HoldWins, HonestInv, SentInv
<1>2. TypeOK /\ BookInv /\ OkInv /\ MarkInv /\ [Next]_vars => MarkInv'
  BY NextMark DEF HoldsStand
<1>3. TypeOK /\ BookInv /\ AnsweredInv /\ MarkInv /\ HonestInv /\ [Next]_vars => HonestInv'
  BY <1>0, NextHonest
<1>4. /\ TypeOK /\ BookInv /\ OkInv /\ AnsweredInv /\ MarkInv /\ HonestInv /\ SentInv
      /\ DecidedInv /\ MineInv /\ WinInv /\ [Next]_vars
      => SentInv' /\ MineInv' /\ WinInv'
  BY NextWin
<1> QED BY <1>1, <1>2, <1>3, <1>4, InitMark, InitDecided, NextDecided, InitHonest, InitSent,
           InitMine, InitWin, InitBook, NextBook, InitOk, NextOk, InitAnswered,
           NextAnswered, TypeCorrect, PTL DEF Spec

\* Under the same conditions the key of a seat stays its request's, or becomes
\* "CONFIRMED", once the request is booked: no delivery and no release ever
\* offers a sold seat again.
THEOREM SoldSeatsKeepTheirKeys ==
    ASSUME HoldsStand
    PROVE  Spec => SoldKeepsItsKey
<1>0. ClearAnswers
  BY DEF HoldsStand, ClearAnswers, Without
<1>1. ASSUME TypeOK, BookInv, OkInv, MarkInv, DecidedInv, HonestInv, SentInv, MineInv,
             WinInv, [Next]_vars
      PROVE  \A s \in Seats, r \in Refs :
               seatKey[s] = r /\ <<r, s>> \in rows => seatKey'[s] \in {r, Confirmed}
  <2>1. SUFFICES ASSUME NEW s \in Seats, NEW r \in Refs, seatKey[s] = r, s \in SeatsOf(r)
                 PROVE  seatKey'[s] \in {r, Confirmed}
    BY <1>1 DEF SeatsOf
  <2>2. booking[r] # "none" /\ s \in Want(r)
    BY <1>1, <2>1 DEF BookInv, BookedWhole
  <2>3. Secured(r) /\ cpc[r] # "relWrite"
    BY <1>1, <2>2 DEF SentInv, WinInv
  <2>4. Secured(r)' /\ Want(r)' = Want(r)
    BY <1>1, <2>3, SecuredStays, TableWriters DEF Want
  <2> QED BY <2>2, <2>4 DEF Secured
<1>2. TypeOK /\ BookInv /\ OkInv /\ MarkInv /\ [Next]_vars => MarkInv'
  BY NextMark DEF HoldsStand
<1>3. TypeOK /\ BookInv /\ AnsweredInv /\ MarkInv /\ HonestInv /\ [Next]_vars => HonestInv'
  BY <1>0, NextHonest
<1>4. /\ TypeOK /\ BookInv /\ OkInv /\ AnsweredInv /\ MarkInv /\ HonestInv /\ SentInv
      /\ DecidedInv /\ MineInv /\ WinInv /\ [Next]_vars
      => SentInv' /\ MineInv' /\ WinInv'
  BY NextWin
<1>5. /\ TypeOK /\ BookInv /\ OkInv /\ MarkInv /\ DecidedInv /\ HonestInv /\ SentInv
      /\ MineInv /\ WinInv /\ [Next]_vars
      => \A s \in Seats, r \in Refs :
           seatKey[s] = r /\ <<r, s>> \in rows => seatKey'[s] \in {r, Confirmed}
  BY <1>1
<1> QED BY <1>2, <1>3, <1>4, <1>5, InitMark, InitDecided, NextDecided, InitHonest, InitSent,
           InitMine, InitWin, InitBook, NextBook, InitOk, NextOk, InitAnswered,
           NextAnswered, TypeCorrect, PTL DEF Spec, SoldKeepsItsKey

-----------------------------------------------------------------------------
(* No orphan holds                                                         *)

\* Requests for one seat each, which nothing but a failing delete_message
\* disturbs. Every other fault leaves a hold that nobody works for any more: a
\* request for several seats keeps the ones after the first refused seat, a pod
\* that dies or a COMMIT whose answer is lost leaves its hold behind, and so do
\* a release or a finalization that Redis fails or whose metadata has expired.
OrderlySale == NoRefunds /\ Faults \subseteq {"delete"} /\ OneSeatEach

\* The metadata of a hold lists all its keys, a delivery that finalizes drops
\* all of them, and the first delivery of a message does so before the message
\* is visible again.
HeldInv ==
    /\ \A r \in Refs :
         /\ cpc[r] \notin {"relRead", "relWrite", "relAdd", "error", "dead"}
         /\ Keys(r) # {} => cpc[r] \in {"mark", "take", "send", "note", "queued"}
         /\ Keys(r) \subseteq IF cpc[r] = "mark" THEN held[r] ELSE holdMeta[r]
    /\ \A d \in Deliveries :
         /\ hpc[d] = "drop" => Keys(d[1]) \subseteq owned[d]
         /\ hpc[d] \in {"give", "close", "ack", "over"} => Keys(d[1]) = {}

DeliveredInv ==
    \A r \in Refs :
      /\ receives[r] > 0 => order[r] > 0
      /\ r \in inflight \/ (order[r] > 0 /\ r \notin msgs) => receives[r] > 0
      /\ receives[r] > 0 /\ r \notin inflight => Keys(r) = {}
      /\ result[r] # "none" =>
           Keys(r) = {} \/ \E d \in Deliveries : d[1] = r /\ hpc[d] \in {"fin", "drop"}

LEMMA InitHeld == Init => HeldInv /\ DeliveredInv
BY StoreAssumption
DEF Init, StoreInit, AnswerInit, QueueInit, CommitInit, WorkerInit, HeldInv,
    DeliveredInv, Keys

\* What a request can do in an orderly sale.
LEMMA OrderlyCommit ==
    ASSUME OrderlySale, TypeOK, HeldInv, NEW r \in Refs, CommitStep(r)
    PROVE  \/ HoldAll(r) /\ cpc[r] = "nx" /\ cpc'[r] = "mark"
           \/ /\ cpc[r] = "mark" /\ cpc'[r] = "take"
              /\ holdMeta'[r] = held[r] /\ UNCHANGED <<seatKey, held>>
           \/ /\ cpc[r] \in {"take", "send", "note"}
              /\ cpc'[r] \in {"send", "note", "queued"}
              /\ UNCHANGED <<seatKey, holdMeta>>
           \/ /\ cpc[r] \in {"seed", "fill", "put", "gate", "sold", "check", "nx", "undo"}
              /\ cpc'[r] \in {"fill", "put", "gate", "sold", "check", "nx", "undo",
                              "refused", "take"}
              /\ UNCHANGED <<seatKey, holdMeta>>
<1> USE DEF At, GoTo
<1>0. /\ StoreTypeOK /\ CommitTypeOK
      /\ cpc[r] \notin {"relRead", "relWrite", "relAdd"}
      /\ Faults \cap {"redis", "db", "send"} = {}
      /\ Want(r) = {req[r].lead}
  BY DEF TypeOK, HeldInv, OrderlySale, OneSeatEach, StoreTypeOK, Want
<1>1. CASE HoldAll(r)
  BY <1>0, <1>1 DEF HoldAll, CommitTypeOK
<1>2. CASE HoldPart(r)
  <2>1. FreeKeys(Want(r)) = {} /\ seatKey[req[r].lead] # Nobody
    BY <1>0, <1>2 DEF HoldPart, FreeKeys
  <2>2. cpc'[r] = "undo" /\ UNCHANGED <<seatKey, holdMeta>>
    BY <1>0, <1>2, <2>1 DEF HoldPart, TakeKeys, StoreTypeOK, CommitTypeOK
  <2> QED BY <1>2, <2>2 DEF HoldPart
<1>3. CASE MarkHold(r)
  BY <1>0, <1>3 DEF MarkHold, CommitTypeOK, StoreTypeOK
<1>4. CASE TakeTicket(r) \/ SendOk(r) \/ NoteQueued(r)
  BY <1>0, <1>4 DEF TakeTicket, SendOk, NoteQueued, CommitTypeOK
<1>5. ~SendFails(r) /\ ~HoldFailsOpen(r) /\ ~GateFailsOpen(r)
      /\ ~ReleaseRead(r) /\ ~ReleaseWrite(r) /\ ~ReleaseRestore(r)
  BY <1>0 DEF SendFails, HoldFailsOpen, GateFailsOpen, ReleaseRead, ReleaseWrite,
              ReleaseRestore
<1>6. CASE SeedNotNeeded(r) \/ SeedNeeded(r) \/ SeedRead(r) \/ SeedWrite(r)
  BY <1>0, <1>6 DEF SeedNotNeeded, SeedNeeded, SeedRead, SeedWrite, CommitTypeOK
<1>7. CASE \/ PermitDenied(r) \/ SkipHold(r) \/ GatePass(r) \/ GateFull(r)
           \/ MarkSoldOut(r) \/ CheckConfirmed(r) \/ UndoDecrement(r)
  BY <1>0, <1>7 DEF PermitDenied, SkipHold, GatePass, GateFull, MarkSoldOut,
                    CheckConfirmed, UndoDecrement, CommitTypeOK
<1> QED BY <1>1, <1>2, <1>3, <1>4, <1>5, <1>6, <1>7 DEF CommitStep

\* Only the SET NX of a request gives it keys.
LEMMA KeysShrink ==
    ASSUME OrderlySale, TypeOK, IdleRefunds, HeldInv, [Next]_vars, NEW r \in Refs
    PROVE  Keys(r)' \subseteq Keys(r) \/ (RunCommit(r) /\ HoldAll(r))
<1>0. StoreTypeOK /\ NoRefunds /\ "expiry" \notin Faults
  BY DEF TypeOK, OrderlySale
<1>1. ASSUME NEW x \in Refs, HoldPart(x)
      PROVE  UNCHANGED seatKey
  BY <1>0, <1>1, OrderlyCommit DEF CommitStep, HoldPart, HoldAll, At
<1> QED BY <1>0, <1>1, KeyWriters, StoreAssumption DEF Keys, StoreTypeOK

\* What a delivery can do in an orderly sale.
LEMMA OrderlyWorker ==
    ASSUME OrderlySale, TypeOK, AnsweredInv, SentInv, SingleInv, HeldInv, DeliveredInv,
           NEW d \in Deliveries, RunDelivery(d)
    PROVE  /\ hpc'[d] = "drop" => Keys(d[1])' \subseteq owned'[d]
           /\ hpc'[d] \in {"give", "close", "ack", "over"} => Keys(d[1])' = {}
           /\ result'[d[1]] # "none" =>
                Keys(d[1])' = {} \/ hpc'[d] \in {"fin", "drop"}
           /\ holdMeta' = holdMeta \/ Keys(d[1])' = {}
           /\ \A x \in Refs \ {d[1]} : holdMeta'[x] = holdMeta[x] /\ result'[x] = result[x]
<1> USE DEF In, Go, Ref
<1>0. /\ StoreTypeOK /\ WorkerTypeOK /\ AnswerTypeOK /\ d[1] \in Refs
      /\ Faults \cap {"redis", "db", "commit"} = {}
      /\ cpc[d[1]] # "mark" \/ hpc[d] = "idle"
      /\ hpc[d] \in Working /\ WorkerStep(d)
  BY WorkerFlow DEF TypeOK, OrderlySale, Deliveries, SentInv, RunDelivery
<1>1. Keys(d[1]) \subseteq holdMeta[d[1]]
  BY <1>0 DEF HeldInv, Working
<1>2. result[d[1]] # "none" => Keys(d[1]) = {} \/ hpc[d] \in {"fin", "drop"}
  <2>1. ASSUME NEW e \in Deliveries, e[1] = d[1], hpc[e] \in {"fin", "drop"}
        PROVE  e = d
    BY <1>0, <2>1, Alone DEF Working
  <2> QED BY <1>0, <2>1 DEF DeliveredInv
<1>3. CASE CheckResult(d)
  BY <1>0, <1>2, <1>3 DEF CheckResult, WorkerTypeOK, Keys
<1>4. CASE \/ ConnectFails(d) \/ CheckSeats(d) \/ Commit(d) \/ FindCommitted(d)
           \/ Conflict(d) \/ TxnFails(d) \/ PollDb(d)
           \/ KeepOrPut(d, "same", "put") \/ KeepOrPut(d, "pollSame", "pollPut")
           \/ GuardFailure(d) \/ PutFails(d)
  BY <1>0, <1>2, <1>4
  DEF ConnectFails, CheckSeats, Commit, FindCommitted, Conflict, TxnFails, PollDb,
      KeepOrPut, GuardFailure, PutFails, InsertRows, WorkerTypeOK, Keys
<1>5. CASE \E pc \in {"put", "pollPut", "failPut"} : Put(d, pc)
  BY <1>0, <1>5 DEF Put, StoreResult, WorkerTypeOK, AnswerTypeOK, Keys
<1>6. CASE FinalizeNothing(d)
  BY <1>0, <1>1, <1>6 DEF FinalizeNothing, AfterFinalize, WorkerTypeOK, Keys
<1>7. CASE FinalizeRead(d)
  BY <1>0, <1>1, <1>7 DEF FinalizeRead, OwnedBy, WorkerTypeOK, Keys
<1>8. CASE FinalizeWrite(d)
  <2>1. Keys(d[1])' = {}
    BY <1>0, <1>8, StoreAssumption DEF FinalizeWrite, HeldInv, Keys
  <2> QED BY <1>0, <1>8, <2>1 DEF FinalizeWrite, AfterFinalize, StoreTypeOK, WorkerTypeOK
<1>9. CASE FinalizeFails(d) \/ GiveBack(d) \/ CloseShow(d) \/ CloseFails(d) \/ Acknowledge(d)
  BY <1>0, <1>9
  DEF FinalizeFails, GiveBack, CloseShow, CloseFails, Acknowledge, HeldInv,
      WorkerTypeOK, Keys
<1> QED BY <1>0, <1>3, <1>4, <1>5, <1>6, <1>7, <1>8, <1>9 DEF WorkerStep

LEMMA NextHeld ==
    ASSUME OrderlySale, TypeOK, BookInv, AnsweredInv, IdleRefunds, SentInv, SingleInv,
           HeldInv, DeliveredInv, [Next]_vars
    PROVE  HeldInv' /\ DeliveredInv'
<1>0. /\ StoreTypeOK /\ CommitTypeOK /\ WorkerTypeOK /\ QueueTypeOK /\ AnswerTypeOK
      /\ NoRefunds /\ Without({"send"}) /\ Faults \cap {"slow", "crash", "expiry"} = {}
      /\ \A d \in Deliveries : d[1] \in Refs
      /\ \A r \in Refs : Keys(r)' \subseteq Keys(r) \/ (RunCommit(r) /\ HoldAll(r))
  BY KeysShrink DEF TypeOK, OrderlySale, Without, Deliveries
<1>1. ASSUME NEW r \in Refs, RunCommit(r)
      PROVE  HeldInv' /\ DeliveredInv'
  <2>1. /\ UNCHANGED <<hpc, owned, result>>
        /\ \A x \in Refs \ {r} : cpc'[x] = cpc[x] /\ held'[x] = held[x]
        /\ \/ order' = order /\ UNCHANGED <<msgs, receives, inflight>>
           \/ /\ cpc[r] = "send" /\ msgs' = msgs \cup {r} /\ order'[r] > 0
              /\ \A x \in Refs \ {r} : order'[x] = order[x]
              /\ UNCHANGED <<receives, inflight>>
    BY <1>0, <1>1, CommitFlow, CommitSends, CommitWrites DEF RunCommit
  <2>2. ASSUME NEW x \in Refs, x # r
        PROVE  Keys(x)' \subseteq Keys(x) /\ holdMeta'[x] = holdMeta[x]
    <3>1. Keys(x)' \subseteq Keys(x)
      <4>1. RunCommit(x) => cpc'[x] # cpc[x] \/ ~HoldAll(x)
        BY <1>0 DEF HoldAll, At, GoTo, CommitTypeOK
      <4> QED BY <1>0, <2>1, <2>2, <4>1
    <3>2. holdMeta'[x] = holdMeta[x]
      <4>1. CASE MarkHold(r)
        BY <1>0, <2>2, <4>1 DEF MarkHold, StoreTypeOK
      <4>2. ~MarkHold(r) => UNCHANGED holdMeta
        BY <1>1, CommitWrites
        DEF RunCommit, SeedWrite, GatePass, MarkSoldOut, HoldAll, HoldPart,
            ReleaseWrite, ReleaseRestore, UndoDecrement
      <4> QED BY <4>1, <4>2
    <3> QED BY <3>1, <3>2
  <2>3. CASE HoldAll(r)
    <3>1. /\ cpc[r] = "nx" /\ cpc'[r] = "mark" /\ Keys(r)' \subseteq held'[r]
          /\ UNCHANGED <<holdMeta, queueVars>>
      <4>1. cpc[r] = "nx" /\ Keys(r) = {}
        BY <2>3 DEF HoldAll, At, HeldInv
      <4>2. Keys(r)' \subseteq Want(r)
        BY <1>0, <2>3, <4>1 DEF HoldAll, TakeKeys, Keys, StoreTypeOK
      <4> QED BY <1>0, <2>3, <4>1, <4>2 DEF HoldAll, At, GoTo, CommitTypeOK
    <3>2. order[r] = 0 /\ receives[r] = 0 /\ result[r] = "none"
          /\ \A d \in Deliveries : d[1] = r => hpc[d] = "idle"
      BY <1>0, <3>1 DEF SentInv, DeliveredInv, QueueTypeOK
    <3>3. HeldInv'
      BY <1>0, <2>1, <2>2, <3>1, <3>2 DEF HeldInv
    <3> QED BY <1>0, <2>1, <2>2, <3>1, <3>2, <3>3 DEF DeliveredInv
  <2>4. CASE ~HoldAll(r)
    <3>1. Keys(r)' \subseteq Keys(r)
      BY <1>0, <2>4
    <3>2. /\ cpc'[r] \notin {"relRead", "relWrite", "relAdd", "error", "dead", "mark"}
          /\ Keys(r) # {} => cpc'[r] \in {"take", "send", "note", "queued"}
          /\ Keys(r) \subseteq holdMeta'[r]
      BY <1>0, <1>1, <2>4, OrderlyCommit DEF RunCommit, HeldInv
    <3>3. HeldInv'
      BY <1>0, <2>1, <2>2, <3>1, <3>2 DEF HeldInv
    <3>4. DeliveredInv'
      BY <1>0, <2>1, <2>2, <3>1 DEF DeliveredInv
    <3> QED BY <3>3, <3>4
  <2> QED BY <2>3, <2>4
<1>2. ASSUME NEW d \in Deliveries, RunDelivery(d)
      PROVE  HeldInv' /\ DeliveredInv'
  <2>1. /\ \A r \in Refs : Keys(r)' \subseteq Keys(r)
        /\ \A x \in Deliveries \ {d} : hpc'[x] = hpc[x] /\ owned'[x] = owned[x]
        /\ UNCHANGED <<cpc, held, receives, order>>
        /\ hpc[d] \in Working /\ d[1] \in Refs
    <3>1. UNCHANGED <<cpc, held>> /\ hpc[d] \in Working
          /\ \A x \in Deliveries \ {d} : hpc'[x] = hpc[x] /\ owned'[x] = owned[x]
      BY <1>0, <1>2, WorkerFlow DEF RunDelivery
    <3>2. \A r \in Refs : ~HoldAll(r)
      BY <1>0, <3>1 DEF HoldAll, At, GoTo, CommitTypeOK
    <3>3. UNCHANGED <<receives, order>>
      BY <1>2, WorkerWrites DEF RunDelivery, Acknowledge, Delete
    <3> QED BY <1>0, <3>1, <3>2, <3>3
  <2>2. HeldInv'
    BY <1>0, <1>2, <2>1, OrderlyWorker DEF HeldInv
  <2>3. /\ msgs' \subseteq msgs /\ inflight' \subseteq inflight
        /\ \A r \in Refs : (r \in msgs \ msgs') \/ (r \in inflight \ inflight') =>
             r = d[1] /\ receives[r] > 0 /\ Keys(r)' = {}
    <3>1. CASE Acknowledge(d)
      <4>1. Keys(d[1]) = {}
        BY <3>1 DEF Acknowledge, In, HeldInv
      <4>2. d[1] \in inflight
        BY <2>1 DEF SingleInv
      <4> QED BY <1>0, <2>1, <3>1, <4>1, <4>2
              DEF Acknowledge, Delete, Ref, QueueTypeOK, DeliveredInv
    <3> QED BY <1>2, <3>1, WorkerWrites DEF RunDelivery
  <2>4. ASSUME NEW r \in Refs, result'[r] # "none"
        PROVE  Keys(r)' = {} \/ \E x \in Deliveries : x[1] = r /\ hpc'[x] \in {"fin", "drop"}
    <3>1. CASE r = d[1]
      BY <1>2, <2>4, <3>1, OrderlyWorker
    <3>2. CASE r # d[1]
      <4>1. Keys(r) = {} \/ \E x \in Deliveries : x[1] = r /\ hpc[x] \in {"fin", "drop"}
        BY <1>2, <2>4, <3>2, OrderlyWorker DEF DeliveredInv
      <4> QED BY <2>1, <3>2, <4>1
    <3> QED BY <3>1, <3>2
  <2>5. DeliveredInv'
    BY <1>0, <2>1, <2>3, <2>4 DEF DeliveredInv
  <2> QED BY <2>2, <2>5
<1>3. ASSUME NEW r \in Refs, Timeout(r) \/ Redrive(r)
      PROVE  HeldInv' /\ DeliveredInv'
  <2>1. /\ UNCHANGED <<seatKey, holdMeta, cpc, held, hpc, owned, order, receives, result>>
        /\ inflight' \subseteq inflight /\ inflight' \subseteq msgs'
        /\ \A x \in Refs : (x \in msgs \ msgs') \/ (x \in inflight \ inflight') =>
             x = r /\ receives[x] > 0 /\ Keys(x) = {}
    <3>1. CASE Timeout(r)
      <4>1. r \in inflight /\ receives[r] > 0 /\ receives[r] \in 1..MaxReceive
        BY <1>0, <3>1 DEF Timeout, VisibilityTimeout, Reappear, DeliveredInv, QueueTypeOK
      <4>2. Keys(r) = {}
        BY <1>0, <3>1, <4>1 DEF Timeout, VisibilityTimeout, HeldInv, Deliveries
      <4> QED BY <1>0, <3>1, <4>1, <4>2
              DEF Timeout, VisibilityTimeout, Reappear, QueueTypeOK
    <3>2. CASE Redrive(r)
      BY <1>0, <3>2, QueueAssumption DEF Redrive, ToDlq, DeliveredInv, QueueTypeOK
    <3> QED BY <1>3, <3>1, <3>2
  <2>2. \A x \in Refs : Keys(x)' = Keys(x)
    BY <2>1 DEF Keys
  <2>3. HeldInv'
    BY <1>0, <2>1, <2>2 DEF HeldInv
  <2>4. DeliveredInv'
    BY <2>1, <2>2 DEF DeliveredInv
  <2> QED BY <2>3, <2>4
<1>4. CASE Poll
  <2>1. PICK B \in SUBSET msgs : Receive(B, GroupOf)
    BY <1>4 DEF Poll
  <2>2. /\ UNCHANGED <<seatKey, holdMeta, cpc, held, owned, order, msgs, result>>
        /\ inflight' = inflight \cup B
        /\ \A r \in Refs : receives'[r] = IF r \in B THEN receives[r] + 1 ELSE receives[r]
        /\ \A d \in Deliveries : hpc'[d] \in {hpc[d], "start"}
    BY <1>0, <1>4, <2>1 DEF Poll, Receive, Deliver
  <2>3. \A x \in Refs : Keys(x)' = Keys(x)
    BY <2>2 DEF Keys
  <2>4. ASSUME NEW r \in Refs, result[r] # "none"
        PROVE  Keys(r) = {} \/ \E d \in Deliveries : d[1] = r /\ hpc'[d] \in {"fin", "drop"}
    <3>1. ASSUME NEW d \in Deliveries, d[1] = r, hpc[d] \in {"fin", "drop"}
          PROVE  hpc'[d] = hpc[d]
      <4>1. d[2] = receives[r] /\ r \in inflight
        BY <3>1 DEF SingleInv, Working
      <4> QED BY <1>0, <2>1, <3>1, <4>1 DEF Receive, QueueTypeOK
    <3> QED BY <2>4, <3>1 DEF DeliveredInv
  <2>5. HeldInv'
    BY <1>0, <2>2, <2>3 DEF HeldInv
  <2>6. \A r \in B : order[r] > 0
    BY <1>0 DEF SentInv, QueueTypeOK
  <2>7. DeliveredInv'
    BY <1>0, <2>2, <2>3, <2>4, <2>6 DEF DeliveredInv, QueueTypeOK
  <2> QED BY <2>5, <2>7
<1>5. ASSUME NEW r \in Refs
      PROVE  ~CommitCrash(r)
  BY <1>0 DEF CommitCrash
<1>6. ASSUME NEW d \in Deliveries
      PROVE  ~WorkerCrash(d)
  BY <1>0 DEF WorkerCrash
<1>7. CASE UNCHANGED vars
  BY <1>7 DEF vars, HeldInv, DeliveredInv, Keys
<1>8. ~Expiry
  BY <1>0 DEF Expiry
<1> QED BY <1>0, <1>1, <1>2, <1>3, <1>4, <1>5, <1>6, <1>7, <1>8, Steps

\* In an orderly sale a seat key that holds a request is one that the request
\* is being committed, queued or handled for: nothing refused, failed or
\* answered leaves a seat orange.
THEOREM NoHoldIsOrphaned ==
    ASSUME OrderlySale
    PROVE  Spec => []NoOrphanHold
<1>0. NoRefunds /\ Without({"send"}) /\ Without({"send", "slow"})
  BY DEF OrderlySale, Without
<1>1. TypeOK /\ SentInv /\ HeldInv /\ DeliveredInv => NoOrphanHold
  <2> SUFFICES ASSUME TypeOK, SentInv, HeldInv, DeliveredInv, NEW r \in Refs, Keys(r) # {}
               PROVE  cpc[r] \in Running \/ (cpc[r] = "queued" /\ r \in msgs)
    BY DEF NoOrphanHold, Keys
  <2>1. cpc[r] = "queued" => r \in msgs
    BY DEF TypeOK, QueueTypeOK, SentInv, DeliveredInv
  <2> QED BY <2>1 DEF HeldInv, Running
<1>2. IdleRefunds /\ [Next]_vars => IdleRefunds'
  BY <1>0, Steps
<1>3. TypeOK /\ BookInv /\ AnsweredInv /\ IdleRefunds /\ SentInv /\ [Next]_vars => SentInv'
  BY <1>0, NextSent
<1>4. TypeOK /\ IdleRefunds /\ SingleInv /\ [Next]_vars => SingleInv'
  BY <1>0, NextSingle
<1>5. /\ TypeOK /\ BookInv /\ AnsweredInv /\ IdleRefunds /\ SentInv /\ SingleInv
      /\ HeldInv /\ DeliveredInv /\ [Next]_vars
      => HeldInv' /\ DeliveredInv'
  BY NextHeld
<1>6. Init => IdleRefunds
  BY DEF Init, RefundInit, IdleRefunds
<1> QED BY <1>1, <1>2, <1>3, <1>4, <1>5, <1>6, InitSent, InitSingle, InitHeld, InitBook,
           NextBook, InitAnswered, NextAnswered, TypeCorrect, PTL DEF Spec

-----------------------------------------------------------------------------
(* The remain counter                                                      *)

\* An orderly sale of requests that all take a hold, to no more of them than
\* the show has seats. With skip_hold a seat is sold that was never taken from
\* the counter; with more requests than seats the counter can read 0 with
\* nothing on hold, and is then filled again from a remain_count of the
\* database that no booking has lowered.
CountedSale ==
    /\ OrderlySale
    /\ AllHold
    /\ IsFiniteSet(Refs)
    /\ Cardinality(Refs) <= Total

\* Request r has a seat that the counter no longer offers: between the gate and
\* the SET NX, while it holds or gives back a key, and once it is booked.
Takes(r) ==
    \/ booking[r] # "none"
    \/ cpc[r] \in {"sold", "check", "nx", "mark", "take", "send", "undo"}
    \/ Keys(r) # {}
    \/ \E d \in Deliveries : d[1] = r /\ hpc[d] = "give"

Taking == {r \in Refs : Takes(r)}

\* Before the counter is there no request has passed the seeding.
Seeding == \A r \in Refs : cpc[r] \in {"seed", "fill", "put"}

CounterInv ==
    /\ IF remain = Missing THEN Seeding ELSE remain = Total - Cardinality(Taking)
    /\ dbRemain = Total
    /\ \A r \in Refs : seed[r].was # "stuck" /\ (cpc[r] = "put" => seed[r].val = Total)

\* A request keeps its key until it has a result, and a failed one returns the
\* seat it asked for.
KeptInv ==
    /\ \A r \in Refs :
         cpc[r] \in {"mark", "take", "send"} \/ (order[r] > 0 /\ result[r] = "none")
         => Keys(r) # {}
    /\ \A d \in Deliveries :
         /\ hpc[d] \in {"open", "txn"} => result[d[1]] = "none"
         /\ hpc[d] = "give" => verdict[d] \notin {"none", "OK"} /\ owned[d] = Want(d[1])

\* What holds in an orderly sale already.
OrderlyInv ==
    /\ BookInv /\ OkInv /\ AnsweredInv
    /\ MarkInv /\ HonestInv /\ DecidedInv
    /\ OwnInv /\ HeldInv /\ DeliveredInv

LEMMA NextOrderly ==
    ASSUME OrderlySale, TypeOK, OrderlyInv, [Next]_vars
    PROVE  OrderlyInv'
<1>1. NoRefunds /\ ClearAnswers /\ NoStaleKeys
  BY DEF OrderlySale, ClearAnswers, NoStaleKeys, Without
<1>2. BookInv' /\ OkInv' /\ AnsweredInv' /\ DecidedInv'
  BY NextBook, NextOk, NextAnswered, NextDecided DEF OrderlyInv
<1>3. MarkInv'
  BY <1>1, NextMark DEF OrderlyInv
<1>4. HonestInv'
  BY <1>1, NextHonest DEF OrderlyInv
<1>5. OwnInv'
  BY <1>1, NextOwn DEF OrderlyInv
<1>6. HeldInv' /\ DeliveredInv'
  BY NextHeld DEF OrderlyInv, OwnInv
<1> QED BY <1>2, <1>3, <1>4, <1>5, <1>6 DEF OrderlyInv

LEMMA InitOrderly == Init => OrderlyInv
BY InitBook, InitOk, InitAnswered, InitMark, InitHonest, InitDecided, InitOwn, InitHeld
DEF OrderlyInv

LEMMA InitCounter ==
    ASSUME CountedSale, Init
    PROVE  CounterInv /\ KeptInv
<1>1. Taking = {}
  BY StoreAssumption
  DEF Init, StoreInit, CommitInit, WorkerInit, Taking, Takes, Keys
<1>2. Total - Cardinality(Taking) = Total
  BY <1>1, StoreAssumption, FS_EmptySet
<1>3. KeptInv
  BY DEF Init, QueueInit, CommitInit, WorkerInit, KeptInv
<1> QED BY <1>2, <1>3 DEF Init, StoreInit, CommitInit, NoSeed, CounterInv, Seeding

\* Who changes the keys of a request.
LEMMA KeysChange ==
    ASSUME OrderlySale, TypeOK, OrderlyInv, [Next]_vars, NEW r \in Refs
    PROVE  \/ Keys(r)' = Keys(r)
           \/ RunCommit(r) /\ HoldAll(r) /\ Keys(r)' # {}
           \/ \E d \in Deliveries : d[1] = r /\ RunDelivery(d) /\ FinalizeWrite(d)
<1>0. /\ StoreTypeOK /\ NoRefunds /\ IdleRefunds /\ "expiry" \notin Faults
      /\ \A x \in Refs : Want(x) = {req[x].lead} /\ req[x].lead \in Seats
      /\ \A d \in Deliveries : d[1] \in Refs
  BY StoreAssumption
  DEF TypeOK, OrderlySale, OneSeatEach, StoreTypeOK, Want, OrderlyInv, OwnInv, Deliveries
<1>1. ASSUME NEW x \in Refs
      PROVE  ~ReleaseWrite(x) /\ (HoldPart(x) => UNCHANGED seatKey)
  <2>1. ~ReleaseWrite(x)
    BY DEF ReleaseWrite, At, OrderlyInv, HeldInv
  <2>2. HoldPart(x) => UNCHANGED seatKey
    BY <1>0 DEF HoldPart, TakeKeys, FreeKeys, StoreTypeOK
  <2> QED BY <2>1, <2>2
<1>2. ASSUME NEW x \in Refs, RunCommit(x), HoldAll(x)
      PROVE  Keys(r)' = Keys(r) \/ (x = r /\ Keys(r)' # {})
  <2>1. seatKey' = [s \in Seats |-> IF s \in Want(x) THEN x ELSE seatKey[s]]
    BY <1>2 DEF HoldAll, TakeKeys
  <2>2. \A s \in Want(x) : seatKey[s] = Nobody
    BY <1>2 DEF HoldAll, FreeKeys
  <2>3. CASE x = r
    BY <1>0, <2>1, <2>3 DEF Keys
  <2>4. CASE x # r
    <3>1. \A s \in Seats : seatKey'[s] = r <=> seatKey[s] = r
      BY <1>0, <2>1, <2>2, <2>4, StoreAssumption
    <3> QED BY <3>1 DEF Keys
  <2> QED BY <2>3, <2>4
<1>3. ASSUME NEW d \in Deliveries, RunDelivery(d), FinalizeWrite(d), d[1] # r
      PROVE  Keys(r)' = Keys(r)
  <2>1. owned[d] \cap Keys(r) = {}
    BY <1>0, <1>3 DEF FinalizeWrite, In, OrderlyInv, OwnInv, Keys
  <2> QED BY <1>0, <1>3, <2>1, StoreAssumption DEF FinalizeWrite, Keys, StoreTypeOK
<1>4. UNCHANGED seatKey => Keys(r)' = Keys(r)
  BY DEF Keys
<1> QED BY <1>0, <1>1, <1>2, <1>3, <1>4, KeyWriters

LEMMA NextKept ==
    ASSUME CountedSale, TypeOK, OrderlyInv, KeptInv, [Next]_vars
    PROVE  KeptInv'
<1>0. /\ OrderlySale /\ StoreTypeOK /\ CommitTypeOK /\ WorkerTypeOK /\ AnswerTypeOK
      /\ NoRefunds /\ IdleRefunds /\ Without({"send"})
      /\ Faults \cap {"redis", "crash"} = {}
      /\ SentInv /\ SingleInv /\ AnsweredInv
      /\ \A x \in Refs : ~req[x].skip /\ Want(x) = {req[x].lead}
      /\ \A d \in Deliveries : d[1] \in Refs
  BY DEF TypeOK, CountedSale, AllHold, OrderlySale, OneSeatEach, StoreTypeOK, Want,
         Without, OrderlyInv, OwnInv, Deliveries
<1>1. ASSUME NEW r \in Refs,
             cpc'[r] \in {"mark", "take", "send"} \/ (order'[r] > 0 /\ result'[r] = "none")
      PROVE  Keys(r)' # {}
  <2>1. CASE RunCommit(r) /\ HoldAll(r)
    <3>1. req[r].lead \in Want(r) /\ req[r].lead \in Seats
      BY <1>0, WantType
    <3>2. seatKey'[req[r].lead] = r
      BY <2>1, <3>1 DEF HoldAll, TakeKeys
    <3> QED BY <3>1, <3>2 DEF Keys
  <2>2. ASSUME NEW d \in Deliveries, d[1] = r, RunDelivery(d), FinalizeWrite(d)
        PROVE  FALSE
    <3>1. order[r] > 0 /\ result[r] # "none" /\ hpc[d] = "drop"
      BY <1>0, <2>2 DEF FinalizeWrite, In, SentInv, AnsweredInv, Stored
    <3>2. result'[r] # "none"
      BY <1>0, <3>1, ResultStays
    <3>3. cpc'[r] \notin {"mark", "take", "send"}
      BY <1>0, <2>2, <3>1 DEF RunDelivery, SentInv
    <3> QED BY <1>1, <3>2, <3>3
  <2>3. ASSUME Keys(r)' = Keys(r), ~(RunCommit(r) /\ HoldAll(r))
        PROVE  Keys(r) # {}
    <3>1. result'[r] = "none" => result[r] = "none"
      BY <1>0, ResultStays
    <3>2. CASE RunCommit(r)
      <4>1. cpc'[r] \in {"mark", "take", "send"} => cpc[r] \in {"mark", "take"}
        BY <1>0, <2>3, <3>2, CommitFlow
        DEF RunCommit, HoldFailsOpen, SkipHold, MarkHold, TakeTicket, At
      <4>2. order'[r] > 0 => order[r] > 0 \/ cpc[r] = "send"
        BY <1>0, <3>2, CommitSends DEF RunCommit
      <4> QED BY <1>1, <3>1, <4>1, <4>2 DEF KeptInv
    <3>3. CASE ~RunCommit(r)
      <4>1. ASSUME NEW x \in Refs, RunCommit(x)
            PROVE  cpc'[r] = cpc[r] /\ order'[r] = order[r]
        BY <1>0, <3>3, <4>1, CommitFlow, CommitSends DEF RunCommit
      <4>2. ASSUME NEW x \in Refs
            PROVE  ~CommitCrash(x)
        BY <1>0 DEF CommitCrash
      <4>3. ASSUME NEW d \in Deliveries, RunDelivery(d)
            PROVE  UNCHANGED <<cpc, order>>
        BY <4>3, WorkerWrites DEF RunDelivery, Acknowledge, Delete
      <4>4. cpc'[r] = cpc[r] /\ order'[r] = order[r]
        BY <1>0, <4>1, <4>2, <4>3, Steps
        DEF Timeout, VisibilityTimeout, Reappear, Redrive, ToDlq, Poll, Receive, Deliver,
            WorkerCrash, Expiry, vars
      <4> QED BY <1>1, <3>1, <4>4 DEF KeptInv
    <3> QED BY <3>2, <3>3
  <2> QED BY <1>0, <2>1, <2>2, <2>3, KeysChange
<1>2. ASSUME NEW d \in Deliveries, WorkerStep(d)
      PROVE  /\ hpc'[d] \in {"open", "txn"} => result'[d[1]] = "none"
             /\ hpc'[d] = "give" => verdict'[d] \notin {"none", "OK"} /\ owned'[d] = Want(d[1])
  <2>1. ASSUME hpc'[d] \in {"open", "txn"}
        PROVE  result'[d[1]] = "none"
    <3>1. CheckResult(d) \/ CheckSeats(d)
      BY <1>0, <1>2, <2>1
      DEF WorkerStep, In, Go, WorkerTypeOK, ConnectFails, Commit, FindCommitted, Conflict,
          TxnFails, PollDb, KeepOrPut, GuardFailure, Put, PutFails, FinalizeNothing,
          FinalizeRead, FinalizeWrite, FinalizeFails, AfterFinalize, GiveBack, CloseShow,
          CloseFails, Acknowledge
    <3> QED BY <1>0, <2>1, <3>1 DEF CheckResult, CheckSeats, In, Go, Ref, WorkerTypeOK, KeptInv
  <2>2. ASSUME hpc'[d] = "give"
        PROVE  verdict'[d] \notin {"none", "OK"} /\ owned'[d] = Want(d[1])
    <3>1. FinalizeWrite(d)
      BY <1>0, <1>2, <2>2, WorkerFlow
    <3>2. verdict[d] \notin {"none", "OK"} /\ owned[d] # {}
      BY <1>0, <2>2, <3>1
      DEF FinalizeWrite, In, Go, Restores, AfterFinalize, WorkerTypeOK, OrderlyInv, DecidedInv
    <3>3. owned[d] \subseteq Want(d[1])
      BY DEF OrderlyInv, MarkInv
    <3>4. owned[d] = Want(d[1])
      BY <1>0, <3>2, <3>3
    <3> QED BY <3>1, <3>2, <3>4 DEF FinalizeWrite
  <2> QED BY <2>1, <2>2
<1>3. ASSUME NEW d \in Deliveries
      PROVE  /\ hpc'[d] \in {"open", "txn"} => result'[d[1]] = "none"
             /\ hpc'[d] = "give" => verdict'[d] \notin {"none", "OK"} /\ owned'[d] = Want(d[1])
  <2>1. ASSUME NEW e \in Deliveries, e # d, WorkerStep(e)
        PROVE  /\ hpc'[d] = hpc[d] /\ verdict'[d] = verdict[d] /\ owned'[d] = owned[d]
               /\ hpc[d] \in {"open", "txn"} => result'[d[1]] = result[d[1]]
    <3>1. hpc[d] \in {"open", "txn"} => e[1] # d[1]
      BY <1>0, <2>1, Alone, WorkerFlow DEF Working
    <3> QED BY <1>0, <2>1, <3>1, WorkerFlow, OthersStay DEF AnswerTypeOK
  <2>2. ASSUME \A e \in Deliveries : ~WorkerStep(e)
        PROVE  owned'[d] = owned[d]
    BY <1>0, <2>2, Steps DEF RunCommit, RunDelivery, Timeout, VisibilityTimeout, Redrive,
                             Poll, Receive, WorkerCrash, Expiry, vars
  <2> QED BY <1>2, <2>1, <2>2, HandlerSteps DEF KeptInv
<1>4. \A d \in Deliveries : Want(d[1])' = Want(d[1])
  BY TableWriters DEF Want
<1> QED BY <1>1, <1>3, <1>4 DEF KeptInv

\* A step of one request, or of a delivery of its message, changes nothing in
\* what the others take.
LEMMA OthersTake ==
    ASSUME OrderlySale, TypeOK, OrderlyInv, [Next]_vars, NEW r \in Refs,
           \/ RunCommit(r)
           \/ \E d \in Deliveries : d[1] = r /\ RunDelivery(d),
           NEW x \in Refs, x # r
    PROVE  Takes(x)' <=> Takes(x)
<1>0. StoreTypeOK /\ CommitTypeOK /\ WorkerTypeOK /\ \A d \in Deliveries : d[1] \in Refs
  BY DEF TypeOK, Deliveries
<1>1. CASE RunCommit(r)
  <2>1. /\ UNCHANGED <<booking, hpc>> /\ cpc'[x] = cpc[x]
    BY <1>0, <1>1, CommitFlow, CommitWrites DEF RunCommit
  <2>2. ~HoldAll(x)
    BY <1>0, <2>1 DEF HoldAll, At, GoTo, CommitTypeOK
  <2>3. \A d \in Deliveries : ~FinalizeWrite(d)
    BY <1>0, <2>1 DEF FinalizeWrite, In, Go, AfterFinalize, WorkerTypeOK
  <2>4. Keys(x)' = Keys(x)
    BY <2>2, <2>3, KeysChange
  <2> QED BY <2>1, <2>4 DEF Takes
<1>2. ASSUME NEW d \in Deliveries, d[1] = r, RunDelivery(d)
      PROVE  Takes(x)' <=> Takes(x)
  <2>1. /\ UNCHANGED cpc
        /\ \A e \in Deliveries \ {d} : hpc'[e] = hpc[e]
    BY <1>0, <1>2, WorkerFlow DEF RunDelivery
  <2>2. booking'[x] = booking[x]
    BY <1>0, <1>2, WorkerWrites, CommitBooks DEF RunDelivery, StoreTypeOK, OrderlyInv
  <2>3. ~HoldAll(x)
    BY <1>0, <2>1 DEF HoldAll, At, GoTo, CommitTypeOK
  <2>4. \A e \in Deliveries : e # d => ~FinalizeWrite(e)
    BY <1>0, <2>1 DEF FinalizeWrite, In, Go, AfterFinalize, WorkerTypeOK
  <2>5. Keys(x)' = Keys(x)
    BY <1>2, <2>3, <2>4, KeysChange
  <2> QED BY <1>2, <2>1, <2>2, <2>5 DEF Takes
<1> QED BY <1>1, <1>2

\* A request that has not passed the gate takes nothing.
LEMMA TakesNothing ==
    ASSUME OrderlyInv, NEW r \in Refs, cpc[r] \in {"seed", "fill", "put", "gate", "undo", "refused"}
    PROVE  /\ booking[r] = "none" /\ Keys(r) = {}
           /\ \A d \in Deliveries : d[1] = r => hpc[d] = "idle"
BY DEF OrderlyInv, OwnInv, SentInv, HeldInv

\* What a step of a request does to the counter and to what it takes.
LEMMA CommitCounts ==
    ASSUME CountedSale, TypeOK, OrderlyInv, KeptInv, CounterInv, [Next]_vars,
           NEW r \in Refs, RunCommit(r)
    PROVE  /\ dbRemain' = dbRemain
           /\ \/ remain' = remain /\ (Takes(r)' <=> Takes(r))
              \/ /\ ~Takes(r) /\ Takes(r)'
                 /\ remain \in Nat \ {0} /\ remain' = remain - 1
              \/ /\ Takes(r) /\ ~Takes(r)'
                 /\ remain \in Nat /\ remain' = remain + 1
              \/ /\ remain = Missing /\ remain' = Total
                 /\ ~Takes(r) /\ ~Takes(r)'
<1> USE DEF At, GoTo
<1>0. /\ StoreTypeOK /\ CommitTypeOK /\ CommitStep(r) /\ OrderlySale /\ HeldInv
      /\ UNCHANGED <<booking, dbRemain, hpc>>
      /\ Faults \cap {"redis", "db", "send"} = {} /\ Total \in Nat
      /\ ~req[r].skip /\ Want(r) = {req[r].lead} /\ Cardinality(Want(r)) = 1
  <2>1. ~req[r].skip /\ Want(r) = {req[r].lead}
    BY DEF TypeOK, CountedSale, AllHold, OrderlySale, OneSeatEach, StoreTypeOK, Want
  <2>2. Cardinality(Want(r)) = 1
    BY <2>1, FS_Singleton
  <2> QED BY <2>1, <2>2, CommitWrites, StoreAssumption
          DEF TypeOK, CountedSale, OrderlySale, OrderlyInv, RunCommit
<1>1. /\ cpc[r] \in {"seed", "fill", "put", "gate", "undo", "refused"} =>
           (Takes(r) <=> cpc[r] = "undo")
      /\ cpc[r] \in {"seed", "fill", "put", "gate", "undo", "refused"} =>
           Keys(r) = {} /\ booking[r] = "none"
           /\ \A d \in Deliveries : d[1] = r => hpc[d] = "idle"
  BY TakesNothing DEF Takes
<1>2. ASSUME UNCHANGED seatKey
      PROVE  /\ Keys(r)' = Keys(r)
             /\ (\E d \in Deliveries : d[1] = r /\ hpc[d] = "give")' <=>
                \E d \in Deliveries : d[1] = r /\ hpc[d] = "give"
  BY <1>0, <1>2 DEF Keys
<1>3. CASE SeedNotNeeded(r) \/ SeedNeeded(r) \/ SeedRead(r) \/ PermitDenied(r) \/ GateFull(r)
  <2>1. /\ cpc[r] \in {"seed", "fill", "put", "gate"} /\ UNCHANGED <<seatKey, remain>>
        /\ cpc'[r] \in {"fill", "put", "gate", "refused"}
    BY <1>0, <1>3
    DEF SeedNotNeeded, SeedNeeded, SeedRead, PermitDenied, GateFull, CommitTypeOK
  <2> QED BY <1>0, <1>1, <1>2, <2>1 DEF Takes
<1>4. CASE SeedWrite(r)
  <2>1. /\ cpc[r] = "put" /\ cpc'[r] = "gate" /\ UNCHANGED seatKey
        /\ remain' = remain \/ (remain = Missing /\ remain' = Total)
    BY <1>0, <1>4 DEF SeedWrite, SetRemain, CommitTypeOK, CounterInv
  <2> QED BY <1>0, <1>1, <1>2, <2>1 DEF Takes
<1>5. CASE GatePass(r)
  <2>1. cpc[r] = "gate" /\ cpc'[r] \in {"sold", "check"} /\ UNCHANGED seatKey
    BY <1>0, <1>5 DEF GatePass, CommitTypeOK
  <2>2. remain \in Nat \ {0} /\ remain' = remain - 1
    BY <1>0, <1>5 DEF GatePass, NeededFrom, AddRemain, Counter, Missing, StoreTypeOK
  <2> QED BY <1>0, <1>1, <2>1, <2>2 DEF Takes
<1>6. CASE UndoDecrement(r)
  <2>1. cpc[r] = "undo" /\ cpc'[r] = "refused" /\ UNCHANGED seatKey
    BY <1>0, <1>6 DEF UndoDecrement, CommitTypeOK
  <2>2. remain \in Nat /\ remain' = remain + 1
    <3>1. remain # Missing
      BY <2>1 DEF CounterInv, Seeding
    <3> QED BY <1>0, <1>6, <3>1 DEF UndoDecrement, AddRemain, Counter, StoreTypeOK
  <2> QED BY <1>0, <1>1, <1>2, <2>1, <2>2 DEF Takes
<1>7. CASE HoldAll(r) \/ HoldPart(r) \/ MarkSoldOut(r) \/ CheckConfirmed(r)
           \/ MarkHold(r) \/ TakeTicket(r)
  <2>1. /\ cpc[r] \in {"sold", "check", "nx", "mark", "take"} /\ UNCHANGED remain
        /\ cpc'[r] \in {"check", "nx", "undo", "mark", "take", "send"}
    <3>1. CASE HoldPart(r)
      <4>1. FreeKeys(Want(r)) = {} /\ seatKey[req[r].lead] # Nobody
        BY <1>0, <3>1 DEF HoldPart, FreeKeys
      <4> QED BY <1>0, <3>1, <4>1 DEF HoldPart, CommitTypeOK
    <3> QED BY <1>0, <1>7, <3>1
            DEF HoldAll, MarkSoldOut, CheckConfirmed, MarkHold, TakeTicket, CommitTypeOK
  <2>2. Takes(r) /\ Takes(r)'
    BY <2>1 DEF Takes
  <2> QED BY <1>0, <2>1, <2>2
<1>8. CASE SendOk(r) \/ NoteQueued(r)
  <2>1. /\ cpc[r] \in {"send", "note"} /\ UNCHANGED <<remain, seatKey>>
        /\ cpc'[r] \in {"note", "queued"}
    BY <1>0, <1>8 DEF SendOk, NoteQueued, CommitTypeOK
  <2>2. cpc[r] = "send" => Keys(r) # {}
    BY DEF KeptInv
  <2> QED BY <1>0, <1>2, <2>1, <2>2 DEF Takes
<1>9. ~SkipHold(r) /\ ~SendFails(r) /\ ~HoldFailsOpen(r) /\ ~GateFailsOpen(r)
      /\ ~ReleaseRead(r) /\ ~ReleaseWrite(r) /\ ~ReleaseRestore(r)
  BY <1>0 DEF SkipHold, SendFails, HoldFailsOpen, GateFailsOpen, ReleaseRead, ReleaseWrite,
              ReleaseRestore, HeldInv
<1> QED BY <1>0, <1>3, <1>4, <1>5, <1>6, <1>7, <1>8, <1>9 DEF CommitStep

\* What a step of a delivery does to the counter and to what its request takes.
LEMMA WorkerCounts ==
    ASSUME CountedSale, TypeOK, OrderlyInv, KeptInv, CounterInv, [Next]_vars,
           NEW d \in Deliveries, RunDelivery(d)
    PROVE  /\ dbRemain' = dbRemain
           /\ \/ remain' = remain /\ (Takes(d[1])' <=> Takes(d[1]))
              \/ /\ Takes(d[1]) /\ ~Takes(d[1])'
                 /\ remain \in Nat /\ remain' = remain + 1
<1> USE DEF In, Go, Ref
<1>0. /\ StoreTypeOK /\ WorkerTypeOK /\ WorkerStep(d) /\ OrderlySale
      /\ UNCHANGED cpc /\ d[1] \in Refs
      /\ BookInv /\ OkInv /\ MarkInv /\ HonestInv /\ DecidedInv /\ SentInv /\ SingleInv
      /\ HeldInv /\ AnsweredInv
      /\ Faults \cap {"redis", "db", "commit"} = {}
      /\ Cardinality(Want(d[1])) = 1
  <2>1. d[1] \in Refs
    BY DEF Deliveries
  <2>2. Want(d[1]) = {req[d[1]].lead}
    BY <2>1 DEF TypeOK, CountedSale, OrderlySale, OneSeatEach, StoreTypeOK, Want
  <2>3. Cardinality(Want(d[1])) = 1
    BY <2>2, FS_Singleton
  <2> QED BY <2>1, <2>3
          DEF TypeOK, CountedSale, OrderlySale, OrderlyInv, OwnInv, RunDelivery
<1>1. /\ hpc[d] \in Working /\ order[d[1]] > 0
      /\ \A e \in Deliveries \ {d} : hpc'[e] = hpc[e] /\ (e[1] = d[1] => hpc[e] \notin Working)
      /\ cpc[d[1]] \in {"note", "queued", "dead"}
  <2>1. hpc[d] \in Working /\ \A e \in Deliveries \ {d} : hpc'[e] = hpc[e]
    BY <1>0, WorkerFlow
  <2>2. \A e \in Deliveries \ {d} : e[1] = d[1] => hpc[e] \notin Working
    BY <1>0, <2>1, Alone
  <2> QED BY <1>0, <2>1, <2>2 DEF SentInv, Working
<1>2. /\ Takes(d[1]) <=> booking[d[1]] # "none" \/ Keys(d[1]) # {} \/ hpc[d] = "give"
      /\ Takes(d[1])' <=> booking'[d[1]] # "none" \/ Keys(d[1])' # {} \/ hpc'[d] = "give"
  <2>1. (\E e \in Deliveries : e[1] = d[1] /\ hpc[e] = "give") <=> hpc[d] = "give"
    BY <1>1 DEF Working
  <2>2. (\E e \in Deliveries : e[1] = d[1] /\ hpc[e] = "give")' <=> hpc'[d] = "give"
    BY <1>1 DEF Working
  <2> QED BY <1>0, <1>1, <2>1, <2>2 DEF Takes
<1>3. UNCHANGED seatKey => Keys(d[1])' = Keys(d[1])
  BY DEF Keys
<1>4. CASE Commit(d)
  <2>1. Keys(d[1]) # {}
    BY <1>0, <1>1, <1>4 DEF Commit, KeptInv
  <2>2. UNCHANGED <<seatKey, remain, dbRemain>>
    BY <1>4 DEF Commit, InsertRows
  <2> QED BY <1>2, <1>3, <2>1, <2>2
<1>5. CASE FinalizeWrite(d)
  <2>1. UNCHANGED <<booking, remain, dbRemain>> /\ hpc[d] = "drop"
    BY <1>5 DEF FinalizeWrite
  <2>2. CASE verdict[d] = "OK"
    <3>1. booking[d[1]] # "none"
      BY <1>0, <2>2 DEF OkInv
    <3> QED BY <1>2, <2>1, <3>1
  <2>3. CASE verdict[d] # "OK"
    <3>1. owned[d] = Keys(d[1])
      BY <1>0, <2>1 DEF HeldInv, OrderlyInv, OwnInv
    <3>2. Keys(d[1])' = {}
      BY <1>0, <1>5, <3>1, StoreAssumption DEF FinalizeWrite, Keys
    <3>3. hpc'[d] = "give" <=> Keys(d[1]) # {}
      BY <1>0, <1>5, <2>3, <3>1 DEF FinalizeWrite, Restores, AfterFinalize, WorkerTypeOK
    <3> QED BY <1>2, <2>1, <3>2, <3>3
  <2> QED BY <2>2, <2>3
<1>6. CASE GiveBack(d)
  <2>1. /\ hpc[d] = "give" /\ hpc'[d] = "ack" /\ UNCHANGED <<booking, seatKey, dbRemain>>
    BY <1>0, <1>6 DEF GiveBack, WorkerTypeOK
  <2>2. booking[d[1]] = "none" /\ Keys(d[1]) = {} /\ Cardinality(owned[d]) = 1
    BY <1>0, <2>1 DEF KeptInv, HonestInv, Hopeless, HeldInv
  <2>3. remain # Missing
    BY <1>0, <1>1 DEF CounterInv, Seeding
  <2>4. remain \in Nat /\ remain' = remain + 1
    BY <1>0, <1>6, <2>2, <2>3 DEF GiveBack, AddRemain, Counter, StoreTypeOK
  <2> QED BY <1>2, <1>3, <2>1, <2>2, <2>4
<1>7. ASSUME ~Commit(d), ~FinalizeWrite(d), ~GiveBack(d)
      PROVE  /\ UNCHANGED <<seatKey, remain, booking, dbRemain>>
             /\ hpc[d] # "give" /\ hpc'[d] # "give"
  <2>1. UNCHANGED <<seatKey, remain, booking, dbRemain>>
    BY <1>0, <1>7, WorkerWrites DEF CloseShow
  <2>2. hpc'[d] # "give"
    BY <1>0, <1>7, WorkerFlow
  <2>3. hpc[d] # "give"
    BY <1>0, <1>7
    DEF WorkerStep, CheckResult, ConnectFails, CheckSeats, Commit, FindCommitted, Conflict,
        TxnFails, PollDb, KeepOrPut, GuardFailure, Put, PutFails, FinalizeNothing,
        FinalizeRead, FinalizeFails, CloseShow, CloseFails, Acknowledge
  <2> QED BY <2>1, <2>2, <2>3
<1> QED BY <1>2, <1>3, <1>4, <1>5, <1>6, <1>7

\* Taking and the counter move together.
LEMMA TakingSteps ==
    ASSUME CountedSale, TypeOK, OrderlyInv, KeptInv, CounterInv, [Next]_vars
    PROVE  /\ dbRemain' = dbRemain
           /\ \/ remain' = remain /\ Taking' = Taking
              \/ /\ remain \in Nat \ {0} /\ remain' = remain - 1
                 /\ \E r \in Refs \ Taking : Taking' = Taking \cup {r}
              \/ /\ remain \in Nat /\ remain' = remain + 1
                 /\ \E r \in Taking : Taking' = Taking \ {r}
              \/ /\ remain = Missing /\ remain' = Total /\ Taking' = Taking
<1>0. /\ OrderlySale /\ NoRefunds /\ IdleRefunds
      /\ Faults \cap {"crash", "expiry"} = {}
      /\ WorkerTypeOK
      /\ \A d \in Deliveries : d[1] \in Refs
  BY DEF TypeOK, CountedSale, OrderlySale, OrderlyInv, OwnInv, Deliveries
<1>1. ASSUME NEW r \in Refs, RunCommit(r)
      PROVE  /\ dbRemain' = dbRemain
             /\ \A x \in Refs \ {r} : Takes(x)' <=> Takes(x)
  BY <1>0, <1>1, CommitCounts, OthersTake
<1>2. ASSUME NEW d \in Deliveries, RunDelivery(d)
      PROVE  /\ dbRemain' = dbRemain
             /\ \A x \in Refs \ {d[1]} : Takes(x)' <=> Takes(x)
  BY <1>0, <1>2, WorkerCounts, OthersTake
<1>3. CASE \E r \in Refs : RunCommit(r)
  <2>1. PICK r \in Refs : RunCommit(r)
    BY <1>3
  <2> QED BY <1>1, <2>1, CommitCounts DEF Taking
<1>4. CASE \E d \in Deliveries : RunDelivery(d)
  <2>1. PICK d \in Deliveries : RunDelivery(d)
    BY <1>4
  <2> QED BY <1>0, <1>2, <2>1, WorkerCounts DEF Taking
<1>5. CASE (\E r \in Refs : Timeout(r) \/ Redrive(r)) \/ Poll \/ UNCHANGED vars
  <2>1. UNCHANGED <<booking, cpc, seatKey, remain, dbRemain>>
    BY <1>5 DEF Timeout, VisibilityTimeout, Redrive, Poll, Receive, vars
  <2>2. \A d \in Deliveries : hpc'[d] = "give" <=> hpc[d] = "give"
    <3>1. CASE Poll
      <4>1. PICK B \in SUBSET msgs : Receive(B, GroupOf)
        BY <3>1 DEF Poll
      <4>2. ASSUME NEW d \in Deliveries, d[1] \in B, d[2] = receives[d[1]] + 1
            PROVE  hpc[d] # "give"
        BY <1>0, <4>1, <4>2
        DEF Receive, Deliverable, TypeOK, QueueTypeOK, OrderlyInv, OwnInv, SingleInv,
            Working
      <4> QED BY <4>1, <4>2 DEF Receive
    <3> QED BY <1>5, <3>1 DEF Timeout, VisibilityTimeout, Redrive, vars
  <2>3. \A r \in Refs : Takes(r)' <=> Takes(r)
    BY <2>1, <2>2 DEF Takes, Keys
  <2> QED BY <2>1, <2>3 DEF Taking
<1>6. \A r \in Refs : ~CommitCrash(r)
  BY <1>0 DEF CommitCrash
<1>7. ~Expiry /\ \A d \in Deliveries : ~WorkerCrash(d)
  BY <1>0 DEF Expiry, WorkerCrash
<1> QED BY <1>0, <1>3, <1>4, <1>5, <1>6, <1>7, Steps

LEMMA TakingCount ==
    ASSUME CountedSale
    PROVE  /\ IsFiniteSet(Taking) /\ Cardinality(Taking) \in Nat
           /\ Cardinality(Refs) \in Nat /\ Total \in Nat
           /\ Cardinality(Taking) <= Cardinality(Refs)
           /\ Cardinality(Taking) = Cardinality(Refs) => Taking = Refs
BY FS_Subset, FS_CardinalityType, StoreAssumption DEF CountedSale, Taking

LEMMA NextCounter ==
    ASSUME CountedSale, TypeOK, OrderlyInv, KeptInv, CounterInv, [Next]_vars
    PROVE  CounterInv'
<1>0. /\ StoreTypeOK /\ CommitTypeOK /\ OrderlySale /\ NoRefunds /\ IdleRefunds
      /\ Faults \cap {"redis", "db", "crash"} = {}
      /\ dbRemain' = Total
  BY TakingSteps DEF TypeOK, CountedSale, OrderlySale, OrderlyInv, OwnInv, CounterInv
<1>1. remain' # Missing => remain' = Total - Cardinality(Taking')
  <2>1. CASE remain' = remain /\ Taking' = Taking
    BY <2>1 DEF CounterInv
  <2>2. ASSUME remain \in Nat, remain' = remain - 1,
               NEW r \in Refs \ Taking, Taking' = Taking \cup {r}
        PROVE  remain' = Total - Cardinality(Taking')
    <3>1. Cardinality(Taking') = Cardinality(Taking) + 1
      BY <2>2, TakingCount, FS_AddElement
    <3> QED BY <2>2, <3>1, TakingCount DEF CounterInv, Missing
  <2>3. ASSUME remain \in Nat, remain' = remain + 1, NEW r \in Taking, Taking' = Taking \ {r}
        PROVE  remain' = Total - Cardinality(Taking')
    <3>1. Cardinality(Taking') = Cardinality(Taking) - 1
      BY <2>3, TakingCount, FS_RemoveElement
    <3> QED BY <2>3, <3>1, TakingCount DEF CounterInv, Missing
  <2>4. CASE remain = Missing /\ remain' = Total /\ Taking' = Taking
    <3>1. \A r \in Refs : ~Takes(r)
      BY <2>4, TakesNothing DEF Takes, CounterInv, Seeding
    <3>2. Cardinality(Taking') = 0
      BY <2>4, <3>1, FS_EmptySet DEF Taking
    <3> QED BY <2>4, <3>2, TakingCount
  <2> QED BY <2>1, <2>2, <2>3, <2>4, TakingSteps
<1>2. ASSUME NEW r \in Refs, RunCommit(r)
      PROVE  /\ remain' = Missing => cpc'[r] \in {"seed", "fill", "put"}
             /\ seed'[r].was # "stuck" /\ (cpc'[r] = "put" => seed'[r].val = Total)
             /\ \A x \in Refs \ {r} : cpc'[x] = cpc[x] /\ seed'[x] = seed[x]
  <2>1. /\ seed[r].was # "stuck" /\ (cpc[r] = "put" => seed[r].val = Total)
        /\ seed[r] \in [was : {"ok", "missing", "stuck"}, val : Nat]
        /\ CommitStep(r)
    BY <1>0, <1>2 DEF CounterInv, CommitTypeOK, RunCommit
  <2>2. Total > 0
    <3>1. Cardinality(Refs) # 0
      BY FS_EmptySet DEF CountedSale
    <3> QED BY <3>1, TakingCount DEF CountedSale
  <2>3. CASE SeedNeeded(r)
    <3>1. cpc[r] = "seed" /\ r \notin Taking
      <4>1. cpc[r] = "seed"
        BY <2>3 DEF SeedNeeded, At
      <4> QED BY <4>1, TakesNothing DEF Taking, Takes
    <3>2. remain # 0
      BY <3>1, TakingCount DEF CounterInv, CountedSale, Missing
    <3> QED BY <1>0, <2>3, <3>1, <3>2 DEF SeedNeeded, GoTo, CommitTypeOK
  <2>4. CASE SeedRead(r)
    BY <1>0, <2>1, <2>4 DEF SeedRead, GoTo, CommitTypeOK, CounterInv
  <2>5. CASE SeedWrite(r)
    <3>1. remain' # Missing
      BY <2>1, <2>2, <2>5 DEF SeedWrite, At, SetRemain, Missing, TakingCount
    <3> QED BY <1>0, <2>5, <3>1 DEF SeedWrite, GoTo, CommitTypeOK, NoSeed
  <2>6. CASE SeedNotNeeded(r)
    BY <1>0, <2>1, <2>6 DEF SeedNotNeeded, GoTo, CommitTypeOK
  <2>7. ASSUME ~SeedNeeded(r), ~SeedRead(r), ~SeedWrite(r), ~SeedNotNeeded(r)
        PROVE  /\ UNCHANGED seed /\ cpc[r] \notin {"seed", "fill", "put"}
               /\ cpc'[r] # "put"
               /\ \A x \in Refs \ {r} : cpc'[x] = cpc[x]
    <3>1. UNCHANGED seed /\ \A x \in Refs \ {r} : cpc'[x] = cpc[x]
      BY <1>0, <2>1, <2>7, CommitWrites, CommitFlow
    <3>2. cpc[r] \notin {"seed", "fill", "put"} /\ cpc'[r] # "put"
      BY <1>0, <2>1, <2>7
      DEF CommitStep, At, GoTo, CommitTypeOK, PermitDenied, SkipHold, GatePass, GateFull,
          GateFailsOpen, MarkSoldOut, CheckConfirmed, HoldAll, HoldPart, HoldFailsOpen,
          MarkHold, ReleaseRead, ReleaseWrite, ReleaseRestore, UndoDecrement,
          TakeTicket, SendOk, SendFails, NoteQueued
    <3> QED BY <3>1, <3>2
  <2>8. ASSUME remain' = Missing
        PROVE  remain = Missing /\ cpc[r] \in {"seed", "fill", "put"}
    <3>1. remain = Missing
      BY <2>2, <2>8, TakingSteps DEF Missing
    <3> QED BY <3>1 DEF CounterInv, Seeding
  <2> QED BY <2>1, <2>3, <2>4, <2>5, <2>6, <2>7, <2>8
<1>3. (\E r \in Refs : RunCommit(r)) \/ UNCHANGED <<cpc, seed>>
  <2>1. \A r \in Refs : ~CommitCrash(r)
    BY <1>0 DEF CommitCrash
  <2> QED BY <1>0, <2>1, Steps
          DEF RunDelivery, Timeout, Redrive, Poll, WorkerCrash, Expiry, vars
<1>4. remain' = Missing => Seeding'
  <2> SUFFICES ASSUME remain' = Missing PROVE Seeding'
    OBVIOUS
  <2>1. Seeding
    BY StoreAssumption, TakingSteps DEF CounterInv, Missing
  <2> QED BY <1>2, <1>3, <2>1 DEF Seeding
<1>5. \A r \in Refs : seed'[r].was # "stuck" /\ (cpc'[r] = "put" => seed'[r].val = Total)
  BY <1>2, <1>3 DEF CounterInv
<1> QED BY <1>0, <1>1, <1>4, <1>5 DEF CounterInv, Seeding

\* As many seats are sold as requests are booked.
Booked == {r \in Refs : booking[r] # "none"}

LEMMA SoldCount ==
    ASSUME CountedSale, TypeOK, OrderlyInv
    PROVE  /\ Cardinality(Sold) = Cardinality(Booked)
           /\ Cardinality(Sold) <= Cardinality(Taking)
           /\ Cardinality(Sold) \in Nat
<1> DEFINE f == [r \in Booked |-> req[r].lead]
<1>1. /\ \A r \in Booked : req[r].lead \in SeatsOf(r)
      /\ \A r \in Refs : \A s \in SeatsOf(r) : r \in Booked /\ s = req[r].lead
      /\ \A r \in Refs : SeatsOf(r) \subseteq Sold
  <2>1. /\ StoreTypeOK /\ BookInv /\ MarkInv
        /\ \A r \in Refs : Want(r) = {req[r].lead}
    BY DEF TypeOK, CountedSale, OrderlySale, OneSeatEach, StoreTypeOK, Want, OrderlyInv
  <2>2. \A r \in Booked : SeatsOf(r) = {req[r].lead}
    BY <2>1, BookedSeats DEF Booked, MarkInv
  <2>3. \A r \in Refs \ Booked : SeatsOf(r) = {}
    BY <2>1 DEF Booked, BookInv, BookedWhole
  <2> QED BY <2>2, <2>3 DEF Sold, SeatsOf
<1>2. f \in Bijection(Booked, Sold)
  <2>1. f \in [Booked -> Sold]
    BY <1>1 DEF Booked
  <2>2. ASSUME NEW a \in Booked, NEW b \in Booked, f[a] = f[b]
        PROVE  a = b
    BY <1>1, <2>2 DEF OrderlyInv, BookInv, BookedWhole, Booked
  <2>3. ASSUME NEW s \in Sold
        PROVE  \E r \in Booked : f[r] = s
    <3>1. PICK r \in Refs : s \in SeatsOf(r)
      BY DEF Sold, SeatsOf
    <3> QED BY <1>1, <3>1
  <2> QED BY <2>1, <2>2, <2>3 DEF Bijection, Injection, IsInjective, Surjection
<1>3. Booked \subseteq Taking
  BY DEF Booked, Taking, Takes
<1>4. IsFiniteSet(Booked) /\ Cardinality(Booked) <= Cardinality(Taking)
  BY <1>3, TakingCount, FS_Subset
<1>5. Cardinality(Sold) = Cardinality(Booked)
  BY <1>2, <1>4, FS_Bijection DEF ExistsBijection
<1> QED BY <1>4, <1>5, FS_CardinalityType

\* CounterInv with what it needs, from the first state on.
LEMMA Counted ==
    ASSUME CountedSale
    PROVE  Spec => [](TypeOK /\ OrderlyInv /\ KeptInv /\ CounterInv)
<1>1. Init => CounterInv /\ KeptInv
  BY InitCounter
<1>2. TypeOK /\ OrderlyInv /\ [Next]_vars => OrderlyInv'
  BY NextOrderly DEF CountedSale
<1>3. TypeOK /\ OrderlyInv /\ KeptInv /\ [Next]_vars => KeptInv'
  BY NextKept
<1>4. TypeOK /\ OrderlyInv /\ KeptInv /\ CounterInv /\ [Next]_vars => CounterInv'
  BY NextCounter
<1> QED BY <1>1, <1>2, <1>3, <1>4, InitOrderly, TypeCorrect, PTL DEF Spec

\* In a counted sale the counter never offers more seats than are left: at every
\* moment it lacks one seat for each request that passed the gate and has not
\* given its seat back, and those include the ones that are booked.
THEOREM RemainIsNotOver ==
    ASSUME CountedSale
    PROVE  Spec => []RemainNotOver
<1>1. TypeOK /\ OrderlyInv /\ CounterInv => RemainNotOver
  BY SoldCount, TakingCount DEF CounterInv, RemainNotOver, CountedSale, Missing
<1> QED BY <1>1, Counted, PTL

\* When nothing is under way in a counted sale, the counter is what the database
\* says is left: every decrement of the gate has become a booking or has been
\* undone, by write-api or by worker-svc, and by one of them only.
THEOREM RemainAddsUp ==
    ASSUME CountedSale
    PROVE  Spec => []RemainSettles
<1>1. TypeOK /\ OrderlyInv /\ CounterInv => RemainSettles
  <2> SUFFICES ASSUME TypeOK, OrderlyInv, CounterInv, Quiet, remain # Missing
               PROVE  remain = Total - Cardinality(Sold)
    BY DEF RemainSettles
  <2>1. ASSUME NEW r \in Refs
        PROVE  Keys(r) = {} /\ \A d \in Deliveries : hpc[d] # "give"
    <3>1. Keys(r) # {} => cpc[r] = "queued" /\ order[r] > 0
      BY DEF Quiet, Refused, OrderlyInv, HeldInv, OwnInv, SentInv
    <3>2. order[r] > 0 /\ r \notin msgs /\ r \notin inflight => Keys(r) = {}
      BY DEF OrderlyInv, DeliveredInv
    <3> QED BY <3>1, <3>2 DEF Quiet, TypeOK, QueueTypeOK
  <2>2. Taking = Booked
    BY <2>1 DEF Quiet, Refused, Taking, Takes, Booked
  <2> QED BY <2>2, SoldCount DEF CounterInv
<1> QED BY <1>1, Counted, PTL
=============================================================================
