------------------------- MODULE ConcertBookingTypes ------------------------
(***************************************************************************)
(* Type correctness of ConcertBooking. Each kind of step is shown to keep  *)
(* the parts of TypeOK it has variables of, action by action where one     *)
(* writes to the part and all together where none does.                    *)
(***************************************************************************)
EXTENDS ConcertBooking, FiniteSetTheorems, TLAPS

USE DEF storeVars, cacheVars, dbVars, answerVars, queueVars, commitVars,
        commitLocals, workerVars, workerLocals, refundVars, refundLocals

-----------------------------------------------------------------------------
(* What the operators of the store return                                  *)

LEMMA SeatCount == \A S \in SUBSET Seats : Cardinality(S) \in Nat
BY StoreAssumption, FS_Subset, FS_CardinalityType

LEMMA WantType == StoreTypeOK => \A r \in Refs : Want(r) \in SUBSET Seats
BY StoreAssumption DEF StoreTypeOK, Want

\* The adjusting scripts never leave a negative counter, nor delete it.
LEMMA AddRemainType ==
    ASSUME StoreTypeOK, NEW n \in Int, AddRemain(n)
    PROVE  remain' \in Nat
BY DEF StoreTypeOK, AddRemain, Counter, Missing

LEMMA SetRemainType ==
    ASSUME StoreTypeOK, NEW n, SetRemain(n)
    PROVE  remain' = n /\ ttl' \in TTLs
BY DEF StoreTypeOK, SetRemain, TTLs

LEMMA DropKeysType ==
    ASSUME StoreTypeOK, NEW S \in SUBSET Seats, DropKeys(S)
    PROVE  /\ seatKey' \in [Seats -> Refs \cup {Nobody, Confirmed}]
           /\ holdSet' \subseteq Seats
           /\ ttl' \in TTLs
BY DEF StoreTypeOK, DropKeys, TTLs

LEMMA TakeKeysType ==
    ASSUME StoreTypeOK, NEW r \in Refs, NEW S \in SUBSET Seats, TakeKeys(r, S)
    PROVE  /\ seatKey' \in [Seats -> Refs \cup {Nobody, Confirmed}]
           /\ ttl' \in TTLs
BY DEF StoreTypeOK, TakeKeys, FreeKeys, TTLs

-----------------------------------------------------------------------------
(* write-api requests                                                      *)

\* Which step of a request may write what.
LEMMA CommitWrites ==
    ASSUME NEW r \in Refs, CommitStep(r)
    PROVE  /\ UNCHANGED <<req, dbVars, result>>
           /\ \/ SeedWrite(r) \/ GatePass(r) \/ MarkSoldOut(r) \/ HoldAll(r)
              \/ HoldPart(r) \/ MarkHold(r) \/ ReleaseWrite(r)
              \/ ReleaseRestore(r) \/ UndoDecrement(r) \/ UNCHANGED cacheVars
           /\ \/ TakeTicket(r) \/ SendOk(r) \/ SendFails(r) \/ NoteQueued(r)
              \/ UNCHANGED <<answerVars, queueVars>>
           /\ SeedNeeded(r) \/ SeedRead(r) \/ SeedWrite(r) \/ UNCHANGED seed
           /\ HoldAll(r) \/ HoldPart(r) \/ ReleaseRestore(r) \/ SendFails(r)
              \/ UNCHANGED held
           /\ ReleaseRead(r) \/ ReleaseRestore(r) \/ UNCHANGED mine
           /\ SendFails(r) \/ UNCHANGED failing
           /\ TakeTicket(r) \/ UNCHANGED ticket
           /\ \E pc \in CommitPCs : GoTo(r, pc)
BY DEF CommitPCs, Running, Refused, GoTo, CommitStep, SeedNotNeeded, SeedNeeded, SeedRead, SeedWrite, PermitDenied,
      SkipHold, GatePass, GateFull, GateFailsOpen, MarkSoldOut,
      CheckConfirmed, HoldAll, HoldPart, HoldFailsOpen, MarkHold, ReleaseRead,
      ReleaseWrite, ReleaseRestore, UndoDecrement, TakeTicket, SendOk,
      SendFails, NoteQueued

LEMMA CommitStoreType ==
    ASSUME StoreTypeOK, CommitTypeOK, NEW r \in Refs, CommitStep(r)
    PROVE  StoreTypeOK'
<1>0. /\ Want(r) \in SUBSET Seats
      /\ Cardinality(Want(r)) \in Nat
      /\ Cardinality(mine[r]) \in Nat
      /\ seed[r].val \in Nat
  BY WantType, SeatCount DEF CommitTypeOK
<1>1. CASE SeedWrite(r)
  BY <1>0, <1>1, SetRemainType DEF SeedWrite, StoreTypeOK
<1>2. CASE GatePass(r)
  <2>1. remain' \in Nat
    BY <1>0, <1>2, AddRemainType DEF GatePass
  <2> QED BY <1>2, <2>1 DEF GatePass, StoreTypeOK
<1>3. CASE MarkSoldOut(r)
  BY <1>3 DEF MarkSoldOut, StoreTypeOK, TTLs
<1>4. CASE HoldAll(r)
  BY <1>0, <1>4, TakeKeysType DEF HoldAll, StoreTypeOK
<1>5. CASE HoldPart(r)
  <2>1. TakeKeys(r, Want(r)) /\ UNCHANGED <<req, holdSet, holdMeta, remain, dirty, dbVars>>
    BY <1>5 DEF HoldPart
  <2> QED BY <1>0, <2>1, TakeKeysType DEF StoreTypeOK
<1>6. CASE MarkHold(r)
  <2>1. held[r] \in SUBSET Seats
    BY DEF CommitTypeOK
  <2>2. /\ holdSet' \subseteq Seats
        /\ holdMeta' \in [Refs -> SUBSET Seats]
    BY <1>6, <2>1 DEF MarkHold, StoreTypeOK
  <2>3. ASSUME NEW h \in BOOLEAN
        PROVE  [ttl EXCEPT !.holds = h, !.metas = ttl.metas \cup {r}] \in TTLs
    BY DEF StoreTypeOK, TTLs
  <2>4. (IF held[r] = {} THEN ttl.holds ELSE TRUE) \in BOOLEAN
    BY DEF StoreTypeOK, TTLs
  <2>5. ttl' \in TTLs
    BY <1>6, <2>3, <2>4 DEF MarkHold, StoreTypeOK
  <2> QED BY <1>6, <2>2, <2>5 DEF MarkHold, StoreTypeOK
<1>7. CASE ReleaseWrite(r)
  <2>1. mine[r] \in SUBSET Seats
    BY DEF CommitTypeOK
  <2> QED BY <1>7, <2>1, DropKeysType DEF ReleaseWrite, StoreTypeOK
<1>8. CASE ReleaseRestore(r)
  <2>1. remain' \in Nat \cup {Missing}
    BY <1>0, <1>8, AddRemainType DEF ReleaseRestore, StoreTypeOK
  <2>2. dirty' \in BOOLEAN
    BY <1>8 DEF ReleaseRestore, StoreTypeOK
  <2> QED BY <1>8, <2>1, <2>2 DEF ReleaseRestore, StoreTypeOK
<1>9. CASE UndoDecrement(r)
  <2>1. remain' \in Nat \cup {Missing}
    BY <1>0, <1>9, AddRemainType DEF UndoDecrement, StoreTypeOK
  <2>2. dirty' \in BOOLEAN
    BY <1>9 DEF UndoDecrement, StoreTypeOK
  <2> QED BY <1>9, <2>1, <2>2 DEF UndoDecrement, StoreTypeOK
<1>10. CASE UNCHANGED cacheVars
  BY <1>10, CommitWrites DEF StoreTypeOK
<1> QED
  BY CommitWrites, <1>1, <1>2, <1>3, <1>4, <1>5, <1>6, <1>7, <1>8, <1>9, <1>10

LEMMA CommitLocalsType ==
    ASSUME StoreTypeOK, AnswerTypeOK, CommitTypeOK, NEW r \in Refs, CommitStep(r)
    PROVE  CommitTypeOK'
<1>1. cpc' \in [Refs -> CommitPCs]
  BY CommitWrites DEF CommitTypeOK, GoTo
<1>2. seed' \in [Refs -> [was : {"ok", "missing", "stuck"}, val : Nat]]
  <2>1. CASE SeedNeeded(r) \/ SeedWrite(r)
    BY <2>1 DEF CommitTypeOK, NoSeed, SeedNeeded, SeedWrite
  <2>2. CASE SeedRead(r)
    <3>1. [was |-> seed[r].was, val |-> dbRemain]
              \in [was : {"ok", "missing", "stuck"}, val : Nat]
      BY DEF CommitTypeOK, StoreTypeOK
    <3> QED BY <2>2, <3>1 DEF CommitTypeOK, SeedRead
  <2> QED BY CommitWrites, <2>1, <2>2 DEF CommitTypeOK
<1>3. held' \in [Refs -> SUBSET Seats]
  <2>1. Want(r) \in SUBSET Seats
    BY WantType
  <2>2. CASE HoldAll(r) \/ HoldPart(r)
    <3>1. PICK S \in SUBSET Want(r) : held' = [held EXCEPT ![r] = S]
      BY <2>2 DEF HoldAll, HoldPart, FreeKeys
    <3> QED BY <2>1, <3>1 DEF CommitTypeOK
  <2>3. CASE ReleaseRestore(r) \/ SendFails(r)
    BY <2>1, <2>3 DEF CommitTypeOK, ReleaseRestore, SendFails
  <2> QED BY CommitWrites, <2>2, <2>3 DEF CommitTypeOK
<1>4. mine' \in [Refs -> SUBSET Seats]
  <2>1. CASE ReleaseRead(r)
    BY <2>1 DEF CommitTypeOK, ReleaseRead, OwnedBy
  <2>2. CASE ReleaseRestore(r)
    BY <2>2 DEF CommitTypeOK, ReleaseRestore
  <2> QED BY CommitWrites, <2>1, <2>2 DEF CommitTypeOK
<1>5. failing' \in [Refs -> BOOLEAN]
  BY CommitWrites DEF CommitTypeOK, SendFails
<1>6. ticket' \in [Refs -> Nat]
  <2>1. CASE TakeTicket(r)
    BY <2>1 DEF CommitTypeOK, AnswerTypeOK, TakeTicket
  <2> QED BY CommitWrites, <2>1 DEF CommitTypeOK
<1> QED BY <1>1, <1>2, <1>3, <1>4, <1>5, <1>6 DEF CommitTypeOK

LEMMA CommitSharedType ==
    ASSUME AnswerTypeOK, QueueTypeOK, CommitTypeOK, NEW r \in Refs, CommitStep(r)
    PROVE  AnswerTypeOK' /\ QueueTypeOK'
<1>1. CASE TakeTicket(r)
  BY <1>1 DEF TakeTicket, AnswerTypeOK, QueueTypeOK
<1>2. CASE SendOk(r)
  BY <1>2 DEF SendOk, Enqueue, AnswerTypeOK, QueueTypeOK
<1>3. CASE SendFails(r)
  BY <1>3 DEF SendFails, Enqueue, AnswerTypeOK, QueueTypeOK
<1>4. CASE NoteQueued(r)
  BY <1>4 DEF NoteQueued, CommitTypeOK, AnswerTypeOK, QueueTypeOK
<1>5. CASE UNCHANGED <<answerVars, queueVars>>
  BY <1>5 DEF AnswerTypeOK, QueueTypeOK
<1> QED
  BY CommitWrites, <1>1, <1>2, <1>3, <1>4, <1>5
-----------------------------------------------------------------------------
(* worker-svc deliveries                                                   *)

\* Which step of a delivery may write what.
LEMMA WorkerWrites ==
    ASSUME NEW d \in Deliveries, WorkerStep(d)
    PROVE  /\ UNCHANGED req
           /\ FinalizeWrite(d) \/ GiveBack(d) \/ UNCHANGED cacheVars
           /\ Commit(d) \/ CloseShow(d) \/ UNCHANGED dbVars
           /\ Commit(d) \/ UNCHANGED <<booking, rows, payment, low>>
           /\ (\E pc \in {"put", "pollPut", "failPut"} : Put(d, pc))
              \/ UNCHANGED answerVars
           /\ Acknowledge(d) \/ UNCHANGED queueVars
           /\ (\E code \in Codes : Decide(d, code)) \/ UNCHANGED verdict
           /\ FinalizeRead(d) \/ UNCHANGED owned
           /\ \E pc \in HandlerPCs : Go(d, pc)
BY DEF WorkerStep, Codes, HandlerPCs, Working, Go, Decide, AfterFinalize,
       CheckResult, ConnectFails, CheckSeats, Commit, FindCommitted, Conflict,
       TxnFails, PollDb, KeepOrPut, GuardFailure, Put, PutFails,
       FinalizeNothing, FinalizeRead, FinalizeWrite, FinalizeFails, GiveBack,
       CloseShow, CloseFails, Acknowledge, InsertRows

LEMMA WorkerStoreType ==
    ASSUME StoreTypeOK, WorkerTypeOK, NEW d \in Deliveries, WorkerStep(d)
    PROVE  StoreTypeOK'
<1>0. /\ d[1] \in Refs
      /\ owned[d] \in SUBSET Seats
      /\ Cardinality(owned[d]) \in Nat
  BY SeatCount DEF Deliveries, WorkerTypeOK
<1>1. CASE Commit(d)
  <2>1. {d[1]} \X Want(d[1]) \subseteq Refs \X Seats
    BY <1>0, WantType
  <2> QED BY <1>0, <1>1, <2>1 DEF Commit, InsertRows, Ref, StoreTypeOK
<1>2. CASE FinalizeWrite(d)
  <2>1. seatKey' \in [Seats -> Refs \cup {Nobody, Confirmed}]
    BY <1>2 DEF FinalizeWrite, StoreTypeOK
  <2>2. /\ holdSet' \subseteq Seats
        /\ holdMeta' \in [Refs -> SUBSET Seats]
    BY <1>0, <1>2 DEF FinalizeWrite, StoreTypeOK, Ref
  <2>3. ttl' \in TTLs
    BY <1>0, <1>2 DEF FinalizeWrite, StoreTypeOK, TTLs
  <2> QED BY <1>2, <2>1, <2>2, <2>3 DEF FinalizeWrite, StoreTypeOK
<1>3. CASE GiveBack(d)
  <2>1. remain' \in Nat \cup {Missing}
    BY <1>0, <1>3, AddRemainType DEF GiveBack, StoreTypeOK
  <2> QED BY <1>3, <2>1 DEF GiveBack, StoreTypeOK
<1>4. CASE CloseShow(d)
  BY <1>4 DEF CloseShow, StoreTypeOK
<1>5. CASE UNCHANGED <<cacheVars, dbVars>>
  BY <1>5, WorkerWrites DEF StoreTypeOK
<1>6. Commit(d) \/ FinalizeWrite(d) \/ GiveBack(d) \/ CloseShow(d)
      \/ UNCHANGED <<cacheVars, dbVars>>
  BY WorkerWrites
<1> QED BY <1>1, <1>2, <1>3, <1>4, <1>5, <1>6

LEMMA WorkerSharedType ==
    ASSUME AnswerTypeOK, QueueTypeOK, WorkerTypeOK,
           NEW d \in Deliveries, WorkerStep(d)
    PROVE  AnswerTypeOK' /\ QueueTypeOK'
<1>1. AnswerTypeOK'
  <2>1. ASSUME NEW pc \in {"put", "pollPut", "failPut"}, Put(d, pc)
        PROVE  AnswerTypeOK'
    BY <2>1 DEF Put, StoreResult, Ref, Deliveries, WorkerTypeOK, AnswerTypeOK
  <2> QED BY <2>1, WorkerWrites DEF AnswerTypeOK
<1>2. QueueTypeOK'
  <2>1. CASE Acknowledge(d)
    BY <2>1 DEF Acknowledge, Delete, QueueTypeOK
  <2> QED BY <2>1, WorkerWrites DEF QueueTypeOK
<1> QED BY <1>1, <1>2

LEMMA WorkerLocalsType ==
    ASSUME StoreTypeOK, WorkerTypeOK, NEW d \in Deliveries, WorkerStep(d)
    PROVE  WorkerTypeOK'
<1>1. hpc' \in [Deliveries -> HandlerPCs]
  BY WorkerWrites DEF WorkerTypeOK, Go
<1>2. verdict' \in [Deliveries -> Codes \cup {"none"}]
  BY WorkerWrites DEF WorkerTypeOK, Decide
<1>3. owned' \in [Deliveries -> SUBSET Seats]
  <2>1. CASE FinalizeRead(d)
    <3>1. OwnedBy(Ref(d), holdMeta[Ref(d)]) \in SUBSET Seats
      BY DEF StoreTypeOK, OwnedBy, Ref, Deliveries
    <3> QED BY <2>1, <3>1 DEF FinalizeRead, WorkerTypeOK
  <2> QED BY <2>1, WorkerWrites DEF WorkerTypeOK
<1>4. low' \subseteq Deliveries
  <2>1. CASE Commit(d)
    BY <2>1 DEF Commit, WorkerTypeOK
  <2> QED BY <2>1, WorkerWrites DEF WorkerTypeOK
<1> QED BY <1>1, <1>2, <1>3, <1>4 DEF WorkerTypeOK

-----------------------------------------------------------------------------
(* Refunds                                                                 *)

LEMMA RefundCommitType ==
    ASSUME StoreTypeOK, RefundTypeOK, NEW r \in Refs, RefundCommit(r)
    PROVE  StoreTypeOK' /\ RefundTypeOK'
<1>1. dbRemain' \in Nat
  <2>1. Cardinality(Sold \ SeatsOf(r)) \in Nat
    BY SeatCount DEF Sold
  <2> QED BY <2>1, StoreAssumption DEF RefundCommit, RemainInDb
<1>2. SeatsOf(r) \in SUBSET Seats
  BY DEF SeatsOf
<1>3. StoreTypeOK'
  BY <1>1 DEF RefundCommit, StoreTypeOK
<1>4. RefundTypeOK'
  BY <1>1, <1>2 DEF RefundCommit, RefundTypeOK, Refunding
<1> QED BY <1>3, <1>4

LEMMA RefundStepType ==
    ASSUME StoreTypeOK, RefundTypeOK, NEW r \in Refs, RefundStep(r)
    PROVE  StoreTypeOK' /\ RefundTypeOK'
<1>0. freed[r] \in SUBSET Seats /\ remainTo[r] \in Nat
  BY DEF RefundTypeOK
<1>1. CASE ForgetRemain(r)
  <2>1. remain' \in Nat \cup {Missing} /\ ttl' \in TTLs
    BY <1>1, SetRemainType DEF ForgetRemain, StoreTypeOK
  <2> QED BY <1>1, <2>1 DEF ForgetRemain, StoreTypeOK, RefundTypeOK, Refunding
<1>2. CASE FreeSeats(r)
  <2>1. StoreTypeOK'
    BY <1>0, <1>2, DropKeysType DEF FreeSeats, StoreTypeOK
  <2> QED BY <1>2, <2>1 DEF FreeSeats, RefundTypeOK, Refunding
<1>3. CASE ResetRemain(r)
  <2>1. remain' \in Nat \cup {Missing} /\ ttl' \in TTLs
    BY <1>0, <1>3, SetRemainType DEF ResetRemain, StoreTypeOK
  <2> QED BY <1>3, <2>1 DEF ResetRemain, StoreTypeOK, RefundTypeOK, Refunding
<1> QED BY <1>1, <1>2, <1>3 DEF RefundStep

-----------------------------------------------------------------------------
(* The queue, the clock and crashes                                        *)

LEMMA PollType ==
    ASSUME QueueTypeOK, WorkerTypeOK, NEW B \in SUBSET msgs, Receive(B, GroupOf)
    PROVE  QueueTypeOK' /\ WorkerTypeOK'
<1>1. QueueTypeOK'
  BY QueueAssumption DEF Receive, Deliverable, Deliver, QueueTypeOK
<1>2. WorkerTypeOK'
  BY DEF Receive, WorkerTypeOK, HandlerPCs, Working
<1> QED BY <1>1, <1>2

LEMMA ExpiryType ==
    ASSUME StoreTypeOK, Expiry
    PROVE  StoreTypeOK'
<1>1. ASSUME NEW s \in Seats, ExpireSeat(s)
      PROVE  StoreTypeOK'
  BY <1>1 DEF ExpireSeat, StoreTypeOK, TTLs
<1>2. ASSUME NEW r \in Refs, ExpireMeta(r)
      PROVE  StoreTypeOK'
  BY <1>2 DEF ExpireMeta, StoreTypeOK, TTLs
<1>3. CASE ExpireHoldSet
  BY <1>3 DEF ExpireHoldSet, StoreTypeOK, TTLs
<1>4. CASE ExpireRemain
  BY <1>4 DEF ExpireRemain, StoreTypeOK, TTLs
<1> QED BY <1>1, <1>2, <1>3, <1>4 DEF Expiry

LEMMA CrashType ==
    ASSUME TypeOK, Crash
    PROVE  TypeOK'
<1>1. ASSUME NEW r \in Refs, CommitCrash(r), UNCHANGED <<workerVars, refundVars>>
      PROVE  TypeOK'
  <2>1. CommitTypeOK'
    BY <1>1 DEF TypeOK, CommitTypeOK, CommitCrash, GoTo, CommitPCs, Refused
  <2> QED BY <1>1, <2>1 DEF CommitCrash, TypeOK, StoreTypeOK, AnswerTypeOK,
                            QueueTypeOK, WorkerTypeOK, RefundTypeOK
<1>2. ASSUME NEW d \in Deliveries, WorkerCrash(d), UNCHANGED <<commitVars, refundVars>>
      PROVE  TypeOK'
  <2>1. WorkerTypeOK'
    BY <1>2 DEF TypeOK, WorkerTypeOK, WorkerCrash, Go, HandlerPCs
  <2> QED BY <1>2, <2>1 DEF WorkerCrash, TypeOK, StoreTypeOK, AnswerTypeOK,
                            QueueTypeOK, CommitTypeOK, RefundTypeOK
<1>3. ASSUME NEW r \in Refs, RefundCrash(r), UNCHANGED <<commitVars, workerVars>>
      PROVE  TypeOK'
  <2>1. RefundTypeOK'
    BY <1>3 DEF TypeOK, RefundTypeOK, RefundCrash
  <2> QED BY <1>3, <2>1 DEF RefundCrash, TypeOK, StoreTypeOK, AnswerTypeOK,
                            QueueTypeOK, CommitTypeOK, WorkerTypeOK
<1> QED BY <1>1, <1>2, <1>3 DEF Crash

-----------------------------------------------------------------------------

LEMMA InitType == Init => TypeOK
<1> SUFFICES ASSUME Init PROVE TypeOK
  OBVIOUS
<1> USE DEF Init
<1>1. StoreTypeOK
  BY StoreAssumption DEF StoreInit, StoreTypeOK, TTLs
<1>2. AnswerTypeOK /\ QueueTypeOK
  BY QueueAssumption DEF AnswerInit, AnswerTypeOK, QueueInit, QueueTypeOK
<1>3. CommitTypeOK
  BY DEF CommitInit, CommitTypeOK, CommitPCs, Running, NoSeed
<1>4. WorkerTypeOK
  BY DEF WorkerInit, WorkerTypeOK, HandlerPCs
<1>5. RefundTypeOK
  BY DEF RefundInit, RefundTypeOK
<1> QED BY <1>1, <1>2, <1>3, <1>4, <1>5 DEF TypeOK

LEMMA NextType == TypeOK /\ [Next]_vars => TypeOK'
<1> SUFFICES ASSUME TypeOK, [Next]_vars PROVE TypeOK'
  OBVIOUS
<1>0. /\ StoreTypeOK /\ AnswerTypeOK /\ QueueTypeOK
      /\ CommitTypeOK /\ WorkerTypeOK /\ RefundTypeOK
  BY DEF TypeOK
<1>1. ASSUME NEW r \in Refs, RunCommit(r)
      PROVE  TypeOK'
  <2>1. WorkerTypeOK' /\ RefundTypeOK'
    BY <1>0, <1>1 DEF RunCommit, WorkerTypeOK, RefundTypeOK
  <2> QED BY <1>0, <1>1, <2>1, CommitStoreType, CommitSharedType, CommitLocalsType
          DEF RunCommit, TypeOK
<1>2. ASSUME NEW d \in Deliveries, RunDelivery(d)
      PROVE  TypeOK'
  <2>1. CommitTypeOK' /\ RefundTypeOK'
    BY <1>0, <1>2 DEF RunDelivery, CommitTypeOK, RefundTypeOK
  <2> QED BY <1>0, <1>2, <2>1, WorkerStoreType, WorkerSharedType, WorkerLocalsType
          DEF RunDelivery, TypeOK
<1>3. ASSUME NEW r \in Refs, AskRefund(r)
      PROVE  TypeOK'
  <2>1. AnswerTypeOK' /\ QueueTypeOK' /\ CommitTypeOK' /\ WorkerTypeOK'
    BY <1>0, <1>3 DEF AskRefund, RefundCommit, AnswerTypeOK, QueueTypeOK,
                      CommitTypeOK, WorkerTypeOK
  <2> QED BY <1>0, <1>3, <2>1, RefundCommitType DEF AskRefund, TypeOK
<1>4. ASSUME NEW r \in Refs, RunRefund(r)
      PROVE  TypeOK'
  <2>1. UNCHANGED <<answerVars, queueVars>>
    BY <1>4 DEF RunRefund, RefundStep, ForgetRemain, FreeSeats, ResetRemain
  <2>2. AnswerTypeOK' /\ QueueTypeOK' /\ CommitTypeOK' /\ WorkerTypeOK'
    BY <1>0, <1>4, <2>1 DEF RunRefund, AnswerTypeOK, QueueTypeOK,
                            CommitTypeOK, WorkerTypeOK
  <2> QED BY <1>0, <1>4, <2>2, RefundStepType DEF RunRefund, TypeOK
<1>5. ASSUME NEW r \in Refs, Timeout(r) \/ Redrive(r)
      PROVE  TypeOK'
  <2>1. QueueTypeOK'
    BY <1>0, <1>5 DEF Timeout, VisibilityTimeout, Reappear, Redrive, ToDlq,
                      QueueTypeOK
  <2> QED BY <1>0, <1>5, <2>1
          DEF Timeout, VisibilityTimeout, Redrive, TypeOK, StoreTypeOK,
              AnswerTypeOK, CommitTypeOK, WorkerTypeOK, RefundTypeOK
<1>6. CASE Poll
  <2>1. QueueTypeOK' /\ WorkerTypeOK'
    BY <1>0, <1>6, PollType DEF Poll
  <2> QED BY <1>0, <1>6, <2>1
          DEF Poll, Receive, TypeOK, StoreTypeOK, AnswerTypeOK, CommitTypeOK,
              RefundTypeOK
<1>7. CASE Expiry
  <2>1. UNCHANGED answerVars
    BY <1>7 DEF Expiry, ExpireSeat, ExpireMeta, ExpireHoldSet, ExpireRemain
  <2>2. AnswerTypeOK' /\ QueueTypeOK' /\ CommitTypeOK' /\ WorkerTypeOK' /\ RefundTypeOK'
    BY <1>0, <1>7, <2>1 DEF Expiry, AnswerTypeOK, QueueTypeOK, CommitTypeOK,
                            WorkerTypeOK, RefundTypeOK
  <2> QED BY <1>0, <1>7, <2>2, ExpiryType DEF TypeOK
<1>8. CASE UNCHANGED vars
  BY <1>0, <1>8 DEF vars, TypeOK, StoreTypeOK, AnswerTypeOK, QueueTypeOK,
                    CommitTypeOK, WorkerTypeOK, RefundTypeOK
<1> QED BY <1>1, <1>2, <1>3, <1>4, <1>5, <1>6, <1>7, <1>8, CrashType DEF Next

\* Every variable keeps its type under every fault: no script or pipeline
\* leaves a negative counter, and no delivery is received more than
\* maxReceiveCount times.
THEOREM TypeCorrect == Spec => []TypeOK
BY InitType, NextType, PTL DEF Spec
=============================================================================
