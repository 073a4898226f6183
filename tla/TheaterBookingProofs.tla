------------------------ MODULE TheaterBookingProofs ------------------------
(***************************************************************************)
(* Type correctness of TheaterBooking, its counter, the refinement of      *)
(* SeatLedger, what its clients are told and what their pages show, under  *)
(* every fault.                                                            *)
(***************************************************************************)
EXTENDS TheaterBooking, FiniteSetTheorems, TLAPS

USE DEF dbVars, theaterVars, queueVars, answerVars, commitVars, workerVars,
        refundVars, fillVars

-----------------------------------------------------------------------------
(* Who writes the books                                                    *)

LEMMA BookWriters ==
    ASSUME [Next]_vars
    PROVE  /\ UNCHANGED req
           /\ \/ \E d \in Deliveries : RunDelivery(d) /\ Book(d)
              \/ \E f \in RefundIds : RunRefund(f) /\ RefundCommit(f)
              \/ Startup
              \/ UNCHANGED <<book, remain, status>>
<1>1. ASSUME NEW r \in Refs, RunCommit(r) \/ RunPoll(r) \/ Timeout(r) \/ Redrive(r)
      PROVE  UNCHANGED <<req, book, remain, status>>
  BY <1>1 DEF RunCommit, CommitStep, Send, SendFails, Note, RunPoll, PollStep, PollResult,
              PollMark, Timeout, VisibilityTimeout, Redrive
<1>2. ASSUME NEW d \in Deliveries, RunDelivery(d)
      PROVE  UNCHANGED req /\ (Book(d) \/ UNCHANGED <<book, remain, status>>)
  BY <1>2 DEF RunDelivery, WorkerStep, CheckResult, Begin, Refuse, Book, Put, PutFails,
              ClearMark, DropPages, Acknowledge
<1>3. ASSUME NEW f \in RefundIds, RunRefund(f)
      PROVE  UNCHANGED req /\ (RefundCommit(f) \/ UNCHANGED <<book, remain, status>>)
  BY <1>3 DEF RunRefund, RefundStep, LockBooking, RefundCommit, RefundFails
<1>4. ASSUME NEW x \in Fillers, RunFill(x)
      PROVE  UNCHANGED <<req, book, remain, status>>
  BY <1>4 DEF RunFill, FillStep, Miss, Build, StorePage
<1>5. CASE PollQueue
  BY <1>5 DEF PollQueue, Receive
<1>6. CASE Startup
  BY <1>6 DEF Startup, SyncRemain
<1>7. CASE Crash
  BY <1>7 DEF Crash, CommitCrash, WorkerCrash, FillCrash
<1>8. CASE UNCHANGED vars
  BY <1>8 DEF vars
<1> QED BY <1>1, <1>2, <1>3, <1>4, <1>5, <1>6, <1>7, <1>8 DEF Next

\* A delivery that has not booked has made nothing, and is not received again; a
\* refund that has locked a booking alone may cancel it.
Progress ==
    /\ \A d \in Deliveries : hpc[d] # "idle" => d[2] <= receives[d[1]]
    /\ \A d \in Deliveries : hpc[d] \in {"idle", "start", "begin", "txn"} => book[d] = "none"
    /\ \A f \in RefundIds : fpc[f] = "held" =>
         target[f] \in Deliveries /\ book[target[f]] = "PAID" /\ pin[target[f]] = f

LEMMA NextProgress == TypeOK /\ Progress /\ [Next]_vars => Progress'
<1> SUFFICES ASSUME TypeOK, Progress, [Next]_vars PROVE Progress'
  OBVIOUS
<1> USE DEF TypeOK, TheaterTypeOK, QueueTypeOK, WorkerTypeOK, RefundTypeOK
<1>0. ASSUME UNCHANGED <<book, pin, receives, workerVars, refundVars>>
      PROVE  Progress'
  BY <1>0 DEF Progress
<1>1. ASSUME NEW r \in Refs, RunCommit(r) \/ RunPoll(r) \/ Timeout(r) \/ Redrive(r)
      PROVE  Progress'
  BY <1>0, <1>1 DEF RunCommit, CommitStep, Send, SendFails, Note, Enqueue, RunPoll, PollStep,
              PollResult, PollMark, Timeout, VisibilityTimeout, Reappear, Redrive, ToDlq
<1>2. ASSUME NEW d \in Deliveries, RunDelivery(d)
      PROVE  Progress'
  <2>1. UNCHANGED <<pin, receives, refundVars>>
    BY <1>2 DEF RunDelivery, WorkerStep, CheckResult, Begin, Refuse, Book, Put, PutFails,
                ClearMark, DropPages, Acknowledge, Delete
  <2>2. hpc[d] # "idle" /\ \E pc : hpc' = [hpc EXCEPT ![d] = pc]
    BY <1>2 DEF RunDelivery, WorkerStep, CheckResult, Begin, Refuse, Book, Put, PutFails,
                ClearMark, DropPages, Acknowledge, In, Go, Decide
  <2>3. CASE Book(d)
    <3>1. book' = [book EXCEPT ![d] = "PAID"] /\ hpc' = [hpc EXCEPT ![d] = "put"]
          /\ book[d] = "none"
      BY <2>3 DEF Book, Decide, Go, In, Progress
    <3> QED BY <2>1, <2>2, <3>1 DEF Progress
  <2>4. CASE UNCHANGED book
    <3>1. hpc'[d] \in {"idle", "start", "begin", "txn"} => book[d] = "none"
      BY <1>2, <2>4 DEF RunDelivery, WorkerStep, CheckResult, Begin, Refuse, Put, PutFails,
                ClearMark, DropPages, Acknowledge, In, Go, Decide, Book, Progress
    <3> QED BY <2>1, <2>2, <2>4, <3>1 DEF Progress
  <2> QED BY <1>2, <2>3, <2>4 DEF RunDelivery, WorkerStep, CheckResult, Begin, Refuse, Put,
                                  PutFails, ClearMark, DropPages, Acknowledge
<1>3. ASSUME NEW f \in RefundIds, RunRefund(f)
      PROVE  Progress'
  <2>0. UNCHANGED <<receives, workerVars>>
    BY <1>3 DEF RunRefund
  <2>1. CASE LockBooking(f)
    BY <2>0, <2>1, TheaterAssumption DEF LockBooking, Progress
  <2>2. CASE RefundCommit(f) \/ RefundFails(f)
    <3>1. fpc[f] = "held" /\ fpc' = [fpc EXCEPT ![f] = "over"] /\ UNCHANGED target
          /\ pin' = [pin EXCEPT ![target[f]] = Nobody]
          /\ (UNCHANGED book \/ book' = [book EXCEPT ![target[f]] = "CANCEL"])
      BY <2>2 DEF RefundCommit, RefundFails
    <3>2. \A d \in Deliveries : book[d] = "none" => book'[d] = "none"
      BY <3>1 DEF Progress
    <3> QED BY <2>0, <3>1, <3>2 DEF Progress
  <2> QED BY <1>3, <2>1, <2>2 DEF RunRefund, RefundStep
<1>4. ASSUME NEW x \in Fillers, RunFill(x)
      PROVE  Progress'
  BY <1>0, <1>4 DEF RunFill, FillStep, Miss, Build, StorePage
<1>5. CASE PollQueue
  <2>1. PICK B \in SUBSET msgs : Receive(B, GroupOf)
    BY <1>5 DEF PollQueue
  <2>2. UNCHANGED <<book, pin, refundVars>>
    BY <1>5, <2>1 DEF PollQueue, Receive
  <2>3. \A d \in Deliveries :
          /\ hpc'[d] = IF d[1] \in B /\ d[2] = receives[d[1]] + 1 THEN "start" ELSE hpc[d]
          /\ receives'[d[1]] = IF d[1] \in B THEN receives[d[1]] + 1 ELSE receives[d[1]]
          /\ d[2] \in Int /\ receives[d[1]] \in Int
    BY <2>1, QueueAssumption DEF Receive, Deliver, Deliveries
  <2>4. ASSUME NEW d \in Deliveries
        PROVE  /\ hpc'[d] # "idle" => d[2] <= receives'[d[1]]
               /\ hpc'[d] \in {"idle", "start", "begin", "txn"} => book[d] = "none"
    <3>1. CASE d[1] \in B /\ d[2] = receives[d[1]] + 1
      <4>1. hpc[d] = "idle"
        BY <2>3, <3>1 DEF Progress
      <4> QED BY <2>3, <3>1, <4>1 DEF Progress
    <3>2. CASE ~(d[1] \in B /\ d[2] = receives[d[1]] + 1)
      BY <2>3, <3>2 DEF Progress
    <3> QED BY <3>1, <3>2
  <2> QED BY <2>2, <2>4 DEF Progress
<1>6. CASE Startup
  BY <1>0, <1>6 DEF Startup, SyncRemain
<1>7. CASE Crash
  <2>1. ASSUME NEW d \in Deliveries, WorkerCrash(d), UNCHANGED refundVars
        PROVE  Progress'
    <3>1. hpc[d] # "idle" /\ hpc' = [hpc EXCEPT ![d] = "over"]
          /\ UNCHANGED <<book, pin, receives>>
      BY <2>1 DEF WorkerCrash, Go, Working
    <3> QED BY <2>1, <3>1 DEF Progress
  <2> QED BY <1>0, <1>7, <2>1 DEF Crash, CommitCrash, FillCrash
<1>8. CASE UNCHANGED vars
  BY <1>0, <1>8 DEF vars
<1> QED BY <1>1, <1>2, <1>3, <1>4, <1>5, <1>6, <1>7, <1>8 DEF Next

-----------------------------------------------------------------------------
(* The books                                                               *)

\* Every ACTIVE seat has one booking, and is one of the hall.
Books ==
    /\ \A a, b \in Deliveries : a # b => SeatsOf(a) \cap SeatsOf(b) = {}
    /\ \A d \in Deliveries : SeatsOf(d) \subseteq Hall
    /\ RemainExact

LEMMA WantType ==
    ASSUME TheaterTypeOK
    PROVE  \A d \in Deliveries : Want(d) \in (SUBSET Seats) \ {{}}
BY TheaterAssumption DEF TheaterTypeOK, Want, Deliveries

LEMMA HallFinite == IsFiniteSet(Hall) /\ Cardinality(Hall) \in Nat \ {0}
BY TheaterAssumption, FS_Subset, FS_CardinalityType, FS_EmptySet

\* The two transactions that change the books, as they change them.
LEMMA BookAdds ==
    ASSUME TypeOK, Progress, Books, NEW d \in Deliveries, Book(d)
    PROVE  /\ book[d] = "none" /\ book' = [book EXCEPT ![d] = "PAID"]
           /\ UNCHANGED req
           /\ Want(d) \cap Active = {} /\ Want(d) \subseteq Hall
           /\ \A e \in Deliveries : SeatsOf(e)' = IF e = d THEN Want(d) ELSE SeatsOf(e)
           /\ Active' = Active \cup Want(d)
<1> USE DEF TypeOK, TheaterTypeOK
<1>1. /\ book[d] = "none" /\ book' = [book EXCEPT ![d] = "PAID"] /\ UNCHANGED req
      /\ Want(d) \subseteq Hall /\ Rivals(d) = {}
  BY DEF Book, In, Progress
<1>2. Want(d) \cap Active = {}
  BY <1>1 DEF Active, Rivals
<1>3. \A e \in Deliveries : SeatsOf(e)' = IF e = d THEN Want(d) ELSE SeatsOf(e)
  BY <1>1 DEF SeatsOf, Want
<1>4. SeatsOf(d) = {}
  BY <1>1 DEF SeatsOf
<1>5. Active' = Active \cup Want(d)
  BY <1>3, <1>4 DEF Active
<1> QED BY <1>1, <1>2, <1>3, <1>5

LEMMA RefundTakes ==
    ASSUME TypeOK, Progress, Books, NEW f \in RefundIds, RefundCommit(f)
    PROVE  /\ target[f] \in Deliveries
           /\ book[target[f]] = "PAID" /\ book' = [book EXCEPT ![target[f]] = "CANCEL"]
           /\ UNCHANGED req
           /\ SeatsOf(target[f]) = Want(target[f])
           /\ \A e \in Deliveries : SeatsOf(e)' = IF e = target[f] THEN {} ELSE SeatsOf(e)
           /\ Active' = Active \ Want(target[f])
<1> USE DEF TypeOK, TheaterTypeOK
<1>1. /\ target[f] \in Deliveries /\ book[target[f]] = "PAID"
      /\ book' = [book EXCEPT ![target[f]] = "CANCEL"] /\ UNCHANGED req
  BY DEF RefundCommit, Progress
<1>2. SeatsOf(target[f]) = Want(target[f])
  BY <1>1 DEF SeatsOf
<1>3. \A e \in Deliveries : SeatsOf(e)' = IF e = target[f] THEN {} ELSE SeatsOf(e)
  BY <1>1 DEF SeatsOf, Want
<1>4. \A e \in Deliveries : e # target[f] => SeatsOf(e) \cap Want(target[f]) = {}
  BY <1>1, <1>2 DEF Books
<1>5. Active' = Active \ Want(target[f])
  BY <1>1, <1>2, <1>3, <1>4 DEF Active
<1> QED BY <1>1, <1>2, <1>3, <1>5

LEMMA NextBooks == TypeOK /\ Progress /\ Books /\ [Next]_vars => Books'
<1> SUFFICES ASSUME TypeOK, Progress, Books, [Next]_vars PROVE Books'
  OBVIOUS
<1>0. /\ Active \subseteq Hall /\ IsFiniteSet(Active) /\ Cardinality(Active) \in Nat
      /\ Cardinality(Active) <= Total /\ Total \in Nat
  BY HallFinite, FS_Subset, FS_CardinalityType DEF Books, Active, Total
<1>1. ASSUME NEW d \in Deliveries, Book(d)
      PROVE  Books'
  <2>1. IsFiniteSet(Want(d)) /\ Cardinality(Want(d)) \in Nat
    BY <1>1, BookAdds, HallFinite, FS_Subset, FS_CardinalityType
  <2>2. Cardinality(Active') = Cardinality(Active) + Cardinality(Want(d))
    <3>1. Active' = Active \cup Want(d) /\ Active \cap Want(d) = {}
      BY <1>1, BookAdds
    <3> QED BY <1>0, <2>1, <3>1, FS_Union, FS_EmptySet
  <2>3. RemainExact'
    BY <1>0, <1>1, <2>1, <2>2 DEF Book, Enough, Books, RemainExact
  <2>4. \A e \in Deliveries : SeatsOf(e) \subseteq Active
    BY DEF Active
  <2> QED BY <1>1, <2>3, <2>4, BookAdds DEF Books
<1>2. ASSUME NEW f \in RefundIds, RefundCommit(f)
      PROVE  Books'
  <2>1. Want(target[f]) \subseteq Active /\ IsFiniteSet(Want(target[f]))
        /\ Cardinality(Want(target[f])) \in Nat
    BY <1>0, <1>2, RefundTakes, FS_Subset, FS_CardinalityType DEF Active
  <2>2. IsFiniteSet(Active') /\ Cardinality(Active') \in Nat
    BY <1>0, <1>2, RefundTakes, FS_Subset, FS_CardinalityType
  <2>3. Cardinality(Active) = Cardinality(Active') + Cardinality(Want(target[f]))
    <3>1. Active = Active' \cup Want(target[f]) /\ Active' \cap Want(target[f]) = {}
      BY <1>2, <2>1, RefundTakes
    <3> QED BY <2>1, <2>2, <3>1, FS_Union, FS_EmptySet
  <2>4. RemainExact'
    BY <1>0, <1>2, <2>1, <2>2, <2>3 DEF RefundCommit, Books, RemainExact
  <2> QED BY <1>2, <2>4, RefundTakes DEF Books
<1>3. CASE Startup
  <2>1. UNCHANGED <<req, book>> /\ RemainExact'
    BY <1>0, <1>3 DEF Startup, SyncRemain, RemainExact, Active, SeatsOf, Want
  <2> QED BY <2>1 DEF Books, SeatsOf, Want
<1>4. CASE UNCHANGED <<req, book, remain, status>>
  BY <1>4 DEF Books, RemainExact, Active, SeatsOf, Want
<1> QED BY <1>1, <1>2, <1>3, <1>4, BookWriters

\* The counter the schema bounds.
LEMMA RemainType == Books => remain \in 0..Total
<1> SUFFICES ASSUME Books PROVE remain \in 0..Total
  OBVIOUS
<1>1. Active \subseteq Hall
  BY DEF Books, Active
<1>2. Cardinality(Active) \in Nat /\ Cardinality(Active) <= Total /\ Total \in Nat
  BY <1>1, HallFinite, FS_Subset, FS_CardinalityType DEF Total
<1> QED BY <1>2 DEF Books, RemainExact

-----------------------------------------------------------------------------
(* Types                                                                   *)

LEMMA QueueSteps ==
    ASSUME QueueTypeOK, NEW r \in Refs
    PROVE  /\ Enqueue(r) => QueueTypeOK'
           /\ \A k : Delete(r, k) => QueueTypeOK'
           /\ Reappear(r) => QueueTypeOK'
           /\ ToDlq(r) => QueueTypeOK'
BY DEF QueueTypeOK, Enqueue, Delete, Reappear, ToDlq

LEMMA DeliverType ==
    ASSUME QueueTypeOK, NEW B \in SUBSET msgs, NEW group, Deliverable(B, group), Deliver(B)
    PROVE  QueueTypeOK'
<1>1. \A r \in B : receives[r] + 1 \in 0..MaxReceive
  BY QueueAssumption DEF QueueTypeOK, Deliverable
<1> QED BY <1>1 DEF QueueTypeOK, Deliver

\* The parts of TypeOK a step leaves alone.
LEMMA Kept ==
    /\ QueueTypeOK /\ UNCHANGED queueVars => QueueTypeOK'
    /\ AnswerTypeOK /\ UNCHANGED answerVars => AnswerTypeOK'
    /\ CommitTypeOK /\ UNCHANGED commitVars => CommitTypeOK'
    /\ WorkerTypeOK /\ UNCHANGED workerVars => WorkerTypeOK'
    /\ RefundTypeOK /\ UNCHANGED refundVars => RefundTypeOK'
    /\ FillTypeOK /\ UNCHANGED fillVars => FillTypeOK'
BY DEF QueueTypeOK, AnswerTypeOK, CommitTypeOK, WorkerTypeOK, RefundTypeOK, FillTypeOK

LEMMA CommitTypes ==
    ASSUME TypeOK, NEW r \in Refs, CommitStep(r) \/ PollStep(r)
    PROVE  TheaterTypeOK' /\ QueueTypeOK' /\ AnswerTypeOK' /\ CommitTypeOK'
<1> USE DEF TypeOK
<1>1. UNCHANGED theaterVars /\ (Enqueue(r) \/ UNCHANGED queueVars)
  BY DEF CommitStep, Send, SendFails, Note, PollStep, PollResult, PollMark
<1>2. TheaterTypeOK' /\ QueueTypeOK'
  BY <1>1, QueueSteps, Kept DEF TheaterTypeOK
<1>3. AnswerTypeOK'
  BY DEF CommitStep, Send, SendFails, Note, PollStep, PollResult, PollMark,
         AnswerTypeOK, QueueTypeOK
<1>4. CommitTypeOK'
  BY DEF CommitStep, Send, SendFails, Note, GoTo, PollStep, PollResult, PollMark,
         CommitTypeOK, AnswerTypeOK, Sent
<1> QED BY <1>2, <1>3, <1>4

LEMMA WorkerTypes ==
    ASSUME TypeOK, remain' \in 0..Total, NEW d \in Deliveries, WorkerStep(d)
    PROVE  TheaterTypeOK' /\ QueueTypeOK' /\ AnswerTypeOK' /\ WorkerTypeOK'
<1> USE DEF TypeOK
<1>0. d[1] \in Refs
  BY DEF Deliveries
<1>1. QueueTypeOK'
  <2>1. UNCHANGED queueVars \/ \E k : Delete(d[1], k)
    BY DEF WorkerStep, CheckResult, Begin, Refuse, Book, Put, PutFails, ClearMark,
           DropPages, Acknowledge, Ref
  <2> QED BY <1>0, <2>1, QueueSteps, Kept
<1>2. WorkerTypeOK'
  BY <1>0 DEF WorkerStep, CheckResult, Begin, Refuse, Book, Put, PutFails, ClearMark,
         DropPages, Acknowledge, Ref, Go, Decide, WorkerTypeOK, Working, Codes
<1>3. AnswerTypeOK'
  <2>1. CASE Put(d)
    BY <1>0, <2>1 DEF Put, In, Ref, AnswerTypeOK, WorkerTypeOK, Codes
  <2>2. CASE ClearMark(d)
    BY <1>0, <2>2 DEF ClearMark, Ref, AnswerTypeOK
  <2>3. CASE UNCHANGED answerVars
    BY <2>3, Kept
  <2> QED BY <2>1, <2>2, <2>3 DEF WorkerStep, CheckResult, Begin, Refuse, Book, PutFails,
                                  DropPages, Acknowledge
<1>4. TheaterTypeOK'
  <2>1. CASE Begin(d) \/ Refuse(d)
    BY <2>1 DEF Begin, Refuse, TheaterTypeOK
  <2>2. CASE Book(d)
    BY <2>2 DEF Book, Announce, TheaterTypeOK
  <2>3. CASE DropPages(d)
    BY <2>3 DEF DropPages, TheaterTypeOK, Pages
  <2>4. CASE UNCHANGED theaterVars
    BY <2>4 DEF TheaterTypeOK
  <2> QED BY <2>1, <2>2, <2>3, <2>4
         DEF WorkerStep, CheckResult, Put, PutFails, ClearMark, Acknowledge
<1> QED BY <1>1, <1>2, <1>3, <1>4

LEMMA RefundTypes ==
    ASSUME TypeOK, Progress, remain' \in 0..Total, NEW f \in RefundIds, RefundStep(f)
    PROVE  TheaterTypeOK' /\ RefundTypeOK' /\ FillTypeOK'
<1> USE DEF TypeOK
<1>1. CASE LockBooking(f)
  <2>1. TheaterTypeOK' /\ FillTypeOK'
    BY <1>1 DEF LockBooking, TheaterTypeOK, FillTypeOK
  <2>2. RefundTypeOK'
    BY <1>1 DEF LockBooking, RefundTypeOK
  <2> QED BY <2>1, <2>2
<1>2. CASE RefundCommit(f)
  <2>1. target[f] \in Deliveries
    BY <1>2 DEF RefundCommit, Progress
  <2>2. TheaterTypeOK'
    BY <1>2, <2>1 DEF RefundCommit, Announce, TheaterTypeOK
  <2>3. RefundTypeOK' /\ FillTypeOK'
    BY <1>2 DEF RefundCommit, BeginFill, RefundTypeOK, FillTypeOK, Pages
  <2> QED BY <2>2, <2>3
<1>3. CASE RefundFails(f)
  BY <1>3 DEF RefundFails, TheaterTypeOK, RefundTypeOK, FillTypeOK
<1> QED BY <1>1, <1>2, <1>3 DEF RefundStep

LEMMA FillTypes ==
    ASSUME TypeOK, NEW x \in Fillers, FillStep(x) \/ FillCrash(x)
    PROVE  TheaterTypeOK' /\ FillTypeOK'
<1> USE DEF TypeOK
<1>0. Len(history) \in Nat
  BY DEF TheaterTypeOK
<1>1. CASE Miss(x)
  BY <1>1 DEF Miss, BeginFill, TheaterTypeOK, FillTypeOK
<1>2. CASE Build(x)
  BY <1>0, <1>2 DEF Build, TheaterTypeOK, FillTypeOK, Pages
<1>3. ASSUME NEW page \in Pages, StorePage(x, page)
      PROVE  TheaterTypeOK' /\ FillTypeOK'
  <2>1. TheaterTypeOK'
    <3>1. UNCHANGED <<req, dbVars>>
      BY <1>3 DEF StorePage
    <3>2. cache' \in [Pages -> Nat \cup {Missing, Late}]
      BY <1>3 DEF StorePage, TheaterTypeOK, FillTypeOK
    <3>3. owing' \in [Pages -> SUBSET (Deliveries \cup RefundIds)]
      BY <1>3 DEF StorePage, TheaterTypeOK
    <3> QED BY <3>1, <3>2, <3>3 DEF TheaterTypeOK
  <2>2. FillTypeOK'
    BY <1>3 DEF StorePage, FillTypeOK, Pages
  <2> QED BY <2>1, <2>2
<1>4. CASE FillCrash(x)
  BY <1>4 DEF FillCrash, TheaterTypeOK, FillTypeOK
<1> QED BY <1>1, <1>2, <1>3, <1>4 DEF FillStep

LEMMA NextTypes == TypeOK /\ Progress /\ Books' /\ [Next]_vars => TypeOK'
<1> SUFFICES ASSUME TypeOK, Progress, Books', [Next]_vars PROVE TypeOK'
  OBVIOUS
<1> USE DEF TypeOK
<1>0. remain' \in 0..Total
  <2>1. Books' => (remain \in 0..Total)'
    BY RemainType, PTL
  <2> QED BY <2>1 DEF Total
<1>1. ASSUME NEW r \in Refs, RunCommit(r) \/ RunPoll(r)
      PROVE  TypeOK'
  BY <1>1, CommitTypes, Kept DEF RunCommit, RunPoll
<1>2. ASSUME NEW r \in Refs, Timeout(r) \/ Redrive(r)
      PROVE  TypeOK'
  BY <1>2, QueueSteps, Kept DEF Timeout, VisibilityTimeout, Redrive, TheaterTypeOK
<1>3. ASSUME NEW d \in Deliveries, RunDelivery(d)
      PROVE  TypeOK'
  BY <1>0, <1>3, WorkerTypes, Kept DEF RunDelivery
<1>4. ASSUME NEW f \in RefundIds, RunRefund(f)
      PROVE  TypeOK'
  BY <1>0, <1>4, RefundTypes, Kept DEF RunRefund
<1>5. ASSUME NEW x \in Fillers, RunFill(x)
      PROVE  TypeOK'
  BY <1>5, FillTypes, Kept DEF RunFill
<1>6. CASE PollQueue
  <2>1. PICK B \in SUBSET msgs : Receive(B, GroupOf)
    BY <1>6 DEF PollQueue
  <2>2. QueueTypeOK'
    BY <2>1, DeliverType DEF Receive
  <2>3. WorkerTypeOK'
    BY <2>1 DEF Receive, WorkerTypeOK, Working
  <2> QED BY <1>6, <2>1, <2>2, <2>3, Kept DEF PollQueue, Receive, TheaterTypeOK
<1>7. CASE Startup
  BY <1>0, <1>7, Kept DEF Startup, SyncRemain, TheaterTypeOK
<1>8. CASE Crash
  <2>1. ASSUME NEW r \in Refs, CommitCrash(r), UNCHANGED <<workerVars, refundVars, fillVars>>
        PROVE  TypeOK'
    BY <2>1, Kept DEF CommitCrash, GoTo, CommitTypeOK, TheaterTypeOK
  <2>2. ASSUME NEW d \in Deliveries, WorkerCrash(d),
               UNCHANGED <<commitVars, refundVars, fillVars>>
        PROVE  TypeOK'
    BY <2>2, Kept DEF WorkerCrash, Go, WorkerTypeOK, TheaterTypeOK
  <2>3. ASSUME NEW x \in Fillers, FillCrash(x),
               UNCHANGED <<queueVars, answerVars, commitVars, workerVars, refundVars>>
        PROVE  TypeOK'
    BY <2>3, FillTypes, Kept
  <2> QED BY <1>8, <2>1, <2>2, <2>3 DEF Crash
<1>9. CASE UNCHANGED vars
  BY <1>9, Kept DEF vars, TheaterTypeOK
<1> QED BY <1>1, <1>2, <1>3, <1>4, <1>5, <1>6, <1>7, <1>8, <1>9 DEF Next

-----------------------------------------------------------------------------
(* The theorems                                                            *)

TheaterInv == TypeOK /\ Progress /\ Books

LEMMA InitTheater == Init => TheaterInv
<1> USE TheaterAssumption, QueueAssumption
<1> SUFFICES ASSUME Init PROVE TheaterInv
  OBVIOUS
<1>1. Active = {} /\ \A d \in Deliveries : SeatsOf(d) = {}
  BY DEF Init, TheaterInit, Active, SeatsOf
<1>2. Books
  <2>1. Cardinality(Active) = 0 /\ Total \in Nat \ {0}
    BY <1>1, FS_EmptySet, HallFinite DEF Total
  <2> QED BY <1>1, <2>1 DEF Init, TheaterInit, Books, RemainExact
<1>3. Progress
  BY DEF Init, TheaterInit, WorkerInit, RefundInit, Progress
<1>4. TheaterTypeOK
  BY HallFinite DEF Init, TheaterInit, TheaterTypeOK, Total
<1>5. QueueTypeOK /\ AnswerTypeOK
  BY DEF Init, QueueInit, AnswerInit, QueueTypeOK, AnswerTypeOK
<1>6. CommitTypeOK /\ WorkerTypeOK
  BY DEF Init, CommitInit, WorkerInit, CommitTypeOK, WorkerTypeOK
<1>7. RefundTypeOK /\ FillTypeOK
  BY DEF Init, RefundInit, FillInit, RefundTypeOK, FillTypeOK, Pages
<1> QED BY <1>2, <1>3, <1>4, <1>5, <1>6, <1>7 DEF TheaterInv, TypeOK

LEMMA NextTheater == TheaterInv /\ [Next]_vars => TheaterInv'
BY NextTypes, NextProgress, NextBooks DEF TheaterInv

LEMMA TheaterInvariant == Spec => []TheaterInv
BY InitTheater, NextTheater, PTL DEF Spec

\* Type correctness; in particular the counter never leaves the bounds the schema
\* puts on it, and no message is received more than maxReceiveCount times.
THEOREM TheaterTypes == Spec => []TypeOK
<1>1. TheaterInv => TypeOK
  BY DEF TheaterInv
<1> QED BY <1>1, TheaterInvariant, PTL

\* However many clients, deliveries and refunds there are and whatever fails, the
\* counter that workers check is what is left of the hall.
THEOREM CounterIsExact == Spec => []RemainExact
<1>1. TheaterInv => RemainExact
  BY DEF TheaterInv, Books
<1> QED BY <1>1, TheaterInvariant, PTL

LEMMA SameCount == \A S : Ledger!Cardinality(S) = Cardinality(S)
BY DEF Ledger!Cardinality, Cardinality

\* The worker's transaction and the refund's, with the queue, the retries and the
\* row locks between them, do what one clerk with a ledger would do.
THEOREM TheaterRefinement == Spec => ImplementsLedger
<1>1. Init => Ledger!Init
  <2> SUFFICES ASSUME Init PROVE Ledger!Init
    OBVIOUS
  <2>1. book = [d \in Deliveries |-> "none"] /\ remain = Total
    BY DEF Init, TheaterInit
  <2>2. \A d \in Deliveries : SeatsOf(d) = {}
    BY <2>1 DEF SeatsOf
  <2>3. Made = {} /\ Held = [d \in Deliveries |-> {}] /\ Ledger!Taken = {}
    BY <2>1, <2>2 DEF Made, Held, Ledger!Taken
  <2>4. remain = Total - Cardinality(Ledger!Taken)
    BY <2>1, <2>3, FS_EmptySet, HallFinite DEF Total
  <2> QED BY <2>3, <2>4, SameCount DEF Ledger!Init
<1>2. TheaterInv /\ [Next]_vars => [Ledger!Next]_Ledger!vars
  <2> SUFFICES ASSUME TheaterInv, [Next]_vars PROVE [Ledger!Next]_Ledger!vars
    OBVIOUS
  <2> USE DEF TheaterInv
  <2>1. Ledger!Taken = Active
    BY DEF Ledger!Taken, Held, Active
  <2>2. TypeOK /\ TheaterTypeOK /\ remain \in Int
    BY HallFinite DEF TypeOK, TheaterTypeOK, Total
  <2>3. ASSUME NEW d \in Deliveries, Book(d)
        PROVE  Ledger!Book(d)
    <3>1. d \notin Made /\ Made' = Made \cup {d}
      BY <2>2, <2>3, BookAdds DEF TheaterTypeOK, Made
    <3>2. Held' = [Held EXCEPT ![d] = Want(d)]
      BY <2>3, BookAdds DEF Held
    <3>3. Want(d) \in (SUBSET (Seats \ Active)) \ {{}}
      BY <2>2, <2>3, WantType, BookAdds
    <3>4. Cardinality(Want(d)) <= remain /\ remain' = remain - Cardinality(Want(d))
      <4>1. IsFiniteSet(Want(d)) /\ Cardinality(Want(d)) \in Nat
        BY <2>3, BookAdds, HallFinite, FS_Subset, FS_CardinalityType
      <4> QED BY <2>2, <2>3, <4>1 DEF Book, Enough
    <3> QED BY <2>1, <3>1, <3>2, <3>3, <3>4, SameCount DEF Ledger!Book
  <2>4. ASSUME NEW f \in RefundIds, RefundCommit(f)
        PROVE  Ledger!Cancel(target[f])
    <3>1. Made' = Made
      BY <2>2, <2>4, RefundTakes DEF TheaterTypeOK, Made
    <3>2. Held' = [Held EXCEPT ![target[f]] = {}]
      BY <2>4, RefundTakes DEF Held
    <3>3. Held[target[f]] = Want(target[f]) /\ Want(target[f]) # {}
      BY <2>2, <2>4, RefundTakes, WantType DEF Held
    <3>4. remain' = remain + Cardinality(Want(target[f]))
      BY <2>4 DEF RefundCommit
    <3> QED BY <3>1, <3>2, <3>3, <3>4, SameCount DEF Ledger!Cancel
  <2>5. CASE Startup
    <3>1. UNCHANGED <<req, book>> /\ remain' = remain
      BY <2>5 DEF Startup, SyncRemain, Books, RemainExact
    <3> QED BY <3>1 DEF Ledger!vars, Made, Held, SeatsOf, Want
  <2>6. CASE UNCHANGED <<book, remain, status>>
    BY <2>6, BookWriters DEF Ledger!vars, Made, Held, SeatsOf, Want
  <2>7. \A f \in RefundIds : RefundCommit(f) => target[f] \in Deliveries
    BY RefundTakes
  <2> QED BY <2>3, <2>4, <2>5, <2>6, <2>7, BookWriters DEF Ledger!Next
<1> QED BY <1>1, <1>2, TheaterInvariant, PTL DEF Spec, Ledger!Spec, ImplementsLedger

-----------------------------------------------------------------------------
(* The cached pages                                                        *)

\* A transaction that is appended to the history owes every page its news.
LEMMA AnnounceOwes ==
    ASSUME TypeOK, StaleIsOwing, NEW x, Announce(x), UNCHANGED cache
    PROVE  StaleIsOwing'
<1>1. /\ history \in Seq(Deliveries \cup RefundIds)
      /\ \A p \in Pages : cache[p] \in Nat \cup {Missing, Late}
  BY DEF TypeOK, TheaterTypeOK
<1>2. /\ Len(history') = Len(history) + 1 /\ Len(history) \in Nat
      /\ \A i \in 1..Len(history) : history'[i] = history[i]
      /\ history'[Len(history) + 1] = x
  BY <1>1 DEF Announce
<1>3. ASSUME NEW p \in Pages, cache[p] >= 0, NEW i \in (cache[p] + 1)..Len(history')
      PROVE  history'[i] \in owing'[p]
  <2>1. owing'[p] = owing[p] \cup {x} /\ cache[p] \in Int
    BY <1>1 DEF Announce, Missing, Late
  <2>2. CASE i = Len(history) + 1
    BY <1>2, <2>1, <2>2
  <2>3. CASE i # Len(history) + 1
    <3>1. i \in (cache[p] + 1)..Len(history) /\ i \in 1..Len(history)
      BY <1>2, <1>3, <2>1, <2>3
    <3> QED BY <1>2, <1>3, <2>1, <3>1 DEF StaleIsOwing
  <2> QED BY <2>2, <2>3
<1> QED BY <1>3 DEF StaleIsOwing

LEMMA NextStale == TypeOK /\ StaleIsOwing /\ [Next]_vars => StaleIsOwing'
<1> SUFFICES ASSUME TypeOK, StaleIsOwing, [Next]_vars PROVE StaleIsOwing'
  OBVIOUS
<1> USE DEF dbVars, theaterVars
<1>0. ASSUME UNCHANGED <<history, cache, owing>>
      PROVE  StaleIsOwing'
  BY <1>0 DEF StaleIsOwing
<1>1. ASSUME NEW r \in Refs, RunCommit(r) \/ RunPoll(r) \/ Timeout(r) \/ Redrive(r)
      PROVE  StaleIsOwing'
  BY <1>0, <1>1 DEF RunCommit, CommitStep, Send, SendFails, Note, RunPoll, PollStep, PollResult,
                    PollMark, Timeout, VisibilityTimeout, Redrive
<1>2. ASSUME NEW d \in Deliveries, RunDelivery(d)
      PROVE  StaleIsOwing'
  <2>1. CASE Book(d)
    BY <2>1, AnnounceOwes DEF Book
  <2>2. CASE DropPages(d)
    <3>1. CASE UNCHANGED <<cache, owing>>
      BY <1>0, <2>2, <3>1 DEF DropPages
    <3>2. CASE \A p \in Pages : cache'[p] = -1
      BY <3>2 DEF StaleIsOwing
    <3> QED BY <2>2, <3>1, <3>2 DEF DropPages, Missing
  <2>3. CASE UNCHANGED <<history, cache, owing>>
    BY <1>0, <2>3
  <2> QED BY <1>2, <2>1, <2>2, <2>3 DEF RunDelivery, WorkerStep, CheckResult, Begin, Refuse,
                                        Put, PutFails, ClearMark, Acknowledge
<1>3. ASSUME NEW f \in RefundIds, RunRefund(f)
      PROVE  StaleIsOwing'
  <2>1. CASE RefundCommit(f)
    BY <2>1, AnnounceOwes DEF RefundCommit
  <2> QED BY <1>0, <1>3, <2>1 DEF RunRefund, RefundStep, LockBooking, RefundFails
<1>4. ASSUME NEW x \in Fillers, RunFill(x)
      PROVE  StaleIsOwing'
  <2>1. ASSUME NEW page \in Pages, StorePage(x, page)
        PROVE  StaleIsOwing'
    <3>1. CASE UNCHANGED <<cache, owing>>
      BY <1>0, <2>1, <3>1 DEF StorePage
    <3>2. CASE /\ cache' = [cache EXCEPT ![page] = IF seen[x] = Len(history)
                                                    THEN seen[x] ELSE Late]
               /\ owing' = [owing EXCEPT ![page] = @ \ {x}]
      <4>1. UNCHANGED history /\ Len(history) \in Nat
        BY <2>1 DEF StorePage, TypeOK, TheaterTypeOK
      <4>2. cache \in [Pages -> Nat \cup {Missing, Late}] /\ DOMAIN owing = Pages
        BY DEF TypeOK, TheaterTypeOK
      <4>3. cache'[page] = Len(history) \/ cache'[page] = -2
        BY <3>2, <4>2 DEF Late
      <4>4. \A p \in Pages \ {page} : cache'[p] = cache[p] /\ owing'[p] = owing[p]
        BY <3>2, <4>2
      <4> QED BY <4>1, <4>3, <4>4 DEF StaleIsOwing
    <3> QED BY <2>1, <3>1, <3>2 DEF StorePage
  <2> QED BY <1>0, <1>4, <2>1 DEF RunFill, FillStep, Miss, Build
<1>5. CASE PollQueue
  BY <1>0, <1>5 DEF PollQueue, Receive
<1>6. CASE Startup
  BY <1>0, <1>6 DEF Startup, SyncRemain
<1>7. CASE Crash
  BY <1>0, <1>7 DEF Crash, CommitCrash, WorkerCrash, FillCrash
<1>8. CASE UNCHANGED vars
  BY <1>0, <1>8 DEF vars
<1> QED BY <1>1, <1>2, <1>3, <1>4, <1>5, <1>6, <1>7, <1>8 DEF Next

\* A page is never stale without someone who is still to announce what it lacks,
\* or who failed before it could.
THEOREM StalePagesAreOwed == Spec => []StaleIsOwing
<1>1. Init => StaleIsOwing
  BY DEF Init, TheaterInit, StaleIsOwing, Missing
<1>2. TheaterInv => TypeOK
  BY DEF TheaterInv
<1> QED BY <1>1, <1>2, NextStale, TheaterInvariant, PTL DEF Spec

-----------------------------------------------------------------------------
(* Who tells the clients                                                   *)

\* Why UNKNOWN_OR_EXPIRED cannot be said of a marked request that waits: its
\* mark is the order of its message, and only goes after its result is there.
Handled ==
    /\ \A d \in Deliveries : hpc[d] = "put" => verdict[d] # "none"
    /\ \A d \in Deliveries : hpc[d] = "clear" => result[Ref(d)] # "none"
    /\ \A r \in Refs : tpc[r] = "note" => order[r] # 0
    /\ \A r \in Refs : r \in polling => tpc[r] \in Sent
    /\ \A r \in Refs : told[r] = "UNKNOWN_OR_EXPIRED" => tpc[r] \in Sent
    /\ \A r \in Refs : tpc[r] = "queued" /\ queued[r] = 0 => result[r] # "none"
    /\ UnknownIsHandled

LEMMA HandledCommit ==
    ASSUME TypeOK, Handled, NEW r \in Refs, CommitStep(r) \/ PollStep(r) \/ CommitCrash(r),
           UNCHANGED workerVars
    PROVE  Handled'
<1> USE DEF TypeOK, QueueTypeOK, AnswerTypeOK, CommitTypeOK, commitVars, workerVars, answerVars
<1>1. CASE Send(r) \/ SendFails(r)
  <2>1. UNCHANGED <<hpc, verdict, result, queued, polling, told>>
    BY <1>1 DEF Send, SendFails
  <2>2. /\ tpc[r] = "idle"
        /\ \/ tpc' = [tpc EXCEPT ![r] = "note"] /\ Enqueue(r)
           \/ tpc' = [tpc EXCEPT ![r] = "error"] /\ (Enqueue(r) \/ UNCHANGED order)
    BY <1>1 DEF Send, SendFails, GoTo, queueVars
  <2>3. \A s \in Refs : tpc'[s] = "note" => order'[s] # 0
    BY <2>2 DEF Enqueue, Handled
  <2>4. \A s \in Refs : tpc[s] \in Sent => s # r
    BY <2>2 DEF Sent
  <2> QED BY <2>1, <2>2, <2>3, <2>4 DEF Handled, UnknownIsHandled, Sent
<1>2. CASE Note(r)
  <2>1. /\ UNCHANGED <<hpc, verdict, order, result, polling, told>>
        /\ tpc[r] = "note" /\ order[r] # 0
        /\ \/ tpc' = [tpc EXCEPT ![r] = "queued"] /\ queued' = [queued EXCEPT ![r] = order[r]]
           \/ tpc' = [tpc EXCEPT ![r] = "unmarked"] /\ UNCHANGED queued
    BY <1>2 DEF Note, GoTo, Handled, queueVars
  <2> QED BY <2>1 DEF Handled, UnknownIsHandled, Sent
<1>3. CASE PollStep(r)
  <2>1. UNCHANGED <<hpc, verdict, order, result, queued, tpc>>
    BY <1>3 DEF PollStep, PollResult, PollMark, queueVars
  <2>2. tpc[r] \in Sent
    BY <1>3 DEF PollStep, PollResult, PollMark, Polls, Handled
  <2>3. told' = told \/ told' = [told EXCEPT ![r] = told'[r]]
    BY <1>3 DEF PollStep, PollResult, PollMark
  <2>4. polling' \subseteq polling \cup {r}
    BY <1>3 DEF PollStep, PollResult, PollMark
  <2>5. told'[r] = "UNKNOWN_OR_EXPIRED" /\ tpc[r] = "queued" => result[r] # "none"
    BY <1>3 DEF PollStep, PollResult, PollMark, Handled, UnknownIsHandled, Codes
  <2> QED BY <2>1, <2>2, <2>3, <2>4, <2>5 DEF Handled, UnknownIsHandled
<1>4. CASE CommitCrash(r)
  <2>1. /\ UNCHANGED <<hpc, verdict, order, result, queued, polling, told>>
        /\ tpc[r] = "note" /\ tpc' = [tpc EXCEPT ![r] = "dead"]
    BY <1>4 DEF CommitCrash, GoTo, queueVars
  <2> QED BY <2>1 DEF Handled, UnknownIsHandled, Sent
<1> QED BY <1>1, <1>2, <1>3, <1>4 DEF CommitStep

LEMMA HandledWorker ==
    ASSUME TypeOK, Handled, NEW d \in Deliveries, WorkerStep(d) \/ WorkerCrash(d),
           UNCHANGED commitVars
    PROVE  Handled'
<1> USE DEF TypeOK, QueueTypeOK, AnswerTypeOK, CommitTypeOK, WorkerTypeOK,
            commitVars, workerVars, answerVars, queueVars, Ref, In, Go
<1>0. UNCHANGED order /\ d[1] \in Refs
  BY DEF WorkerStep, CheckResult, Begin, Refuse, Book, Put, PutFails, ClearMark, DropPages,
         Acknowledge, Delete, WorkerCrash, Deliveries
<1>1. CASE Put(d)
  <2>1. /\ UNCHANGED <<verdict, queued>> /\ verdict[d] # "none"
        /\ result' = [result EXCEPT ![d[1]] = verdict[d]]
        /\ hpc' = [hpc EXCEPT ![d] = "clear"]
    BY <1>1 DEF Put, Handled
  <2>2. \A r \in Refs : result[r] # "none" => result'[r] # "none"
    BY <2>1
  <2>3. result'[d[1]] # "none"
    BY <1>0, <2>1
  <2> QED BY <1>0, <2>1, <2>2, <2>3 DEF Handled, UnknownIsHandled
<1>2. CASE ClearMark(d)
  <2>1. /\ UNCHANGED <<verdict, result>> /\ result[d[1]] # "none"
        /\ (queued' = queued \/ queued' = [queued EXCEPT ![d[1]] = 0])
        /\ \E pc \in {"drop", "ack"} : hpc' = [hpc EXCEPT ![d] = pc]
    BY <1>2 DEF ClearMark, Handled
  <2> QED BY <1>0, <2>1 DEF Handled, UnknownIsHandled
<1>3. CASE \/ CheckResult(d) \/ DropPages(d) \/ Acknowledge(d) \/ WorkerCrash(d)
           \/ Begin(d) \/ Refuse(d) \/ Book(d) \/ PutFails(d)
  <2>1. UNCHANGED <<result, queued>>
    BY <1>3 DEF CheckResult, Begin, Refuse, Book, PutFails, DropPages, Acknowledge, WorkerCrash
  <2>2. /\ (UNCHANGED verdict \/ verdict' = [verdict EXCEPT ![d] = verdict'[d]])
        /\ hpc' = [hpc EXCEPT ![d] = hpc'[d]]
        /\ hpc'[d] = "put" => verdict'[d] # "none"
        /\ hpc'[d] # "clear"
    <3>1. CASE CheckResult(d) \/ DropPages(d) \/ Acknowledge(d) \/ WorkerCrash(d)
      BY <3>1 DEF CheckResult, DropPages, Acknowledge, WorkerCrash
    <3>2. CASE Begin(d) \/ Refuse(d) \/ Book(d) \/ PutFails(d)
      BY <3>2 DEF Begin, Refuse, Book, PutFails, Decide
    <3> QED BY <1>3, <3>1, <3>2
  <2> QED BY <1>0, <2>1, <2>2 DEF Handled, UnknownIsHandled
<1> QED BY <1>1, <1>2, <1>3 DEF WorkerStep

LEMMA NextHandled == TypeOK /\ Handled /\ [Next]_vars => Handled'
<1> SUFFICES ASSUME TypeOK, Handled, [Next]_vars PROVE Handled'
  OBVIOUS
<1> USE DEF commitVars, workerVars, answerVars, queueVars
<1>0. ASSUME UNCHANGED <<order, answerVars, commitVars, workerVars>>
      PROVE  Handled'
  BY <1>0 DEF Handled, UnknownIsHandled, Ref
<1>1. ASSUME NEW r \in Refs, RunCommit(r) \/ RunPoll(r)
      PROVE  Handled'
  BY <1>1, HandledCommit DEF RunCommit, RunPoll
<1>2. ASSUME NEW r \in Refs, Timeout(r) \/ Redrive(r)
      PROVE  Handled'
  BY <1>0, <1>2 DEF Timeout, VisibilityTimeout, Reappear, Redrive, ToDlq
<1>3. ASSUME NEW d \in Deliveries, RunDelivery(d)
      PROVE  Handled'
  BY <1>3, HandledWorker DEF RunDelivery
<1>4. CASE \/ \E f \in RefundIds : RunRefund(f)
           \/ \E x \in Fillers : RunFill(x)
           \/ Startup
  BY <1>0, <1>4 DEF RunRefund, RunFill, Startup
<1>5. CASE PollQueue
  <2>1. PICK B \in SUBSET msgs : Receive(B, GroupOf)
    BY <1>5 DEF PollQueue
  <2>2. UNCHANGED <<order, answerVars, commitVars, verdict>>
    BY <1>5, <2>1 DEF PollQueue, Receive, Deliver
  <2>3. \A d \in Deliveries : hpc'[d] = hpc[d] \/ hpc'[d] = "start"
    BY <2>1 DEF Receive
  <2> QED BY <2>2, <2>3 DEF Handled, UnknownIsHandled, Ref
<1>6. CASE Crash
  <2>1. \A r \in Refs : CommitCrash(r) /\ UNCHANGED workerVars => Handled'
    BY HandledCommit
  <2>2. \A d \in Deliveries : WorkerCrash(d) /\ UNCHANGED commitVars => Handled'
    BY HandledWorker
  <2> QED BY <1>0, <1>6, <2>1, <2>2 DEF Crash
<1>7. CASE UNCHANGED vars
  BY <1>0, <1>7 DEF vars
<1> QED BY <1>1, <1>2, <1>3, <1>4, <1>5, <1>6, <1>7 DEF Next

\* No client whose request is marked is told that it is unknown before the worker
\* has stored what became of it.
THEOREM UnknownMeansHandled == Spec => []UnknownIsHandled
<1>1. Init => Handled
  BY DEF Init, QueueInit, AnswerInit, CommitInit, WorkerInit, Handled, UnknownIsHandled
<1>2. TheaterInv => TypeOK
  BY DEF TheaterInv
<1>3. Handled => UnknownIsHandled
  BY DEF Handled
<1> QED BY <1>1, <1>2, <1>3, NextHandled, TheaterInvariant, PTL DEF Spec

-----------------------------------------------------------------------------
(* What clients are told                                                   *)

Early == {"idle", "start", "begin", "txn"}

\* What a delivery knows of its message when it gives the code.
Verdict(d, code) ==
    /\ code = "OK" => book[d] # "none"
    /\ code = "NOT_FOUND" => ~req[d[1]].known
    /\ code = "INVALID_SEAT" => ~(Want(d) \subseteq Hall)
    /\ code \in {"DUPLICATE_SEAT", "SOLD_OUT"} => book[d] = "none"

\* Every booking is of seats the hall has, every verdict under way and every
\* result has its reason: a delivery, past its transaction, that gave it.
Reasons ==
    /\ \A d \in Deliveries : hpc[d] = "txn" => req[d[1]].known
    /\ \A d \in Deliveries : book[d] # "none" => req[d[1]].known /\ Want(d) \subseteq Hall
    /\ \A d \in Deliveries : hpc[d] = "put" => Verdict(d, verdict[d])
    /\ \A r \in Refs : result[r] # "none" =>
         \E d \in Deliveries : d[1] = r /\ hpc[d] \notin Early /\ Verdict(d, result[r])

\* A step that leaves the results alone, and takes no delivery back before its
\* transaction or to another verdict.
LEMMA ReasonsKept ==
    ASSUME Reasons, UNCHANGED <<req, book, result>>,
           \A d \in Deliveries :
             /\ hpc[d] \notin Early => hpc'[d] \notin Early
             /\ hpc'[d] = "txn" => req[d[1]].known
             /\ hpc'[d] = "put" => Verdict(d, verdict'[d])
    PROVE  Reasons'
BY DEF Reasons, Verdict, Want

LEMMA ReasonsBook ==
    ASSUME TypeOK, Progress, Reasons, NEW d \in Deliveries, Book(d)
    PROVE  Reasons'
<1> USE DEF TypeOK, TheaterTypeOK, WorkerTypeOK
<1>1. /\ UNCHANGED <<req, result>>
      /\ book[d] = "none" /\ book' = [book EXCEPT ![d] = "PAID"]
      /\ hpc[d] = "txn" /\ hpc' = [hpc EXCEPT ![d] = "put"]
      /\ verdict' = [verdict EXCEPT ![d] = "OK"]
      /\ Want(d) \subseteq Hall
  BY DEF Book, In, Decide, Go, Progress, answerVars
<1>2. \A e \in Deliveries \ {d} : \A code : Verdict(e, code) => Verdict(e, code)'
  BY <1>1 DEF Verdict, Want
<1>3. \A e \in Deliveries : hpc[e] \notin Early => e # d
  BY <1>1 DEF Early
<1>4. Verdict(d, "OK")'
  BY <1>1 DEF Verdict
<1>5. \A e \in Deliveries : hpc'[e] = "put" => Verdict(e, verdict[e])'
  BY <1>1, <1>2, <1>4 DEF Reasons
<1>6. \A r \in Refs : result'[r] # "none" =>
        \E e \in Deliveries : e[1] = r /\ hpc'[e] \notin Early /\ Verdict(e, result[r])'
  BY <1>1, <1>2, <1>3 DEF Reasons
<1>7. \A e \in Deliveries : book'[e] # "none" =>
        req'[e[1]].known /\ Want(e)' \subseteq Hall
  BY <1>1 DEF Reasons, Want
<1>8. \A e \in Deliveries : hpc'[e] = "txn" => req'[e[1]].known
  BY <1>1 DEF Reasons
<1> QED BY <1>5, <1>6, <1>7, <1>8 DEF Reasons

\* A refund cancels a booking, it does not unmake it.
LEMMA ReasonsRefund ==
    ASSUME TypeOK, Progress, Reasons, NEW f \in RefundIds, RefundStep(f), UNCHANGED workerVars,
           UNCHANGED result
    PROVE  Reasons'
<1> USE DEF TypeOK, TheaterTypeOK, workerVars
<1>1. UNCHANGED <<req, hpc, verdict>>
  BY DEF RefundStep, LockBooking, RefundCommit, RefundFails
<1>2. \A d \in Deliveries : book'[d] = "none" <=> book[d] = "none"
  <2>1. CASE RefundCommit(f)
    BY <2>1 DEF RefundCommit, Progress
  <2>2. CASE UNCHANGED book
    BY <2>2
  <2> QED BY <2>1, <2>2 DEF RefundStep, LockBooking, RefundFails
<1>3. \A d \in Deliveries : \A code : Verdict(d, code)' <=> Verdict(d, code)
  BY <1>1, <1>2 DEF Verdict, Want
<1> QED BY <1>1, <1>2, <1>3 DEF Reasons, Want

LEMMA ReasonsDelivery ==
    ASSUME TypeOK, Progress, Reasons, NEW d \in Deliveries, WorkerStep(d) \/ WorkerCrash(d)
    PROVE  Reasons'
<1> USE DEF TypeOK, AnswerTypeOK, WorkerTypeOK, In, Go, Decide, Ref
<1>1. CASE Put(d)
  <2>1. /\ UNCHANGED <<req, book, verdict>> /\ Verdict(d, verdict[d])
        /\ d[1] \in Refs /\ result' = [result EXCEPT ![d[1]] = verdict[d]]
        /\ hpc[d] = "put" /\ hpc' = [hpc EXCEPT ![d] = "clear"]
    BY <1>1 DEF Put, Reasons, Deliveries, theaterVars, dbVars
  <2>2. \A e \in Deliveries : \A code : Verdict(e, code)' <=> Verdict(e, code)
    BY <2>1 DEF Verdict, Want
  <2>3. \A e \in Deliveries : hpc[e] \notin Early => hpc'[e] \notin Early
    BY <2>1 DEF Early
  <2>4. ASSUME NEW r \in Refs, result'[r] # "none"
        PROVE  \E e \in Deliveries : e[1] = r /\ hpc'[e] \notin Early /\ Verdict(e, result'[r])
    <3>1. CASE r = d[1]
      <4>1. hpc'[d] \notin Early /\ result'[r] = verdict[d]
        BY <2>1, <3>1 DEF Early
      <4> QED BY <2>1, <3>1, <4>1
    <3>2. CASE r # d[1]
      BY <2>1, <2>3, <2>4, <3>2 DEF Reasons
    <3> QED BY <3>1, <3>2
  <2>5. \A r \in Refs : result'[r] # "none" =>
          \E e \in Deliveries : e[1] = r /\ hpc'[e] \notin Early /\ Verdict(e, result[r])'
    BY <2>1, <2>4 DEF Verdict, Want
  <2> QED BY <2>1, <2>2, <2>5 DEF Reasons, Want
<1>2. CASE Book(d)
  BY <1>2, ReasonsBook
<1>3. CASE Begin(d) \/ Refuse(d) \/ PutFails(d)
  <2>1. /\ UNCHANGED <<req, book, result>>
        /\ hpc' = [hpc EXCEPT ![d] = hpc'[d]]
        /\ \A e \in Deliveries \ {d} : verdict'[e] = verdict[e]
    BY <1>3 DEF Begin, Refuse, PutFails, answerVars, theaterVars, dbVars
  <2>2. /\ hpc[d] \notin Early => hpc'[d] \notin Early
        /\ hpc'[d] = "txn" => req[d[1]].known
    BY <1>3 DEF Begin, Refuse, PutFails, Early
  <2>3. hpc'[d] = "put" => Verdict(d, verdict'[d])
    BY <1>3 DEF Begin, Refuse, PutFails, Verdict, Progress
  <2> QED BY <2>1, <2>2, <2>3, ReasonsKept DEF Reasons
<1>4. CASE CheckResult(d) \/ ClearMark(d) \/ DropPages(d) \/ Acknowledge(d) \/ WorkerCrash(d)
  <2>1. /\ UNCHANGED <<req, book, result, verdict>>
        /\ hpc' = [hpc EXCEPT ![d] = hpc'[d]]
        /\ hpc'[d] \notin {"txn", "put"}
        /\ hpc[d] \notin Early => hpc'[d] \notin Early
    BY <1>4 DEF CheckResult, ClearMark, DropPages, Acknowledge, WorkerCrash, Early,
                answerVars, theaterVars, dbVars
  <2> QED BY <2>1, ReasonsKept DEF Reasons
<1> QED BY <1>1, <1>2, <1>3, <1>4 DEF WorkerStep

LEMMA NextReasons == TypeOK /\ Progress /\ Reasons /\ [Next]_vars => Reasons'
<1> SUFFICES ASSUME TypeOK, Progress, Reasons, [Next]_vars PROVE Reasons'
  OBVIOUS
<1> USE DEF theaterVars, dbVars, answerVars, workerVars
<1>0. ASSUME UNCHANGED <<req, book, result, workerVars>>
      PROVE  Reasons'
  BY <1>0, ReasonsKept DEF Reasons
<1>1. ASSUME NEW r \in Refs, RunCommit(r) \/ RunPoll(r) \/ Timeout(r) \/ Redrive(r)
      PROVE  Reasons'
  BY <1>0, <1>1 DEF RunCommit, CommitStep, Send, SendFails, Note, RunPoll, PollStep, PollResult,
                    PollMark, Timeout, VisibilityTimeout, Redrive
<1>2. ASSUME NEW d \in Deliveries, RunDelivery(d)
      PROVE  Reasons'
  BY <1>2, ReasonsDelivery DEF RunDelivery
<1>3. ASSUME NEW f \in RefundIds, RunRefund(f)
      PROVE  Reasons'
  BY <1>3, ReasonsRefund DEF RunRefund
<1>4. ASSUME NEW x \in Fillers, RunFill(x)
      PROVE  Reasons'
  BY <1>0, <1>4 DEF RunFill, FillStep, Miss, Build, StorePage
<1>5. CASE PollQueue
  <2>1. PICK B \in SUBSET msgs : Receive(B, GroupOf)
    BY <1>5 DEF PollQueue
  <2>2. UNCHANGED <<req, book, result, verdict>>
    BY <2>1 DEF Receive
  <2>3. ASSUME NEW d \in Deliveries
        PROVE  /\ hpc[d] \notin Early => hpc'[d] \notin Early
               /\ hpc'[d] = hpc[d] \/ hpc'[d] = "start"
    <3>1. hpc'[d] = IF d[1] \in B /\ d[2] = receives[d[1]] + 1 THEN "start" ELSE hpc[d]
      BY <2>1 DEF Receive
    <3>2. d[2] \in Int /\ receives[d[1]] \in Int
      BY DEF Deliveries, TypeOK, QueueTypeOK
    <3>3. d[2] = receives[d[1]] + 1 => hpc[d] = "idle"
      BY <3>2 DEF Progress
    <3> QED BY <3>1, <3>3 DEF Early
  <2> QED BY <2>2, <2>3, ReasonsKept DEF Reasons
<1>6. CASE Startup
  BY <1>0, <1>6 DEF Startup, SyncRemain
<1>7. CASE Crash
  <2>1. \A d \in Deliveries : WorkerCrash(d) => Reasons'
    BY ReasonsDelivery
  <2> QED BY <1>0, <1>7, <2>1 DEF Crash, CommitCrash, FillCrash
<1>8. CASE UNCHANGED vars
  BY <1>0, <1>8 DEF vars
<1> QED BY <1>1, <1>2, <1>3, <1>4, <1>5, <1>6, <1>7, <1>8 DEF Next

\* A client is told OK only of a booking, that its schedule or seats do not exist
\* only without one, and that its seats are taken only without one or after the
\* message was delivered again.
THEOREM AnswersAreHonest == Spec => []AnswerIsHonest
<1>1. Init => Reasons
  BY DEF Init, TheaterInit, AnswerInit, WorkerInit, Reasons, Deliveries
<1>2. TheaterInv => TypeOK /\ Progress
  BY DEF TheaterInv
<1>3. Progress /\ Reasons => AnswerIsHonest
  <2> SUFFICES ASSUME Progress, Reasons, NEW r \in Refs, result[r] # "none"
               PROVE  /\ result[r] = "OK" => BookedBy(r) # {}
                      /\ result[r] \in {"INVALID_SEAT", "NOT_FOUND"} => BookedBy(r) = {}
                      /\ result[r] \in {"DUPLICATE_SEAT", "SOLD_OUT"} /\ receives[r] = 1
                           => BookedBy(r) = {}
    BY DEF AnswerIsHonest
  <2>1. PICK d \in Deliveries : d[1] = r /\ hpc[d] \notin Early /\ Verdict(d, result[r])
    BY DEF Reasons
  <2>2. result[r] \in {"INVALID_SEAT", "NOT_FOUND"} => BookedBy(r) = {}
    BY <2>1 DEF Verdict, Reasons, BookedBy, Want
  <2>3. ASSUME result[r] \in {"DUPLICATE_SEAT", "SOLD_OUT"}, receives[r] = 1
        PROVE  BookedBy(r) = {}
    <3>1. book[d] = "none"
      BY <2>1, <2>3 DEF Verdict
    <3>2. \A e \in Deliveries : e[1] = r /\ hpc[e] # "idle" => e = <<r, 1>>
      BY <2>3, QueueAssumption DEF Progress, Deliveries
    <3> QED BY <2>1, <3>1, <3>2 DEF BookedBy, Progress, Early
  <2> QED BY <2>1, <2>2, <2>3 DEF Verdict, BookedBy
<1> QED BY <1>1, <1>2, <1>3, NextReasons, TheaterInvariant, PTL DEF Spec
=============================================================================
