-------------------------- MODULE ShowViewsProofs ---------------------------
(***************************************************************************)
(* Type correctness of ShowViews, and what its readers may rely on: what   *)
(* is sold is shown, a snapshot out of date is about to go, a marked       *)
(* change of the counter is copied.                                        *)
(***************************************************************************)
EXTENDS ShowViews, FiniteSetTheorems, TLAPS

USE DEF showVars, trafficVars, readVars, syncVars, loopVars, adminVars

-----------------------------------------------------------------------------
(* Types                                                                   *)

LEMMA RecountType ==
    ASSUME NEW S \in SUBSET Seats
    PROVE  Recount(S) \in Nat /\ Recount(S) <= Total
<1>1. Cardinality(S) \in Nat
  BY ShowAssumption, FS_Subset, FS_CardinalityType
<1> QED BY <1>1, ShowAssumption DEF Recount

LEMMA LeastType == \A n \in Nat : Least(n, Total) \in Nat
BY ShowAssumption DEF Least

LEMMA PutType ==
    ASSUME NEW n \in Nat \cup {Missing}, PutRemain(n)
    PROVE  remain' \in Nat \cup {Missing} /\ astray' \in BOOLEAN
BY DEF PutRemain

LEMMA SeedType ==
    ASSUME remain \in Nat \cup {Missing}, astray \in BOOLEAN, NEW n \in Nat, SeedRemain(n)
    PROVE  remain' \in Nat \cup {Missing} /\ astray' \in BOOLEAN
<1>1. CASE remain = Missing /\ n > 0
  BY <1>1, PutType DEF SeedRemain
<1>2. CASE ~(remain = Missing /\ n > 0)
  BY <1>2 DEF SeedRemain
<1> QED BY <1>1, <1>2

LEMMA NoSnapType == NoSnap \in Snapshots
BY DEF NoSnap, Snapshots

LEMMA DropType ==
    ASSUME snap \in Snapshots, DropSnap
    PROVE  snap' \in Snapshots /\ fresh' = {}
BY NoSnapType DEF DropSnap, Snapshots

LEMMA PageType ==
    ASSUME page \in [Readers -> Pages], NEW x \in Readers, NEW S \in SUBSET Seats
    PROVE  /\ [page EXCEPT ![x].confirmed = S] \in [Readers -> Pages]
           /\ [page EXCEPT ![x].holds = S] \in [Readers -> Pages]
           /\ [page EXCEPT ![x] = NoPage] \in [Readers -> Pages]
BY DEF Pages, NoPage

LEMMA SomeType ==
    ASSUME page \in [Readers -> Pages], NEW x \in Readers, NEW b \in BOOLEAN
    PROVE  [page EXCEPT ![x].some = b] \in [Readers -> Pages]
BY DEF Pages

Blinds == [Readers -> SUBSET {"query", "redis"}]

LEMMA BlindType ==
    ASSUME blind \in Blinds, NEW x \in Readers, NEW what \in {"query", "redis"},
           Blind(x, what) \/ UNCHANGED blind
    PROVE  blind' \in Blinds
BY DEF Blind, Blinds

LEMMA InitTypes == Init => TypeOK
<1> SUFFICES ASSUME Init PROVE TypeOK
  OBVIOUS
<1>1. sold \in SUBSET Seats /\ dbRemain \in Nat
  BY RecountType DEF Init
<1>2. ShowTypeOK
  BY <1>1, ShowAssumption DEF Init, ShowTypeOK, Snapshots, NoSnap, Missing
<1>3. TrafficTypeOK
  BY DEF Init, TrafficTypeOK, TicketPCs
<1>4. ReadTypeOK
  <2>1. page \in [Readers -> Pages]
    BY DEF Init, ReadInit, Pages, NoPage
  <2>2. fill \in [Readers -> [confirmed : SUBSET Seats, remain : Nat]]
    BY DEF Init, ReadInit, NoFill
  <2>3. since \in [Readers -> [sold : SUBSET Seats, taken : SUBSET Seats]]
    BY <1>1 DEF Init, Taken
  <2> QED BY <2>1, <2>2, <2>3 DEF Init, ReadInit, ReadTypeOK, ReaderPCs
<1>5. SyncTypeOK
  BY DEF Init, SyncTypeOK
<1> QED BY <1>2, <1>3, <1>4, <1>5 DEF TypeOK, Init

LEMMA TicketTypes ==
    ASSUME ShowTypeOK, TrafficTypeOK, NEW t \in Tickets, TicketStep(t) \/ Refund(t)
    PROVE  ShowTypeOK' /\ TrafficTypeOK'
<1> USE ShowAssumption DEF ShowTypeOK, TrafficTypeOK, TicketPCs, At, GoTo, Read, Mine, Free,
        PutRemain, SeedRemain, Missing
<1>1. CASE CheckCounter(t)
  BY <1>1 DEF CheckCounter
<1>2. CASE SeedCounter(t)
  <2>1. remain' \in Nat \cup {Missing} /\ astray' \in BOOLEAN
    <3>1. CASE SeedRemain(val[t])
      BY <3>1, SeedType
    <3>2. CASE PutRemain(val[t])
      BY <3>2, PutType
    <3>3. CASE UNCHANGED <<remain, astray>>
      BY <3>3
    <3> QED BY <1>2, <3>1, <3>2, <3>3 DEF SeedCounter
  <2> QED BY <1>2, <2>1 DEF SeedCounter
<1>3. CASE Decrement(t)
  BY <1>3 DEF Decrement
<1>4. CASE SoldOut(t)
  BY <1>4 DEF SoldOut
<1>5. CASE MarkDirty(t)
  BY <1>5 DEF MarkDirty
<1>6. CASE Hold(t)
  BY <1>6 DEF Hold
<1>7. CASE Undo(t)
  BY <1>7 DEF Undo
<1>8. CASE Announce(t)
  BY <1>8, DropType DEF Announce
<1>9. CASE Release(t)
  BY <1>9 DEF Release
<1>10. CASE Book(t)
  BY <1>10 DEF Book
<1>11. CASE BookFails(t)
  BY <1>11 DEF BookFails
<1>12. CASE Finalize(t)
  BY <1>12 DEF Finalize
<1>13. CASE Tell(t)
  BY <1>13, DropType DEF Tell
<1>14. CASE GiveBack(t)
  BY <1>14 DEF GiveBack
<1>15. CASE Forget(t)
  BY <1>15, DropType DEF Forget
<1>16. CASE FreeSeat(t)
  BY <1>16 DEF FreeSeat
<1>17. CASE Restore(t)
  BY <1>17 DEF Restore
<1>18. CASE Refund(t)
  <2>1. sold' \in SUBSET Seats /\ Recount(sold') \in Nat
    BY <1>18, RecountType DEF Refund
  <2> QED BY <1>18, <2>1 DEF Refund
<1> QED BY <1>1, <1>2, <1>3, <1>4, <1>5, <1>6, <1>7, <1>8, <1>9, <1>10, <1>11, <1>12,
           <1>13, <1>14, <1>15, <1>16, <1>17, <1>18 DEF TicketStep

\* The variables of the readers, without the ghost that Observe writes.
ReaderTypes ==
    /\ rpc \in [Readers -> ReaderPCs]
    /\ kind \in [Readers -> Kinds]
    /\ page \in [Readers -> Pages]
    /\ row \in [Readers -> Nat]
    /\ fill \in [Readers -> [confirmed : SUBSET Seats, remain : Nat]]
    /\ blind \in Blinds

LEMMA ReaderStepTypes ==
    ASSUME ShowTypeOK, ReaderTypes, NEW x \in Readers, ReadStep(x)
    PROVE  ShowTypeOK' /\ ReaderTypes'
<1> USE DEF ShowTypeOK, ReaderTypes, ReaderPCs, On, To, Confirm, Mark, SetRow
<1>1. CASE ReadRow(x)
  <2>1. CASE kind[x] = "concert"
    <3>1. /\ meta' \in Nat \cup {Missing} /\ rpc' = [rpc EXCEPT ![x] = "confirmed"]
          /\ \E n \in Nat : row' = [row EXCEPT ![x] = n]
      BY <1>1, <2>1 DEF ReadRow
    <3> QED BY <1>1, <3>1 DEF ReadRow
  <2>2. CASE kind[x] # "concert"
    <3>1. UNCHANGED meta /\ row' = [row EXCEPT ![x] = dbRemain]
          /\ \E pc \in {"snapshot", "holds"} : rpc' = [rpc EXCEPT ![x] = pc]
      BY <1>1, <2>2 DEF ReadRow
    <3> QED BY <1>1, <3>1 DEF ReadRow
  <2> QED BY <2>1, <2>2
<1>2. CASE ReadConfirmed(x)
  <2>1. PICK pc \in {"holds", "count"} : rpc' = [rpc EXCEPT ![x] = pc]
    BY <1>2 DEF ReadConfirmed
  <2>2. /\ \/ page' = [page EXCEPT ![x].confirmed = sold]
           \/ page' = [page EXCEPT ![x].confirmed = {}]
        /\ UNCHANGED <<showVars, kind, row, fill>>
    BY <1>2 DEF ReadConfirmed
  <2>3. blind' \in Blinds
    BY <1>2, BlindType DEF ReadConfirmed
  <2>4. page' \in [Readers -> Pages]
    <3>1. CASE page' = [page EXCEPT ![x].confirmed = sold]
      BY <3>1, PageType
    <3>2. CASE page' = [page EXCEPT ![x].confirmed = {}]
      BY <3>2, PageType
    <3> QED BY <2>2, <3>1, <3>2
  <2> QED BY <2>1, <2>2, <2>3, <2>4
<1>3. CASE ReadHolds(x)
  <2>1. PICK pc \in {"fill", "snapshot", "hc"} : rpc' = [rpc EXCEPT ![x] = pc]
    BY <1>3 DEF ReadHolds
  <2>2. /\ \/ page' = [page EXCEPT ![x].holds = held]
           \/ page' = [page EXCEPT ![x].holds = {}]
        /\ UNCHANGED <<showVars, kind, row, fill>>
    BY <1>3 DEF ReadHolds
  <2>3. blind' \in Blinds
    BY <1>3, BlindType DEF ReadHolds
  <2>4. page' \in [Readers -> Pages]
    <3>1. CASE page' = [page EXCEPT ![x].holds = held]
      BY <3>1, PageType
    <3>2. CASE page' = [page EXCEPT ![x].holds = {}]
      BY <3>2, PageType
    <3> QED BY <2>2, <3>1, <3>2
  <2> QED BY <2>1, <2>2, <2>3, <2>4
<1>4. CASE SnapshotHit(x)
  <2>1. snap.confirmed \in SUBSET Seats
    BY DEF Snapshots
  <2>2. CASE kind[x] = "show"
    <3>1. /\ rpc' = [rpc EXCEPT ![x] = "answer"]
          /\ page' = [page EXCEPT ![x].confirmed = snap.confirmed]
      BY <1>4, <2>2 DEF SnapshotHit
    <3> QED BY <1>4, <2>1, <3>1, PageType DEF SnapshotHit
  <2>3. CASE kind[x] # "show"
    <3>1. rpc' = [rpc EXCEPT ![x] = "count"] /\ UNCHANGED page
      BY <1>4, <2>3 DEF SnapshotHit
    <3> QED BY <1>4, <3>1 DEF SnapshotHit
  <2> QED BY <2>2, <2>3
<1>5. CASE SnapshotMiss(x)
  BY <1>5 DEF SnapshotMiss
<1>6. CASE BuildSnapshot(x)
  BY <1>6 DEF BuildSnapshot
<1>7. CASE SeedFromRow(x)
  <2>1. remain' \in Nat \cup {Missing} /\ astray' \in BOOLEAN
    BY <1>7, SeedType DEF SeedFromRow
  <2> QED BY <1>7, <2>1 DEF SeedFromRow
<1>8. CASE StoreSnapshot(x)
  <2>1. /\ fill[x].confirmed \in SUBSET Seats
        /\ NoFill \in [confirmed : SUBSET Seats, remain : Nat]
    BY DEF NoFill
  <2>2. snap' \in Snapshots
    <3>1. [there |-> TRUE, confirmed |-> fill[x].confirmed, late |-> x \notin fresh] \in Snapshots
      BY <2>1 DEF Snapshots
    <3> QED BY <1>8, <3>1 DEF StoreSnapshot
  <2>3. page' \in [Readers -> Pages] /\ rpc' \in [Readers -> ReaderPCs]
    <3>1. CASE kind[x] = "show"
      <4>1. /\ rpc' = [rpc EXCEPT ![x] = "answer"]
            /\ page' = [page EXCEPT ![x].confirmed = fill[x].confirmed]
        BY <1>8, <3>1 DEF StoreSnapshot
      <4> QED BY <2>1, <4>1, PageType
    <3>2. CASE kind[x] # "show"
      <4>1. rpc' = [rpc EXCEPT ![x] = "count"] /\ UNCHANGED page
        BY <1>8, <3>2 DEF StoreSnapshot
      <4> QED BY <4>1
    <3> QED BY <3>1, <3>2
  <2> QED BY <1>8, <2>1, <2>2, <2>3 DEF StoreSnapshot
<1>9. CASE Count(x)
  <2>1. remain' \in Nat \cup {Missing} /\ astray' \in BOOLEAN
    BY <1>9, SeedType DEF Count
  <2> QED BY <1>9, <2>1 DEF Count
<1>10. CASE Repair(x)
  <2>1. remain' \in Nat \cup {Missing} /\ astray' \in BOOLEAN
    BY <1>10, PutType DEF Repair
  <2> QED BY <1>10, <2>1 DEF Repair
<1>11. CASE Leave(x)
  BY <1>11, PageType DEF Leave, Blinds
<1>12. CASE QueryFails(x)
  BY <1>12, PageType DEF QueryFails, Blinds
<1>13. CASE CountHolds(x)
  <2>1. /\ page' = [page EXCEPT ![x].some = (held # {})] /\ rpc' = [rpc EXCEPT ![x] = "confirmed"]
        /\ UNCHANGED <<showVars, kind, row, fill, blind>>
    BY <1>13 DEF CountHolds
  <2>2. page' \in [Readers -> Pages]
    BY <2>1, SomeType
  <2> QED BY <2>1, <2>2
<1>14. CASE CacheFails(x)
  BY <1>14 DEF CacheFails
<1> QED BY <1>1, <1>2, <1>3, <1>4, <1>5, <1>6, <1>7, <1>8, <1>9, <1>10, <1>11, <1>12, <1>13,
           <1>14 DEF ReadStep

LEMMA SyncStepTypes ==
    ASSUME ShowTypeOK, SyncTypeOK,
           \/ \E w \in Syncers : LoopStep(w) \/ LoopCrash(w)
           \/ StartupStep \/ AdminStep \/ LockExpires
    PROVE  ShowTypeOK' /\ SyncTypeOK'
<1> USE DEF ShowTypeOK, SyncTypeOK, Step, PutRemain
<1>1. ASSUME NEW w \in Syncers, LoopStep(w) \/ LoopCrash(w)
      PROVE  ShowTypeOK' /\ SyncTypeOK'
  <2>1. CASE Acquire(w)
    BY <2>1 DEF Acquire
  <2>2. CASE Pop(w)
    BY <2>2 DEF Pop
  <2>3. CASE ReadCounter(w)
    <3>1. remain # Missing => Least(remain, Total) \in Nat
      BY LeastType
    <3>2. CASE remain = Missing
      BY <2>3, <3>2 DEF ReadCounter
    <3>3. CASE remain # Missing
      <4>1. astray' = FALSE /\ copy' = [copy EXCEPT ![w] = Least(remain, Total)]
        BY <2>3, <3>3 DEF ReadCounter
      <4> QED BY <2>3, <3>1, <3>3, <4>1 DEF ReadCounter
    <3> QED BY <3>2, <3>3
  <2>4. CASE WriteRow(w)
    BY <2>4 DEF WriteRow
  <2>5. CASE WriteFails(w)
    BY <2>5 DEF WriteFails
  <2>6. CASE LoopCrash(w)
    BY <2>6 DEF LoopCrash
  <2> QED BY <1>1, <2>1, <2>2, <2>3, <2>4, <2>5, <2>6 DEF LoopStep
<1>2. CASE StartupStep
  <2>1. CASE RecountRow
    BY <2>1, RecountType DEF RecountRow
  <2>2. CASE SelectRow
    BY <2>2 DEF SelectRow
  <2>3. CASE SetCounter
    <3>1. remain' \in Nat /\ astray' = TRUE
      BY <2>3 DEF SetCounter
    <3> QED BY <2>3, <3>1 DEF SetCounter
  <2>4. CASE ForgetSnapshot
    BY <2>4, DropType DEF ForgetSnapshot
  <2> QED BY <1>2, <2>1, <2>2, <2>3, <2>4 DEF StartupStep
<1>3. CASE AdminStep
  <2>1. CASE ResetCounter
    <3>1. remain' \in Nat \cup {Missing} /\ astray' \in BOOLEAN
      BY <2>1, SeedType DEF ResetCounter
    <3> QED BY <2>1, <3>1 DEF ResetCounter
  <2>2. CASE ResetKeys \/ ResetSeats
    BY <2>2, DropType DEF ResetKeys, ResetSeats
  <2>3. CASE FlushCache
    BY <2>3, DropType DEF FlushCache
  <2> QED BY <1>3, <2>1, <2>2, <2>3 DEF AdminStep
<1>4. CASE LockExpires
  BY <1>4 DEF LockExpires
<1> QED BY <1>1, <1>2, <1>3, <1>4

LEMMA NextTypes == TypeOK /\ [Next]_vars => TypeOK'
<1> SUFFICES ASSUME TypeOK, [Next]_vars PROVE TypeOK'
  OBVIOUS
<1>0. ShowTypeOK /\ TrafficTypeOK /\ ReaderTypes /\ SyncTypeOK
  BY DEF TypeOK, ReadTypeOK, ReaderTypes, Blinds
<1>1. ShowTypeOK' /\ TrafficTypeOK' /\ ReaderTypes' /\ SyncTypeOK'
  <2>1. ASSUME NEW t \in Tickets, ServeTicket(t) \/ AskRefund(t)
        PROVE  ShowTypeOK' /\ TrafficTypeOK' /\ ReaderTypes' /\ SyncTypeOK'
    <3>1. ShowTypeOK' /\ TrafficTypeOK'
      BY <1>0, <2>1, TicketTypes DEF ServeTicket, AskRefund
    <3>2. ReaderTypes' /\ SyncTypeOK'
      BY <1>0, <2>1 DEF ServeTicket, AskRefund, ReaderTypes, SyncTypeOK
    <3> QED BY <3>1, <3>2
  <2>2. ASSUME NEW x \in Readers, ServeRead(x)
        PROVE  ShowTypeOK' /\ TrafficTypeOK' /\ ReaderTypes' /\ SyncTypeOK'
    <3>1. ShowTypeOK' /\ ReaderTypes'
      BY <1>0, <2>2, ReaderStepTypes DEF ServeRead
    <3>2. TrafficTypeOK' /\ SyncTypeOK'
      BY <1>0, <2>2 DEF ServeRead, TrafficTypeOK, SyncTypeOK
    <3> QED BY <3>1, <3>2
  <2>3. ASSUME (\E w \in Syncers : RunLoop(w) \/ Crash(w)) \/ Startup \/ Administer \/ FreeLock
        PROVE  ShowTypeOK' /\ TrafficTypeOK' /\ ReaderTypes' /\ SyncTypeOK'
    <3>1. ShowTypeOK' /\ SyncTypeOK'
      BY <1>0, <2>3, SyncStepTypes DEF RunLoop, Crash, Startup, Administer, FreeLock
    <3>2. TrafficTypeOK' /\ ReaderTypes'
      BY <1>0, <2>3 DEF RunLoop, Crash, Startup, Administer, FreeLock, TrafficTypeOK, ReaderTypes
    <3> QED BY <3>1, <3>2
  <2>4. CASE Expire
    <3>1. ShowTypeOK'
      BY <1>0, <2>4, NoSnapType DEF Expire, ShowTypeOK
    <3> QED BY <1>0, <2>4, <3>1 DEF Expire, TrafficTypeOK, ReaderTypes, SyncTypeOK
  <2>6. CASE KeyExpires
    <3>1. ShowTypeOK'
      BY <1>0, <2>6, ShowAssumption DEF KeyExpires, ShowTypeOK
    <3> QED BY <1>0, <2>6, <3>1 DEF KeyExpires, TrafficTypeOK, ReaderTypes, SyncTypeOK
  <2>5. CASE UNCHANGED vars
    BY <1>0, <2>5 DEF vars, ShowTypeOK, TrafficTypeOK, ReaderTypes, SyncTypeOK
  <2> QED BY <2>1, <2>2, <2>3, <2>4, <2>5, <2>6 DEF Next
<1>2. since' \in [Readers -> [sold : SUBSET Seats, taken : SUBSET Seats]]
  <2>1. sold' \subseteq Seats /\ Taken' \subseteq Seats
    BY <1>1 DEF ShowTypeOK, Taken
  <2>2. since \in [Readers -> [sold : SUBSET Seats, taken : SUBSET Seats]]
    BY DEF TypeOK, ReadTypeOK
  <2>3. CASE Observe
    BY <2>1, <2>2, <2>3 DEF Observe
  <2>4. CASE UNCHANGED vars
    BY <2>2, <2>4 DEF vars
  <2> QED BY <2>3, <2>4 DEF Next, ServeTicket, AskRefund, ServeRead, RunLoop, Crash, Startup,
                            Administer, FreeLock, Expire, KeyExpires
<1>3. UNCHANGED may
  <2>1. Next => Observe
    BY DEF Next, ServeTicket, AskRefund, ServeRead, RunLoop, Crash, Startup, Administer,
           FreeLock, Expire, KeyExpires
  <2> QED BY <2>1 DEF Observe, vars
<1> QED BY <1>1, <1>2, <1>3 DEF TypeOK, ReadTypeOK, ReaderTypes, Blinds

\* The rows, keys, counters, pages and programs of a show keep their types: the
\* counter is never below 0, whoever increments, seeds, resets or forgets it.
THEOREM ShowTypes == Spec => []TypeOK
BY InitTypes, NextTypes, PTL DEF Spec

-----------------------------------------------------------------------------
(* What is sold is shown                                                   *)

\* The request has read the seats that are sold.
HasConfirmed(x) ==
    CASE kind[x] = "concert" -> rpc[x] \notin {"idle", "confirmed", "over"}
      [] kind[x] = "holds" -> /\ rpc[x] \notin {"idle", "holds", "hc", "confirmed", "over"}
                              /\ "query" \notin blind[x]
      [] OTHER -> FALSE

\* Its page has those that were sold when it came and are sold still.
ShownInv == \A x \in Readers : HasConfirmed(x) => since[x].sold \subseteq page[x].confirmed

LEMMA SinceShrinks ==
    ASSUME TypeOK, TypeOK', [Next]_vars, NEW x \in Readers, rpc'[x] # "idle"
    PROVE  /\ rpc'[x] # "over" => since'[x].sold \subseteq since[x].sold \cap sold'
                                  \/ UNCHANGED vars
           /\ kind'[x] = kind[x]
<1>1. CASE UNCHANGED vars
  BY <1>1 DEF vars
<1>2. CASE Next
  <2>1. Observe
    BY <1>2 DEF Next, ServeTicket, AskRefund, ServeRead, RunLoop, Crash, Startup, Administer,
                FreeLock, Expire, KeyExpires
  <2>2. UNCHANGED kind
    BY <1>2 DEF Next, ServeTicket, AskRefund, ServeRead, RunLoop, Crash, Startup,
                Administer, FreeLock, Expire, KeyExpires, ReadStep, ReadRow, ReadConfirmed,
                QueryFails, ReadHolds, CountHolds, SnapshotHit, SnapshotMiss, BuildSnapshot,
                SeedFromRow, StoreSnapshot, Count, Repair, CacheFails, Leave
  <2>3. rpc'[x] # "over" => since'[x].sold = since[x].sold \cap sold'
    BY <2>1 DEF Observe
  <2> QED BY <2>2, <2>3
<1> QED BY <1>1, <1>2

LEMMA ReadersKeepWhatTheyRead ==
    ASSUME TypeOK, NEW x \in Readers, NEW y \in Readers, ReadStep(y), HasConfirmed(x)'
    PROVE  \/ HasConfirmed(x) /\ page[x].confirmed \subseteq page'[x].confirmed
           \/ page'[x].confirmed = sold'
<1> USE DEF TypeOK, ReadTypeOK, ReaderPCs, Kinds, Pages, On, To, Confirm, Mark, SetRow, Blind,
        HasConfirmed
<1>1. CASE x # y
  <2>1. UNCHANGED <<rpc[x], kind[x], page[x], blind[x]>>
    BY <1>1 DEF ReadStep, ReadRow, ReadConfirmed, QueryFails, ReadHolds, CountHolds,
                SnapshotHit, SnapshotMiss, BuildSnapshot, SeedFromRow, StoreSnapshot, Count,
                Repair, CacheFails, Leave
  <2> QED BY <2>1
<1>2. CASE x = y
  <2>1. CASE ReadRow(y) \/ Leave(y)
    BY <1>2, <2>1 DEF ReadRow, Leave
  <2>2. CASE ReadConfirmed(y)
    BY <1>2, <2>2 DEF ReadConfirmed
  <2>3. CASE ReadHolds(y)
    <3>1. /\ rpc[y] \in {"holds", "again"} /\ UNCHANGED kind
          /\ \E S \in SUBSET Seats : page' = [page EXCEPT ![y].holds = S]
          /\ rpc' = [rpc EXCEPT ![y] = IF rpc[y] = "again" THEN "fill"
                                       ELSE IF kind[y] = "concert" THEN "snapshot" ELSE "hc"]
      BY <1>2, <2>3 DEF ReadHolds, ShowTypeOK
    <3>2. blind[y] \subseteq blind'[y]
      BY <2>3 DEF ReadHolds
    <3>3. page'[y].confirmed = page[y].confirmed
      BY <3>1
    <3> QED BY <1>2, <3>1, <3>2, <3>3
  <2>4. CASE SnapshotHit(y) \/ SnapshotMiss(y)
    BY <1>2, <2>4 DEF SnapshotHit, SnapshotMiss
  <2>5. CASE BuildSnapshot(y) \/ SeedFromRow(y) \/ Count(y) \/ Repair(y)
    BY <1>2, <2>5 DEF BuildSnapshot, SeedFromRow, Count, Repair
  <2>6. CASE StoreSnapshot(y)
    BY <1>2, <2>6 DEF StoreSnapshot
  <2>7. CASE QueryFails(y) \/ CountHolds(y) \/ CacheFails(y)
    BY <1>2, <2>7 DEF QueryFails, CountHolds, CacheFails
  <2> QED BY <2>1, <2>2, <2>3, <2>4, <2>5, <2>6, <2>7 DEF ReadStep
<1> QED BY <1>1, <1>2

LEMMA NextShown == TypeOK /\ TypeOK' /\ ShownInv /\ [Next]_vars => ShownInv'
<1> SUFFICES ASSUME TypeOK, TypeOK', ShownInv, [Next]_vars, NEW x \in Readers, HasConfirmed(x)'
             PROVE  since'[x].sold \subseteq page'[x].confirmed
  BY DEF ShownInv
<1>1. rpc'[x] # "idle" /\ rpc'[x] # "over"
  BY DEF HasConfirmed
<1>2. CASE UNCHANGED vars
  BY <1>2 DEF vars, ShownInv, HasConfirmed
<1>3. CASE ~UNCHANGED vars
  <2>1. since'[x].sold \subseteq since[x].sold \cap sold'
    BY <1>1, <1>3, SinceShrinks
  <2>2. CASE \E y \in Readers : ReadStep(y)
    BY <2>1, <2>2, ReadersKeepWhatTheyRead DEF ShownInv
  <2>3. CASE UNCHANGED readVars
    BY <2>1, <2>3 DEF ShownInv, HasConfirmed
  <2> QED BY <1>3, <2>2, <2>3 DEF Next, ServeTicket, AskRefund, ServeRead, RunLoop, Crash,
                                  Startup, Administer, FreeLock, Expire, KeyExpires
<1> QED BY <1>2, <1>3

\* Whatever requests, refunds, loops and operators do, whatever expires and
\* whichever calls of Redis fail, the page of a concert and booking-holds show
\* every seat that was sold when the request came and is sold still: but for a
\* booking-holds whose query failed and was passed over.
THEOREM SoldIsShown == Spec => []BookedIsShown
<1>1. Init => ShownInv
  BY DEF Init, ReadInit, ShownInv, HasConfirmed
<1>2. TypeOK /\ ShownInv => BookedIsShown
  BY DEF ShownInv, HasConfirmed, BookedIsShown, Answers, TypeOK, ReadTypeOK, Kinds
<1> QED BY <1>1, <1>2, NextShown, ShowTypes, PTL DEF Spec

-----------------------------------------------------------------------------
(* A snapshot out of date is about to go                                   *)

\* Somebody has booked or refunded a seat and not deleted the snapshot yet.
Owed == \E t \in Tickets : tpc[t] \in {"booked", "tell", "forget"}

\* What a request is about to store is out of date only if a DEL is to come, or
\* has overtaken it.
OwedInv ==
    /\ SnapshotIsOwed
    /\ \A x \in fresh : fill[x].confirmed # sold => Owed

LEMMA DroppedIsOwed ==
    ASSUME TypeOK, DropSnap
    PROVE  OwedInv'
<1>1. ~(snap'.there /\ ~snap'.late) /\ fresh' = {}
  BY DEF TypeOK, ShowTypeOK, Snapshots, DropSnap, NoSnap
<1> QED BY <1>1 DEF OwedInv, SnapshotIsOwed

LEMMA TicketOwes ==
    ASSUME TypeOK, OwedInv, UNCHANGED fill, NEW t \in Tickets, TicketStep(t) \/ Refund(t)
    PROVE  OwedInv'
<1> USE DEF TypeOK, TrafficTypeOK, TicketPCs, At, GoTo
<1>1. CASE Announce(t) \/ Tell(t) \/ Forget(t)
  BY <1>1, DroppedIsOwed DEF Announce, Tell, Forget
<1>2. CASE Book(t) \/ Refund(t)
  <2>1. Owed'
    BY <1>2 DEF Book, Refund, Owed
  <2> QED BY <2>1 DEF OwedInv, SnapshotIsOwed, Owed
<1>3. CASE UNCHANGED <<snap, sold, fresh>> /\ (Owed => Owed')
  BY <1>3 DEF OwedInv, SnapshotIsOwed, Owed
<1>4. CASE Finalize(t)
  <2>1. CASE tpc[t] = "booked"
    <3>1. tpc' = [tpc EXCEPT ![t] = "tell"]
      BY <1>4, <2>1 DEF Finalize
    <3> QED BY <1>3, <1>4, <3>1 DEF Finalize, Owed
  <2>2. CASE tpc[t] # "booked"
    <3>1. tpc[t] = "failing" /\ \E pc : tpc' = [tpc EXCEPT ![t] = pc]
      BY <1>4, <2>2 DEF Finalize
    <3> QED BY <1>3, <1>4, <3>1 DEF Finalize, Owed
  <2> QED BY <2>1, <2>2
<1>5. ASSUME UNCHANGED <<snap, sold, fresh>>, tpc[t] \notin {"booked", "tell", "forget"},
             \E pc \in TicketPCs : tpc' = [tpc EXCEPT ![t] = pc]
      PROVE  OwedInv'
  BY <1>3, <1>5 DEF Owed
<1>6. CASE CheckCounter(t) \/ SeedCounter(t) \/ Decrement(t) \/ SoldOut(t)
  BY <1>5, <1>6 DEF CheckCounter, SeedCounter, Decrement, SoldOut
<1>7. CASE MarkDirty(t) \/ Hold(t) \/ Undo(t) \/ Release(t)
  BY <1>5, <1>7 DEF MarkDirty, Hold, Undo, Release
<1>8. CASE BookFails(t) \/ GiveBack(t) \/ FreeSeat(t) \/ Restore(t)
  BY <1>5, <1>8 DEF BookFails, GiveBack, FreeSeat, Restore
<1> QED BY <1>1, <1>2, <1>4, <1>6, <1>7, <1>8 DEF TicketStep

LEMMA ReaderOwes ==
    ASSUME TypeOK, OwedInv, UNCHANGED tpc, NEW x \in Readers, ReadStep(x)
    PROVE  OwedInv'
<1> USE DEF TypeOK, ReadTypeOK
<1>1. CASE BuildSnapshot(x)
  BY <1>1 DEF BuildSnapshot, OwedInv, SnapshotIsOwed, Owed
<1>2. CASE StoreSnapshot(x)
  <2>1. \/ snap'.confirmed = fill[x].confirmed /\ (~snap'.late => x \in fresh)
        \/ UNCHANGED snap
    <3>1. CASE snap' = [there |-> TRUE, confirmed |-> fill[x].confirmed, late |-> x \notin fresh]
      BY <3>1
    <3> QED BY <1>2, <3>1 DEF StoreSnapshot
  <2>2. /\ fresh' = fresh \ {x} /\ UNCHANGED sold
        /\ \A y \in fresh' : fill'[y] = fill[y]
    BY <1>2 DEF StoreSnapshot, ShowTypeOK
  <2> QED BY <2>1, <2>2 DEF OwedInv, SnapshotIsOwed, Owed
<1>3. ASSUME UNCHANGED <<snap, sold, fresh, fill>>
      PROVE  OwedInv'
  BY <1>3 DEF OwedInv, SnapshotIsOwed, Owed
<1> QED BY <1>1, <1>2, <1>3 DEF ReadStep, ReadRow, ReadConfirmed, QueryFails, ReadHolds,
                CountHolds, SnapshotHit, SnapshotMiss, SeedFromRow, Count, Repair,
                CacheFails, Leave

LEMMA NextOwed == TypeOK /\ OwedInv /\ [Next]_vars => OwedInv'
<1> SUFFICES ASSUME TypeOK, OwedInv, [Next]_vars PROVE OwedInv'
  OBVIOUS
<1>0. ASSUME UNCHANGED <<snap, sold, fresh, fill, tpc>>
      PROVE  OwedInv'
  BY <1>0 DEF OwedInv, SnapshotIsOwed, Owed
<1>1. ASSUME NEW t \in Tickets, ServeTicket(t) \/ AskRefund(t)
      PROVE  OwedInv'
  BY <1>1, TicketOwes DEF ServeTicket, AskRefund
<1>2. ASSUME NEW x \in Readers, ServeRead(x)
      PROVE  OwedInv'
  BY <1>2, ReaderOwes DEF ServeRead
<1>3. ASSUME NEW w \in Syncers, RunLoop(w) \/ Crash(w)
      PROVE  OwedInv'
  BY <1>0, <1>3 DEF RunLoop, Crash, LoopStep, LoopCrash, Acquire, Pop, ReadCounter, WriteRow,
                    WriteFails
<1>4. CASE Startup
  <2>1. CASE ForgetSnapshot
    BY <2>1, DroppedIsOwed DEF ForgetSnapshot
  <2>2. CASE RecountRow \/ SelectRow \/ SetCounter
    BY <1>0, <1>4, <2>2 DEF Startup, RecountRow, SelectRow, SetCounter
  <2> QED BY <1>4, <2>1, <2>2 DEF Startup, StartupStep
<1>5. CASE Administer
  <2>1. CASE ResetKeys \/ FlushCache
    BY <2>1, DroppedIsOwed DEF ResetKeys, FlushCache
  <2>2. CASE ResetSeats \/ ResetCounter
    BY <1>0, <1>5, <2>2 DEF Administer, ResetSeats, ResetCounter
  <2> QED BY <1>5, <2>1, <2>2 DEF Administer, AdminStep
<1>6. CASE FreeLock
  BY <1>0, <1>6 DEF FreeLock, LockExpires
<1>7. CASE Expire
  <2>1. UNCHANGED <<sold, fresh, fill, tpc>> /\ (snap' = NoSnap \/ UNCHANGED snap)
    BY <1>7 DEF Expire
  <2> QED BY <2>1 DEF OwedInv, SnapshotIsOwed, Owed, NoSnap
<1>8. CASE KeyExpires \/ UNCHANGED vars
  BY <1>0, <1>8 DEF KeyExpires, vars
<1> QED BY <1>1, <1>2, <1>3, <1>4, <1>5, <1>6, <1>7, <1>8 DEF Next

\* A snapshot that shows other seats than those sold is deleted by whoever booked
\* or refunded the difference, or was stored by a request that a DEL overtook, or
\* left behind by a DEL that failed.
THEOREM StaleIsOwed == Spec => []SnapshotIsOwed
<1>1. Init => OwedInv
  BY DEF Init, NoSnap, OwedInv, SnapshotIsOwed
<1>2. OwedInv => SnapshotIsOwed
  BY DEF OwedInv
<1> QED BY <1>1, <1>2, NextOwed, ShowTypes, PTL DEF Spec

-----------------------------------------------------------------------------
(* A marked change is copied                                               *)

\* One loop at a time is in a batch, and it has the lock.
Alone == \A w \in Syncers : Batch(w) => lock = w

\* Somebody has marked the counter, or is about to.
Marked == dirty \/ \E t \in Tickets : tpc[t] \in {"mark", "remark"}

\* What a loop carries to RDS is the counter as it is, or else the counter has
\* been marked since.
KeptInv ==
    /\ Alone
    /\ MarkIsKept
    /\ \A w \in Syncers :
         wpc[w] = "write" /\ remain # Missing /\ ~astray
           => copy[w] = Least(remain, Total) \/ Marked

\* A step that gives no loop a batch, and neither releases the lock nor touches
\* what the loops copy, leaves KeptInv alone.
LEMMA KeptFrame ==
    ASSUME KeptInv, UNCHANGED <<wpc, copy, lock>>,
           \/ astray' \/ Marked'
           \/ UNCHANGED <<remain, dbRemain, astray>> /\ (Marked => Marked')
    PROVE  KeptInv'
BY DEF KeptInv, Alone, Batch, MarkIsKept, Marked

LEMMA KeptAstray ==
    ASSUME Alone, UNCHANGED <<wpc, lock>>, astray'
    PROVE  KeptInv'
BY DEF KeptInv, Alone, Batch, MarkIsKept

LEMMA TicketKeeps ==
    ASSUME TypeOK, KeptInv, UNCHANGED loopVars, NEW t \in Tickets, TicketStep(t) \/ Refund(t)
    PROVE  KeptInv'
<1> USE DEF TypeOK, ShowTypeOK, TrafficTypeOK, At, GoTo
<1>1. CASE Decrement(t) \/ Undo(t) \/ MarkDirty(t)
  <2>1. astray' \/ Marked'
    BY <1>1 DEF Decrement, Undo, MarkDirty, Marked
  <2> QED BY <2>1, KeptFrame
<1>2. CASE GiveBack(t) \/ Refund(t) \/ Forget(t) \/ Restore(t)
  <2>1. astray'
    BY <1>2 DEF GiveBack, Refund, Forget, Restore, PutRemain
  <2> QED BY <2>1, KeptAstray DEF KeptInv
<1>3. ASSUME UNCHANGED dirty, tpc[t] \notin {"mark", "remark"},
             \E pc \in TicketPCs : tpc' = [tpc EXCEPT ![t] = pc]
      PROVE  Marked => Marked'
  BY <1>3 DEF Marked
<1>4. CASE CheckCounter(t) \/ SoldOut(t) \/ Hold(t) \/ Announce(t) \/ Release(t)
  <2>1. Marked => Marked'
    BY <1>3, <1>4 DEF CheckCounter, SoldOut, Hold, Announce, Release, TicketPCs
  <2> QED BY <1>4, <2>1, KeptFrame DEF CheckCounter, SoldOut, Hold, Announce, Release
<1>5. CASE Book(t) \/ BookFails(t) \/ Finalize(t) \/ Tell(t) \/ FreeSeat(t)
  <2>1. Marked => Marked'
    BY <1>3, <1>5 DEF Book, BookFails, Finalize, Tell, FreeSeat, TicketPCs
  <2> QED BY <1>5, <2>1, KeptFrame DEF Book, BookFails, Finalize, Tell, FreeSeat
<1>6. CASE SeedCounter(t)
  <2>1. Marked => Marked'
    BY <1>3, <1>6 DEF SeedCounter, TicketPCs
  <2>2. astray' \/ UNCHANGED <<remain, astray>>
    BY <1>6 DEF SeedCounter, SeedRemain, PutRemain
  <2> QED BY <1>6, <2>1, <2>2, KeptFrame DEF SeedCounter
<1> QED BY <1>1, <1>2, <1>4, <1>5, <1>6 DEF TicketStep

LEMMA LoopKeeps ==
    ASSUME TypeOK, KeptInv, UNCHANGED tpc, NEW w \in Syncers, LoopStep(w) \/ LoopCrash(w)
    PROVE  KeptInv'
<1> USE DEF TypeOK, ShowTypeOK, SyncTypeOK, Step, Batch
<1>1. wpc[w] \in {"pop", "read", "write"} =>
        \A v \in Syncers : v # w => wpc[v] \in {"sleep", "over"}
  BY ShowAssumption DEF KeptInv, Alone
<1>2. CASE Acquire(w)
  <2>1. \A v \in Syncers : ~Batch(v)
    BY <1>2, ShowAssumption DEF Acquire, KeptInv, Alone
  <2> QED BY <1>2, <2>1 DEF Acquire, KeptInv, Alone, MarkIsKept, Marked
<1>3. CASE Pop(w)
  <2>1. CASE dirty
    <3>1. wpc' = [wpc EXCEPT ![w] = "read"] /\ wpc[w] = "pop" /\ dirty' = FALSE
      BY <1>3, <2>1 DEF Pop
    <3>2. MarkIsKept'
      BY <3>1 DEF MarkIsKept
    <3>3. \A v \in Syncers : wpc'[v] # "write"
      BY <1>1, <3>1
    <3> QED BY <1>3, <3>1, <3>2, <3>3 DEF Pop, KeptInv, Alone
  <2>2. CASE ~dirty
    <3>1. wpc' = [wpc EXCEPT ![w] = "sleep"] /\ wpc[w] = "pop" /\ dirty' = FALSE
      BY <1>3, <2>2 DEF Pop
    <3>2. MarkIsKept'
      BY <1>3, <2>2, <3>1 DEF Pop, KeptInv, MarkIsKept
    <3>3. \A v \in Syncers : wpc'[v] # "write"
      BY <1>1, <3>1
    <3> QED BY <1>3, <3>1, <3>2, <3>3 DEF Pop, KeptInv, Alone
  <2> QED BY <2>1, <2>2
<1>4. CASE ReadCounter(w)
  <2>1. CASE remain = Missing
    BY <1>4, <2>1 DEF ReadCounter, KeptInv, Alone, MarkIsKept
  <2>2. CASE remain # Missing
    <3>1. /\ wpc[w] = "read" /\ wpc' = [wpc EXCEPT ![w] = "write"]
          /\ copy' = [copy EXCEPT ![w] = Least(remain, Total)]
          /\ UNCHANGED <<remain, lock>>
      BY <1>4, <2>2 DEF ReadCounter
    <3>2. MarkIsKept'
      BY <3>1 DEF MarkIsKept
    <3>3. Alone'
      BY <3>1 DEF KeptInv, Alone
    <3>4. \A v \in Syncers : wpc'[v] = "write" => v = w
      BY <1>1, <3>1
    <3> QED BY <3>1, <3>2, <3>3, <3>4 DEF KeptInv
  <2> QED BY <2>1, <2>2
<1>5. CASE WriteRow(w)
  <2>1. /\ wpc[w] = "write" /\ wpc' = [wpc EXCEPT ![w] = "sleep"]
        /\ dbRemain' = copy[w] /\ UNCHANGED <<remain, dirty, astray, lock>>
    BY <1>5 DEF WriteRow
  <2>2. \A v \in Syncers : wpc'[v] \notin {"read", "write"}
    BY <1>1, <2>1
  <2>3. remain # Missing /\ ~astray => copy[w] = Least(remain, Total) \/ Marked
    BY <2>1 DEF KeptInv
  <2>4. MarkIsKept'
    BY <2>1, <2>3 DEF MarkIsKept, Marked, Least
  <2> QED BY <2>1, <2>2, <2>4 DEF KeptInv, Alone
<1>6. CASE WriteFails(w)
  <2>1. astray' /\ wpc' = [wpc EXCEPT ![w] = "sleep"] /\ UNCHANGED lock
    BY <1>6 DEF WriteFails
  <2> QED BY <2>1 DEF KeptInv, Alone, MarkIsKept
<1>7. CASE LoopCrash(w)
  <2>1. /\ wpc' = [wpc EXCEPT ![w] = "over"]
        /\ copy' = [copy EXCEPT ![w] = 0]
        /\ astray' = (astray \/ wpc[w] \in {"read", "write"})
        /\ UNCHANGED <<remain, dbRemain, dirty, lock>>
    BY <1>7 DEF LoopCrash
  <2>2. Alone'
    BY <2>1 DEF KeptInv, Alone
  <2>3. CASE wpc[w] \in {"read", "write"}
    BY <2>1, <2>2, <2>3 DEF KeptInv, MarkIsKept
  <2>4. CASE wpc[w] \notin {"read", "write"}
    <3>1. MarkIsKept'
      BY <2>1, <2>4 DEF KeptInv, MarkIsKept
    <3> QED BY <2>1, <2>2, <2>4, <3>1 DEF KeptInv, Marked
  <2> QED BY <2>3, <2>4
<1> QED BY <1>2, <1>3, <1>4, <1>5, <1>6, <1>7 DEF LoopStep

LEMMA NextKeeps == TypeOK /\ KeptInv /\ [Next]_vars /\ ~FlushCache => KeptInv'
<1> SUFFICES ASSUME TypeOK, KeptInv, [Next]_vars, ~FlushCache PROVE KeptInv'
  OBVIOUS
<1>1. ASSUME NEW t \in Tickets, ServeTicket(t) \/ AskRefund(t)
      PROVE  KeptInv'
  BY <1>1, TicketKeeps DEF ServeTicket, AskRefund
<1>2. ASSUME NEW x \in Readers, ServeRead(x)
      PROVE  KeptInv'
  <2>1. UNCHANGED <<dbRemain, dirty, tpc, loopVars>>
    BY <1>2 DEF ServeRead, ReadStep, ReadRow, ReadConfirmed, QueryFails, ReadHolds,
                CountHolds, SnapshotHit, SnapshotMiss, BuildSnapshot, SeedFromRow,
                StoreSnapshot, Count, Repair, CacheFails, Leave
  <2>2. astray' \/ UNCHANGED <<remain, astray>>
    BY <1>2 DEF ServeRead, ReadStep, ReadRow, ReadConfirmed, QueryFails, ReadHolds,
                CountHolds, SnapshotHit, SnapshotMiss, BuildSnapshot, SeedFromRow,
                StoreSnapshot, Count, Repair, CacheFails, Leave, SeedRemain, PutRemain
  <2> QED BY <2>1, <2>2, KeptFrame DEF Marked
<1>3. ASSUME NEW w \in Syncers, RunLoop(w) \/ Crash(w)
      PROVE  KeptInv'
  BY <1>3, LoopKeeps DEF RunLoop, Crash
<1>4. CASE Startup
  <2>1. UNCHANGED <<dirty, tpc, loopVars>>
        /\ (astray' \/ UNCHANGED <<remain, dbRemain, astray>>)
    BY <1>4 DEF Startup, StartupStep, RecountRow, SelectRow, SetCounter, ForgetSnapshot, PutRemain
  <2> QED BY <2>1, KeptFrame DEF Marked
<1>5. CASE Administer
  <2>1. UNCHANGED <<dirty, tpc, loopVars, dbRemain>> /\ (astray' \/ UNCHANGED <<remain, astray>>)
    BY <1>5 DEF Administer, AdminStep, ResetKeys, ResetSeats, ResetCounter, PutRemain, SeedRemain
  <2> QED BY <2>1, KeptFrame DEF Marked
<1>6. CASE FreeLock
  BY <1>6 DEF FreeLock, LockExpires, KeptInv, Alone, MarkIsKept, Marked, Batch
<1>7. CASE Expire
  BY <1>7, KeptFrame DEF Expire, Marked
<1>8. CASE UNCHANGED vars
  BY <1>8, KeptFrame DEF vars, Marked
<1>9. CASE KeyExpires
  <2>1. /\ UNCHANGED <<dirty, tpc, loopVars, dbRemain, astray>>
        /\ remain' = Missing \/ UNCHANGED remain
    BY <1>9 DEF KeyExpires
  <2>2. CASE UNCHANGED remain
    BY <2>1, <2>2, KeptFrame DEF Marked
  <2>3. CASE remain' = Missing
    BY <2>1, <2>3 DEF KeptInv, Alone, Batch, MarkIsKept
  <2> QED BY <2>1, <2>2, <2>3
<1> QED BY <1>1, <1>2, <1>3, <1>4, <1>5, <1>6, <1>7, <1>8, <1>9 DEF Next

\* Any number of pods, dying at any point: as long as nobody flushes the cache,
\* and with it the lock, a marked change of the counter is not forgotten.
THEOREM MarksAreKept == Spec /\ [][~FlushCache]_vars => []MarkIsKept
<1>1. ASSUME Init
      PROVE  KeptInv
  <2>1. remain = Missing \/ dbRemain = Least(remain, Total)
    <3>1. sold \in SUBSET Seats /\ dbRemain = Recount(sold) /\ remain \in {dbRemain, Missing}
      BY <1>1 DEF Init
    <3>2. dbRemain \in Nat /\ dbRemain <= Total
      BY <3>1, RecountType
    <3> QED BY <3>1, <3>2, ShowAssumption DEF Least
  <2>2. \A w \in Syncers : wpc[w] \in {"sleep", "over"}
    BY <1>1 DEF Init
  <2> QED BY <2>1, <2>2 DEF KeptInv, Alone, Batch, MarkIsKept
<1>2. TypeOK /\ KeptInv /\ [Next]_vars /\ [~FlushCache]_vars => KeptInv'
  BY NextKeeps DEF vars, KeptInv, Alone, Batch, MarkIsKept, Marked
<1>3. KeptInv => MarkIsKept
  BY DEF KeptInv
<1> QED BY <1>1, <1>2, <1>3, ShowTypes, PTL DEF Spec

-----------------------------------------------------------------------------
(* What is taken is shown                                                  *)

\* A seat that is sold and no more on hold, and whose key keeps others off it.
Kept(s) == s \in sold /\ s \notin held /\ key[s] # Nobody

\* booking-holds has the seats on hold, and later those sold, that have been
\* taken ever since it came; in between, those it has not are sold.
TakenInv ==
    \A x \in Readers : kind[x] = "holds" =>
      /\ rpc[x] \in {"idle", "holds", "hc", "confirmed", "count", "repair", "answer", "over"}
      /\ rpc[x] \in {"hc", "confirmed"} /\ blind[x] = {}
           => \A s \in since[x].taken : s \in page[x].holds \/ Kept(s)
      /\ rpc[x] \in {"count", "repair", "answer"} /\ blind[x] = {}
           => since[x].taken \subseteq Answers(x)

\* A hold is only taken of a seat with no key.
OnlyFreeIsHeld == \A s \in held' \ held : key[s] = Nobody

LEMMA HoldsAreOfFree == TypeOK /\ [Next]_vars => OnlyFreeIsHeld
<1> SUFFICES ASSUME TypeOK, [Next]_vars PROVE OnlyFreeIsHeld
  OBVIOUS
<1>0. ASSUME held' \subseteq held
      PROVE  OnlyFreeIsHeld
  BY <1>0 DEF OnlyFreeIsHeld
<1>1. ASSUME NEW t \in Tickets, ServeTicket(t) \/ AskRefund(t)
      PROVE  OnlyFreeIsHeld
  <2>1. CASE Hold(t)
    BY <2>1 DEF Hold, OnlyFreeIsHeld
  <2>2. CASE ~Hold(t)
    BY <1>0, <1>1, <2>2
       DEF ServeTicket, AskRefund, TicketStep, CheckCounter, SeedCounter, Decrement, SoldOut,
           MarkDirty, Undo, Announce, Release, Book, BookFails, Finalize, Tell, GiveBack,
           Forget, FreeSeat, Restore, Refund, Free
  <2> QED BY <2>1, <2>2
<1>2. ASSUME NEW x \in Readers, ServeRead(x)
      PROVE  OnlyFreeIsHeld
  BY <1>0, <1>2
     DEF ServeRead, ReadStep, ReadRow, ReadConfirmed, QueryFails, ReadHolds, CountHolds,
         SnapshotHit, SnapshotMiss, BuildSnapshot, SeedFromRow, StoreSnapshot, Count,
         Repair, CacheFails, Leave
<1>3. CASE (\E w \in Syncers : RunLoop(w) \/ Crash(w)) \/ Startup \/ FreeLock
  BY <1>0, <1>3
     DEF RunLoop, Crash, LoopStep, LoopCrash, Acquire, Pop, ReadCounter, WriteRow, WriteFails,
         Startup, StartupStep, RecountRow, SelectRow, SetCounter, ForgetSnapshot, FreeLock,
         LockExpires
<1>4. CASE Administer
  BY <1>0, <1>4 DEF Administer, AdminStep, ResetKeys, ResetSeats, ResetCounter, FlushCache
<1>5. CASE Expire \/ KeyExpires
  BY <1>0, <1>5 DEF Expire, KeyExpires
<1>6. CASE UNCHANGED vars
  BY <1>0, <1>6 DEF vars
<1> QED BY <1>1, <1>2, <1>3, <1>4, <1>5, <1>6 DEF Next

\* A seat that was sold, and has been taken ever since, is sold still.
LEMMA KeptStays ==
    ASSUME OnlyFreeIsHeld, NEW s \in Taken', Kept(s)
    PROVE  Kept(s)'
BY DEF OnlyFreeIsHeld, Taken, Kept

LEMMA TakenFrame ==
    ASSUME TypeOK, TakenInv, OnlyFreeIsHeld, UNCHANGED readVars, Observe
    PROVE  TakenInv'
<1> SUFFICES ASSUME NEW x \in Readers, kind[x] = "holds"
             PROVE  /\ rpc[x] \in {"idle", "holds", "hc", "confirmed", "count", "repair",
                                   "answer", "over"}
                    /\ rpc[x] \in {"hc", "confirmed"} /\ blind[x] = {}
                         => \A s \in since'[x].taken : s \in page[x].holds \/ Kept(s)'
                    /\ rpc[x] \in {"count", "repair", "answer"} /\ blind[x] = {}
                         => since'[x].taken \subseteq Answers(x)
  BY DEF TakenInv, Answers
<1>1. rpc[x] \notin {"idle", "over"} => since'[x].taken = since[x].taken \cap Taken'
  BY DEF Observe
<1> QED BY <1>1, KeptStays DEF TakenInv

LEMMA ReaderTakes ==
    ASSUME TypeOK, TakenInv, NEW y \in Readers, ReadStep(y), Observe
    PROVE  TakenInv'
<1> DEFINE Before == {"idle", "holds", "hc", "confirmed", "count", "repair", "answer", "over"}
           After == {"count", "repair", "answer"}
<1> USE DEF On, To, Confirm, Mark, SetRow
<1>0. /\ UNCHANGED <<sold, held, key, kind>>
      /\ \A x \in Readers : x # y => UNCHANGED <<rpc[x], page[x], blind[x]>>
  BY DEF ReadStep, ReadRow, ReadConfirmed, QueryFails, ReadHolds, CountHolds, SnapshotHit,
         SnapshotMiss, BuildSnapshot, SeedFromRow, StoreSnapshot, Count, Repair, CacheFails,
         Leave, Blind, TypeOK, ReadTypeOK
<1>1. \A x \in Readers : rpc'[x] \notin {"idle", "over"}
        => since'[x].taken = since[x].taken \cap Taken
  BY <1>0 DEF Observe, Taken
<1>2. ASSUME kind[y] = "holds"
      PROVE  /\ rpc'[y] \in Before
             /\ rpc'[y] \in {"hc", "confirmed"} /\ blind'[y] = {} =>
                  \/ rpc[y] = "holds" /\ page'[y].holds = held
                  \/ rpc[y] = "hc" /\ blind[y] = {} /\ page'[y].holds = page[y].holds
             /\ rpc'[y] \in After /\ blind'[y] = {} =>
                  \/ /\ rpc[y] = "confirmed" /\ blind[y] = {}
                     /\ page'[y].holds = page[y].holds /\ page'[y].confirmed = sold
                  \/ rpc[y] \in After /\ blind[y] = {} /\ UNCHANGED page[y]
  <2> USE DEF TypeOK, ReadTypeOK
  <2>0. rpc[y] \in Before
    BY <1>2 DEF TakenInv
  <2>1. CASE ReadRow(y) \/ QueryFails(y)
    BY <1>2, <2>1 DEF ReadRow, QueryFails
  <2>2. CASE ReadHolds(y)
    <3>1. /\ rpc[y] = "holds" /\ rpc'[y] = "hc"
          /\ \/ page' = [page EXCEPT ![y].holds = held]
             \/ blind' = [blind EXCEPT ![y] = @ \cup {"redis"}]
      BY <1>2, <2>0, <2>2 DEF ReadHolds, Blind
    <3>2. CASE page' = [page EXCEPT ![y].holds = held]
      <4>1. page[y] \in Pages /\ page'[y] = [page[y] EXCEPT !.holds = held]
        BY <3>2
      <4>2. page'[y].holds = held /\ page'[y].confirmed = page[y].confirmed
        BY <4>1 DEF Pages
      <4> QED BY <3>1, <4>2
    <3>3. CASE blind' = [blind EXCEPT ![y] = @ \cup {"redis"}]
      BY <3>1, <3>3
    <3> QED BY <3>1, <3>2, <3>3
  <2>3. CASE CountHolds(y)
    BY <1>2, <2>3 DEF CountHolds, Pages
  <2>4. CASE ReadConfirmed(y)
    <3>1. /\ rpc[y] = "confirmed" /\ rpc'[y] = "count"
          /\ \/ page' = [page EXCEPT ![y].confirmed = sold] /\ UNCHANGED blind
             \/ blind' = [blind EXCEPT ![y] = @ \cup {"query"}]
      BY <1>2, <2>4 DEF ReadConfirmed, Blind
    <3>2. CASE page' = [page EXCEPT ![y].confirmed = sold]
      <4>1. page[y] \in Pages /\ page'[y] = [page[y] EXCEPT !.confirmed = sold]
        BY <3>2
      <4>2. page'[y].confirmed = sold /\ page'[y].holds = page[y].holds
        BY <4>1 DEF Pages
      <4> QED BY <3>1, <4>2
    <3>3. CASE blind' = [blind EXCEPT ![y] = @ \cup {"query"}]
      BY <3>1, <3>3
    <3> QED BY <3>1, <3>2, <3>3
  <2>5. CASE Count(y) \/ Repair(y) \/ CacheFails(y) \/ Leave(y)
    BY <1>2, <2>0, <2>5 DEF Count, Repair, CacheFails, Leave
  <2> QED BY <2>0, <2>1, <2>2, <2>3, <2>4, <2>5 DEF ReadStep, SnapshotHit, SnapshotMiss,
             BuildSnapshot, SeedFromRow, StoreSnapshot
<1>3. ASSUME NEW x \in Readers, kind'[x] = "holds"
      PROVE  /\ rpc'[x] \in Before
             /\ rpc'[x] \in {"hc", "confirmed"} /\ blind'[x] = {}
                  => \A s \in since'[x].taken : s \in page'[x].holds \/ Kept(s)'
             /\ rpc'[x] \in After /\ blind'[x] = {} => since'[x].taken \subseteq Answers(x)'
  <2>1. CASE x # y
    BY <1>0, <1>1, <1>3, <2>1 DEF TakenInv, Answers, Kept
  <2>2. CASE x = y
    BY <1>0, <1>1, <1>2, <1>3, <2>2 DEF TakenInv, Answers, Kept, Taken
  <2> QED BY <2>1, <2>2
<1> QED BY <1>3 DEF TakenInv

LEMMA NextTaken == TypeOK /\ TakenInv /\ [Next]_vars => TakenInv'
<1> SUFFICES ASSUME TypeOK, TakenInv, [Next]_vars
             PROVE  TakenInv'
  OBVIOUS
<1>1. ASSUME NEW x \in Readers, ServeRead(x)
      PROVE  TakenInv'
  BY <1>1, ReaderTakes DEF ServeRead
<1>2. CASE UNCHANGED vars
  BY <1>2 DEF vars, TakenInv, Answers, Kept
<1>3. ASSUME UNCHANGED readVars, Observe
      PROVE  TakenInv'
  BY <1>3, HoldsAreOfFree, TakenFrame
<1> QED BY <1>1, <1>2, <1>3 DEF Next, ServeTicket, AskRefund, RunLoop, Crash, Startup,
                                Administer, FreeLock, Expire, KeyExpires

\* booking-holds reads the seats on hold before those sold, so it misses none
\* that the worker moves from one to the other meanwhile, as long as the seat's
\* key is there: whatever expires, whatever operators delete, and unless one of
\* its two reads of seats failed and was taken for empty.
THEOREM TakenStaysShown == Spec => []TakenIsShown
<1>1. Init => TakenInv
  BY DEF Init, ReadInit, TakenInv
<1>2. TakenInv => TakenIsShown
  BY DEF TakenInv, TakenIsShown
<1> QED BY <1>1, <1>2, NextTaken, ShowTypes, PTL DEF Spec

=============================================================================
