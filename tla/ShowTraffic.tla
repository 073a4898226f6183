---------------------------- MODULE ShowTraffic ----------------------------
(***************************************************************************)
(* The writers of a show, as its readers see them: write-api's commit and  *)
(* refund and the worker's booking, one step per change of the shared      *)
(* data. ConcertCommit, ConcertWorker and ConcertRefund have the details.  *)
(***************************************************************************)
EXTENDS ShowStore

VARIABLES
    tpc,        \* where each ticket is
    val         \* the remain_count it has read or computed

trafficVars == <<tpc, val>>

TicketPCs == {"idle", "seed", "fix", "gate", "mark", "hold", "undo", "remark", "drop",
              "queued", "unsend", "booked", "tell", "failing", "failTell", "give",
              "done", "forget", "free", "put", "over"}

TrafficTypeOK ==
    /\ tpc \in [Tickets -> TicketPCs]
    /\ val \in [Tickets -> Nat]

At(t, pc) == tpc[t] = pc
GoTo(t, pc) == tpc' = [tpc EXCEPT ![t] = pc]
Read(t, n) == val' = [val EXCEPT ![t] = n]
Mine(t) == key[SeatOf[t]] = t
Free(t, who) ==
    /\ held' = held \ {SeatOf[t]}
    /\ key' = [key EXCEPT ![SeatOf[t]] = who]

-----------------------------------------------------------------------------
(* write-api: the commit                                                   *)

\* _seed_remain_count_if_missing: the counter is missing, or stuck at 0 with
\* nothing on hold.
CheckCounter(t) ==
    /\ At(t, "idle")
    /\ CASE remain = Missing -> GoTo(t, "seed") /\ Read(t, dbRemain)
         [] remain = 0 /\ held = {} -> GoTo(t, "fix") /\ Read(t, dbRemain)
         [] OTHER -> GoTo(t, "gate") /\ UNCHANGED val
    /\ UNCHANGED showVars

SeedCounter(t) ==
    /\ \/ At(t, "seed") /\ SeedRemain(val[t])
       \/ /\ At(t, "fix")
          /\ IF val[t] > 0 THEN PutRemain(val[t]) ELSE UNCHANGED <<remain, astray>>
    /\ GoTo(t, "gate")
    /\ Read(t, 0)
    /\ UNCHANGED <<sold, dbRemain, key, held, dirty, snap, fresh, meta>>

\* try_decrease_remain_if_enough, up to the SADD.
Decrement(t) ==
    /\ At(t, "gate")
    /\ remain > 0
    /\ remain' = remain - 1
    /\ GoTo(t, "mark")
    /\ UNCHANGED <<sold, dbRemain, key, held, dirty, snap, fresh, meta, astray, val>>

SoldOut(t) ==
    /\ At(t, "gate")
    /\ remain <= 0
    /\ GoTo(t, "over")
    /\ UNCHANGED <<showVars, val>>

\* SADD of the show to the dirty set, after the counter has changed. One that
\* fails is passed over.
MarkDirty(t) ==
    /\ tpc[t] \in {"mark", "remark"}
    /\ \/ dirty' = TRUE /\ UNCHANGED astray
       \/ "redis" \in may /\ astray' = TRUE /\ UNCHANGED dirty
    /\ GoTo(t, IF At(t, "mark") THEN "hold" ELSE "over")
    /\ UNCHANGED <<sold, dbRemain, key, held, remain, snap, fresh, meta, val>>

\* try_hold_seats. A SET NX that fails refuses no seat, and holds none.
Hold(t) ==
    /\ At(t, "hold")
    /\ \/ /\ key[SeatOf[t]] = Nobody
          /\ key' = [key EXCEPT ![SeatOf[t]] = t]
          /\ held' = held \cup {SeatOf[t]}
          /\ GoTo(t, "drop")
       \/ /\ key[SeatOf[t]] # Nobody
          /\ GoTo(t, "undo") /\ UNCHANGED <<key, held>>
       \/ /\ "redis" \in may
          /\ GoTo(t, "drop") /\ UNCHANGED <<key, held>>
    /\ UNCHANGED <<sold, dbRemain, remain, dirty, snap, fresh, meta, astray, val>>

\* adjust_remain of a refused or released hold; the mark follows. INCRBY makes
\* a missing counter 1.
Undo(t) ==
    /\ At(t, "undo")
    /\ remain' = IF remain = Missing THEN 1 ELSE remain + 1
    /\ GoTo(t, "remark")
    /\ UNCHANGED <<sold, dbRemain, key, held, dirty, snap, fresh, meta, astray, val>>

\* The hold is announced; the message may be sent or not.
Announce(t) ==
    /\ At(t, "drop")
    /\ DropSnap
    /\ GoTo(t, "queued") \/ GoTo(t, "unsend")
    /\ UNCHANGED <<sold, dbRemain, key, held, remain, dirty, meta, astray, val>>

\* release_seats, after a failed send. It tells no snapshot. If Redis does not
\* answer it takes the hold for somebody else's.
Release(t) ==
    /\ At(t, "unsend")
    /\ \/ Mine(t) /\ Free(t, Nobody) /\ GoTo(t, "undo")
       \/ ~Mine(t) /\ UNCHANGED <<key, held>> /\ GoTo(t, "over")
       \/ "redis" \in may /\ UNCHANGED <<key, held>> /\ GoTo(t, "over")
    /\ UNCHANGED <<sold, dbRemain, remain, dirty, snap, fresh, meta, astray, val>>

-----------------------------------------------------------------------------
(* worker-svc                                                              *)

\* COMMIT of the booking.
Book(t) ==
    /\ At(t, "queued")
    /\ SeatOf[t] \notin sold
    /\ sold' = sold \cup {SeatOf[t]}
    /\ GoTo(t, "booked")
    /\ UNCHANGED <<dbRemain, key, held, remain, dirty, snap, fresh, meta, astray, val>>

\* A unique index, or any other failure.
BookFails(t) ==
    /\ At(t, "queued")
    /\ GoTo(t, "failing")
    /\ UNCHANGED <<showVars, val>>

\* _finalize_concert_hold_by_ref: a hold that is no longer there ends nothing
\* and, after a failure, restores and tells nothing.
Finalize(t) ==
    /\ tpc[t] \in {"booked", "failing"}
    /\ IF Mine(t) THEN Free(t, IF At(t, "booked") THEN Sold ELSE Nobody)
                  ELSE UNCHANGED <<key, held>>
    /\ GoTo(t, IF At(t, "booked") THEN "tell" ELSE IF Mine(t) THEN "failTell" ELSE "over")
    /\ UNCHANGED <<sold, dbRemain, remain, dirty, snap, fresh, meta, astray, val>>

\* Mutant: the snapshot is left alone after a booking.
Tell_Nobody(t) ==
    /\ tpc[t] \in {"tell", "failTell"}
    /\ GoTo(t, IF At(t, "tell") THEN "done" ELSE "give")
    /\ UNCHANGED <<showVars, val>>

\* The DEL at the end of finalize and, after a booking, the one of
\* _concert_delete_read_caches, which comes even if finalize found no hold.
Tell(t) ==
    /\ tpc[t] \in {"tell", "failTell"}
    /\ DropSnap
    /\ GoTo(t, IF At(t, "tell") THEN "done" ELSE "give")
    /\ UNCHANGED <<sold, dbRemain, key, held, remain, dirty, meta, astray, val>>

\* _adjust_concert_remain leaves no mark.
GiveBack(t) ==
    /\ At(t, "give")
    /\ PutRemain(IF remain = Missing THEN 1 ELSE remain + 1)
    /\ GoTo(t, "over")
    /\ UNCHANGED <<sold, dbRemain, key, held, dirty, snap, fresh, meta, val>>

-----------------------------------------------------------------------------
(* write-api: the refund                                                   *)

\* The transaction of _refund_concert_booking.
Refund(t) ==
    /\ At(t, "done")
    /\ sold' = sold \ {SeatOf[t]}
    /\ dbRemain' = Recount(sold')
    /\ astray' = TRUE
    /\ Read(t, dbRemain')
    /\ GoTo(t, "forget")
    /\ UNCHANGED <<key, held, remain, dirty, snap, fresh, meta>>

\* invalidate_concert_caches_after_booking: the snapshot and the counter go.
Forget(t) ==
    /\ At(t, "forget")
    /\ DropSnap
    /\ PutRemain(Missing)
    /\ GoTo(t, "free")
    /\ UNCHANGED <<sold, dbRemain, key, held, dirty, meta, val>>

\* release_seats_on_refund
FreeSeat(t) ==
    /\ At(t, "free")
    /\ Free(t, Nobody)
    /\ GoTo(t, "put")
    /\ UNCHANGED <<sold, dbRemain, remain, dirty, snap, fresh, meta, astray, val>>

\* SET of the counter to what the transaction computed.
Restore(t) ==
    /\ At(t, "put")
    /\ PutRemain(val[t])
    /\ Read(t, 0)
    /\ GoTo(t, "over")
    /\ UNCHANGED <<sold, dbRemain, key, held, dirty, snap, fresh, meta>>

TicketStep(t) ==
    \/ CheckCounter(t) \/ SeedCounter(t) \/ Decrement(t) \/ SoldOut(t)
    \/ MarkDirty(t) \/ Hold(t) \/ Undo(t) \/ Announce(t) \/ Release(t)
    \/ Book(t) \/ BookFails(t) \/ Finalize(t) \/ Tell(t) \/ GiveBack(t)
    \/ Forget(t) \/ FreeSeat(t) \/ Restore(t)
=============================================================================
