---------------------------- MODULE ConcertRefund ---------------------------
(***************************************************************************)
(* write-api: POST /api/write/user/bookings/refund for a concert booking,  *)
(* that is _refund_concert_booking: one transaction, then the Redis        *)
(* clean-up, one step per Redis call.                                      *)
(***************************************************************************)
EXTENDS ConcertStore

CONSTANT Refundable    \* the requests whose owner may ask for a refund

VARIABLES
    rpc,        \* where the refund of each booking is
    freed,      \* refunded_seat_keys
    remainTo    \* remain_after_db

refundLocals == <<freed, remainTo>>
refundVars == <<rpc, refundLocals>>

Refunding == {"forget", "free", "reset"}

RefundTypeOK ==
    /\ rpc \in [Refs -> Refunding \cup {"idle", "over"}]
    /\ freed \in [Refs -> SUBSET Seats]
    /\ remainTo \in [Refs -> Nat]

RefundInit ==
    /\ rpc = [r \in Refs |-> "idle"]
    /\ freed = [r \in Refs |-> {}]
    /\ remainTo = [r \in Refs |-> 0]

\* total_count less the ACTIVE rows, GREATEST(0, ...)
RemainInDb(soldSeats) ==
    IF Cardinality(soldSeats) > Total THEN 0 ELSE Total - Cardinality(soldSeats)

\* Mutant: the seats are not cancelled with their booking.
RefundCommit_KeepsSeats(r) ==
    /\ r \in Refundable
    /\ rpc[r] = "idle"
    /\ booking[r] = "PAID"
    /\ booking' = [booking EXCEPT ![r] = "CANCEL"]
    /\ payment' = [payment EXCEPT ![r] = "N"]
    /\ freed' = [freed EXCEPT ![r] = SeatsOf(r)]
    /\ rpc' = [rpc EXCEPT ![r] = "forget"]
    /\ UNCHANGED <<req, cacheVars, answerVars, queueVars, rows, dbRemain, dbStatus,
                   remainTo>>

\* The transaction: a booking that is PAID is cancelled with its payment and
\* seats, and the show's remain_count and status are computed again. One that
\* is cancelled already is refused.
RefundCommit(r) ==
    /\ r \in Refundable
    /\ rpc[r] = "idle"
    /\ booking[r] = "PAID"
    /\ booking' = [booking EXCEPT ![r] = "CANCEL"]
    /\ payment' = [payment EXCEPT ![r] = IF @ = "none" THEN @ ELSE "N"]
    /\ rows' = rows \ ({r} \X SeatsOf(r))
    /\ dbRemain' = RemainInDb(Sold \ SeatsOf(r))
    /\ dbStatus' = IF dbRemain' <= 0 THEN "CLOSED" ELSE "OPEN"
    /\ freed' = [freed EXCEPT ![r] = SeatsOf(r)]
    /\ remainTo' = [remainTo EXCEPT ![r] = dbRemain']
    /\ rpc' = [rpc EXCEPT ![r] = "forget"]
    /\ UNCHANGED <<req, cacheVars, answerVars, queueVars>>

\* invalidate_concert_caches_after_booking deletes the remain key as well.
ForgetRemain(r) ==
    /\ rpc[r] = "forget"
    /\ \/ SetRemain(Missing)
       \/ "redis" \in Faults /\ UNCHANGED <<remain, ttl>>
    /\ rpc' = [rpc EXCEPT ![r] = "free"]
    /\ UNCHANGED <<req, seatKey, holdSet, holdMeta, dirty, answerVars, dbVars,
                   queueVars, refundLocals>>

\* release_seats_on_refund: the keys go whoever they belong to.
FreeSeats(r) ==
    /\ rpc[r] = "free"
    /\ \/ DropKeys(freed[r])
       \/ "redis" \in Faults /\ UNCHANGED <<seatKey, holdSet, ttl>>
    /\ rpc' = [rpc EXCEPT ![r] = "reset"]
    /\ UNCHANGED <<req, holdMeta, remain, dirty, answerVars, dbVars, queueVars,
                   refundLocals>>

\* The remain counter is set to what the transaction computed.
ResetRemain(r) ==
    /\ rpc[r] = "reset"
    /\ \/ SetRemain(remainTo[r])
       \/ "redis" \in Faults /\ UNCHANGED <<remain, ttl>>
    /\ rpc' = [rpc EXCEPT ![r] = "over"]
    /\ UNCHANGED <<req, seatKey, holdSet, holdMeta, dirty, answerVars, dbVars,
                   queueVars, refundLocals>>

\* A COMMIT whose answer is lost ends the same way: a 500, and no clean-up.
RefundCrash(r) ==
    /\ rpc[r] \in Refunding
    /\ Faults \cap {"crash", "commit"} # {}
    /\ rpc' = [rpc EXCEPT ![r] = "over"]
    /\ UNCHANGED <<storeVars, queueVars, refundLocals>>

RefundStep(r) == ForgetRemain(r) \/ FreeSeats(r) \/ ResetRemain(r)
=============================================================================
