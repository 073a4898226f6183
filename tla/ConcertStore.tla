---------------------------- MODULE ConcertStore ----------------------------
(***************************************************************************)
(* The data the concert booking path shares, for one concert show:         *)
(*   - the Redis cache database (seat keys, hold set, hold metadata, the   *)
(*     remain counter and its dirty mark), written by write-api and by     *)
(*     worker-svc;                                                         *)
(*   - the RDS tables, with the unique indexes of db-schema/create.sql.    *)
(* Every operator here is one Redis script, one Redis pipeline (MULTI /    *)
(* EXEC, hence atomic) or one statement group of a transaction.            *)
(***************************************************************************)
EXTENDS Integers, FiniteSets, BookingAnswers

CONSTANTS
    Seats,      \* seat coordinates a client may send
    Invalid,    \* the ones outside the seat_rows x seat_cols of the show
    Total,      \* concert_shows.total_count
    Requests,   \* what a client may ask: [seats, lead, skip]
    Nobody,     \* an absent seat key
    Confirmed,  \* the "CONFIRMED" value the worker leaves in a seat key
    HoldTTL,    \* CONCERT_SEAT_HOLD_TTL_SEC > 0
    Faults      \* the failures that may happen in a behaviour

AllFaults == {"redis",      \* a Redis call fails and changes nothing
              "db",         \* a connection or a transaction fails
              "commit",     \* COMMIT is applied but its answer is lost
              "send",       \* send_message fails, sent or not
              "crash",      \* a write-api or worker-svc pod dies
              "slow",       \* a handler outlives the visibility timeout
              "delete",     \* delete_message fails
              "expiry"}     \* enough time passes for a key's TTL to run out

ASSUME StoreAssumption ==
    /\ IsFiniteSet(Seats)
    /\ Invalid \subseteq Seats
    /\ Total \in Nat
    /\ Requests \subseteq [seats : SUBSET Seats, lead : Seats, skip : BOOLEAN]
    /\ \A q \in Requests : q.lead \in q.seats
    /\ Nobody \notin Refs /\ Confirmed \notin Refs /\ Nobody # Confirmed
    /\ HoldTTL \in BOOLEAN
    /\ Faults \subseteq AllFaults

VARIABLES
    req,        \* req[r]: the body of request r
    seatKey,    \* concert:seat:{show}:{r-c}:hold:v1
    holdSet,    \* concert:hold:{show}:v1
    holdMeta,   \* seats of concert:holdmeta:{ref}:v1 ({}: no key, or no seat)
    remain,     \* concert:show:{show}:remain:v1, or Missing
    dirty,      \* whether the show is in concert:remain_dirty:show_ids:v1
    ttl,        \* which of the keys above carry a TTL
    booking,    \* concert_booking.book_status of the row of each sqs_booking_ref
    rows,       \* ACTIVE rows of concert_booking_seats
    payment,    \* concert_payment.pay_yn of the row of each booking
    dbRemain,   \* concert_shows.remain_count
    dbStatus    \* concert_shows.status

cacheVars == <<seatKey, holdSet, holdMeta, remain, dirty, ttl>>
dbVars == <<booking, rows, payment, dbRemain, dbStatus>>
storeVars == <<req, cacheVars, answerVars, dbVars>>

Missing == -1
TTLs == [seats : SUBSET Seats, metas : SUBSET Refs, holds : BOOLEAN, remain : BOOLEAN]
Want(r) == req[r].seats

StoreTypeOK ==
    /\ req \in [Refs -> Requests]
    /\ seatKey \in [Seats -> Refs \cup {Nobody, Confirmed}]
    /\ holdSet \subseteq Seats
    /\ holdMeta \in [Refs -> SUBSET Seats]
    /\ remain \in Nat \cup {Missing}
    /\ dirty \in BOOLEAN
    /\ ttl \in TTLs
    /\ booking \in [Refs -> {"none", "PAID", "CANCEL"}]
    /\ rows \subseteq Refs \X Seats
    /\ payment \in [Refs -> {"none", "Y", "N"}]
    /\ dbRemain \in Nat
    /\ dbStatus \in {"OPEN", "CLOSED"}

\* A show that has just been opened: nothing held, nothing sold.
StoreInit ==
    /\ req \in [Refs -> Requests]
    /\ seatKey = [s \in Seats |-> Nobody]
    /\ holdSet = {}
    /\ holdMeta = [r \in Refs |-> {}]
    /\ remain \in {Total, Missing}
    /\ dirty = FALSE
    /\ ttl = [seats |-> {}, metas |-> {}, holds |-> FALSE, remain |-> FALSE]
    /\ booking = [r \in Refs |-> "none"]
    /\ rows = {}
    /\ payment = [r \in Refs |-> "none"]
    /\ dbRemain = Total
    /\ dbStatus = "OPEN"

-----------------------------------------------------------------------------
(* The remain counter                                                      *)

\* What the Lua scripts read: an absent key counts as 0.
Counter == IF remain = Missing THEN 0 ELSE remain

\* _REMAIN_ADJUST_LUA and _PENDING_ADJUST_LUA: INCRBY clamped at 0.
AddRemain(n) == remain' = IF Counter + n < 0 THEN 0 ELSE Counter + n

\* SET, which also drops the TTL of the key.
SetRemain(n) ==
    /\ remain' = n
    /\ ttl' = [ttl EXCEPT !.remain = FALSE]

-----------------------------------------------------------------------------
(* Seat keys                                                               *)

\* The keys of S that hold booking_ref r.
OwnedBy(r, S) == {s \in S : seatKey[s] = r}

\* Mutant: SET without NX.
FreeKeys_Overwrite(S) == S

FreeKeys(S) == {s \in S : seatKey[s] = Nobody}

\* SET NX [EX ttl] of r in every key of S that is free.
TakeKeys(r, S) ==
    /\ seatKey' = [s \in Seats |-> IF s \in FreeKeys(S) THEN r ELSE seatKey[s]]
    /\ ttl' = [ttl EXCEPT !.seats = IF HoldTTL THEN @ \cup FreeKeys(S) ELSE @]

\* One pipeline: DEL the keys of S, SREM them from the hold set.
DropKeys(S) ==
    /\ seatKey' = [s \in Seats |-> IF s \in S THEN Nobody ELSE seatKey[s]]
    /\ holdSet' = holdSet \ S
    /\ ttl' = [ttl EXCEPT !.seats = @ \ S]

\* TTLs run out.
ExpireSeat(s) ==
    /\ s \in ttl.seats
    /\ seatKey' = [seatKey EXCEPT ![s] = Nobody]
    /\ ttl' = [ttl EXCEPT !.seats = @ \ {s}]
    /\ UNCHANGED <<req, holdSet, holdMeta, remain, dirty, answerVars, dbVars>>

ExpireMeta(r) ==
    /\ r \in ttl.metas
    /\ holdMeta' = [holdMeta EXCEPT ![r] = {}]
    /\ ttl' = [ttl EXCEPT !.metas = @ \ {r}]
    /\ UNCHANGED <<req, seatKey, holdSet, remain, dirty, answerVars, dbVars>>

ExpireHoldSet ==
    /\ ttl.holds
    /\ holdSet' = {}
    /\ ttl' = [ttl EXCEPT !.holds = FALSE]
    /\ UNCHANGED <<req, seatKey, holdMeta, remain, dirty, answerVars, dbVars>>

ExpireRemain ==
    /\ ttl.remain
    /\ remain' = Missing
    /\ ttl' = [ttl EXCEPT !.remain = FALSE]
    /\ UNCHANGED <<req, seatKey, holdSet, holdMeta, dirty, answerVars, dbVars>>

-----------------------------------------------------------------------------
(* RDS                                                                     *)

SeatsOf(r) == {s \in Seats : <<r, s>> \in rows}
Sold == {s \in Seats : \E r \in Refs : <<r, s>> \in rows}

\* Mutants: the unique index is missing.
SeatIndexFree_NoIndex(S) == TRUE
PaymentIndexFree_NoIndex(r) == TRUE

\* uq of the ACTIVE seats of a show (concert_booking_seats)
SeatIndexFree(S) == S \cap Sold = {}
\* uq_concert_payment_booking
PaymentIndexFree(r) == payment[r] = "none"
=============================================================================
