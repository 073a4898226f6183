---------------------------- MODULE TheaterStore ----------------------------
(***************************************************************************)
(* What theater bookings share, for one schedule: the RDS rows of the      *)
(* schedule, its bookings and their seats, with the row locks transactions *)
(* hold, and the read cache of the booking pages.                          *)
(* A booking is named by the delivery that made it: unlike a concert       *)
(* booking its row does not record the booking_ref, so two deliveries of   *)
(* one message may make two bookings.                                      *)
(***************************************************************************)
EXTENDS BookingAnswers, Integers, Sequences, FiniteSets

CONSTANTS
    Seats,      \* the seats clients ask for
    Hall,       \* those that are in hall_seats
    Requests,   \* what a client may ask for: [seats, known]
    RefundIds,  \* refund requests, several may be for one booking
    Readers,    \* read-api requests
    Nobody,     \* no lock
    Faults      \* which faults hit the steps of whom: pairs <<kind, actor>>

Deliveries == Refs \X (1..MaxReceive)
Total == Cardinality(Hall)

ASSUME TheaterAssumption ==
    /\ IsFiniteSet(Seats) /\ Hall \subseteq Seats /\ Hall # {}
    /\ Requests \subseteq [seats : (SUBSET Seats) \ {{}}, known : BOOLEAN]
    /\ Nobody \notin Deliveries \cup RefundIds
    /\ Deliveries \cap RefundIds = {}

VARIABLES
    req,        \* what each client asks for
    book,       \* booking.book_status
    remain,     \* schedules.remain_count
    status,     \* schedules.status
    lock,       \* the transaction that has locked the schedule row
    pin,        \* the refund that has locked each booking and its seats
    history,    \* the transactions that changed the schedule, in COMMIT order
    cache,      \* the cached pages, see TheaterReads
    owing       \* by page, the transactions whose change it has not been told of

dbVars == <<book, remain, status, lock, pin, history>>
theaterVars == <<req, dbVars, cache, owing>>

Fails(kind, x) == <<kind, x>> \in Faults

Pages == {"bootstrap", "detail"}
Missing == -1
Late == -2

Want(d) == req[d[1]].seats
SeatsOf(d) == IF book[d] = "PAID" THEN Want(d) ELSE {}
Active == UNION {SeatsOf(d) : d \in Deliveries}

TheaterTypeOK ==
    /\ req \in [Refs -> Requests]
    /\ book \in [Deliveries -> {"none", "PAID", "CANCEL"}]
    /\ remain \in 0..Total
    /\ status \in {"OPEN", "CLOSED"}
    /\ lock \in Deliveries \cup {Nobody}
    /\ pin \in [Deliveries -> RefundIds \cup {Nobody}]
    /\ history \in Seq(Deliveries \cup RefundIds)
    /\ cache \in [Pages -> Nat \cup {Missing, Late}]
    /\ owing \in [Pages -> SUBSET (Deliveries \cup RefundIds)]

TheaterInit ==
    /\ req \in [Refs -> Requests]
    /\ book = [d \in Deliveries |-> "none"]
    /\ remain = Total
    /\ status = "OPEN"
    /\ lock = Nobody
    /\ pin = [d \in Deliveries |-> Nobody]
    /\ history = <<>>
    /\ cache = [p \in Pages |-> Missing]
    /\ owing = [p \in Pages |-> {}]

\* Transaction x changes what the pages show, and must tell the cache.
Announce(x) ==
    /\ history' = Append(history, x)
    /\ owing' = [p \in Pages |-> owing[p] \cup {x}]

\* sync_remain_counts, each time a write-api pod starts: one UPDATE that counts
\* the ACTIVE seats. It waits for the rows it reads and changes, and tells no
\* cache.
SyncRemain ==
    /\ lock = Nobody /\ \A d \in Deliveries : pin[d] = Nobody
    /\ remain' = Total - Cardinality(Active)
    /\ status' = IF remain' <= 0 THEN "CLOSED" ELSE "OPEN"
    /\ UNCHANGED <<req, book, lock, pin, history, cache, owing>>
=============================================================================
