----------------------------- MODULE ShowStore -----------------------------
(***************************************************************************)
(* What the readers of a concert show look at, and the counters that have  *)
(* to follow one another: the cache database (seat keys, hold set, remain  *)
(* counter, its dirty mark, the show's snapshot, the row kept in           *)
(* shows_meta) and the RDS tables. concert_shows.status is left out: each  *)
(* statement here that writes remain_count also writes the status it       *)
(* implies.                                                                *)
(***************************************************************************)
EXTENDS Integers, FiniteSets

CONSTANTS
    Tickets,    \* requests for one seat each
    Seats,
    SeatOf,     \* the seat each ticket asks for
    Total,      \* concert_shows.total_count
    Readers,    \* requests to read-api
    Syncers,    \* worker-svc pods that run the remain loop
    Nobody, Sold

ASSUME ShowAssumption ==
    /\ IsFiniteSet(Seats)
    /\ SeatOf \in [Tickets -> Seats]
    /\ Total \in Nat
    /\ {Nobody, Sold} \cap (Tickets \cup Syncers) = {}
    /\ Nobody # Sold

VARIABLES
    sold,       \* ACTIVE rows of concert_booking_seats
    dbRemain,   \* concert_shows.remain_count
    key,        \* concert:seat:{show}:{seat}:hold:v1
    held,       \* concert:hold:{show}:v1
    remain,     \* concert:show:{show}:remain:v1, or Missing
    dirty,      \* whether the show is in concert:remain_dirty:show_ids:v1
    snap,       \* concert:show:{show}:read:v2
    fresh,      \* the requests whose rows no DEL of the snapshot has overtaken
    meta,       \* remain_count in concert:shows_meta:{concert}:read:v1, or Missing
    astray,     \* remain or dbRemain was written with no mark since the last copy
    may         \* the faults that may happen, one of Faults

showVars == <<sold, dbRemain, key, held, remain, dirty, snap, fresh, meta, astray>>

Missing == -1
\* "query": a query of read-api fails; "redis": a Redis call of read-api or
\* write-api, or a DEL of the snapshot, fails, and is answered with nothing;
\* "expiry": a key of Redis reaches its TTL; "db": an UPDATE of the remain loop
\* fails; "crash": its pod dies.
Faults == {"query", "redis", "expiry", "db", "crash"}
\* late: stored by a request that was not fresh, or left behind by a DEL that failed.
NoSnap == [there |-> FALSE, confirmed |-> {}, late |-> FALSE]
Snapshots == [there : BOOLEAN, confirmed : SUBSET Seats, late : BOOLEAN]

ShowTypeOK ==
    /\ sold \subseteq Seats /\ held \subseteq Seats
    /\ dbRemain \in Nat
    /\ key \in [Seats -> Tickets \cup {Nobody, Sold}]
    /\ remain \in Nat \cup {Missing} /\ meta \in Nat \cup {Missing}
    /\ snap \in Snapshots
    /\ fresh \subseteq Readers
    /\ dirty \in BOOLEAN /\ astray \in BOOLEAN

\* The seats on hold or sold, and guarded by their key: without it, anyone may
\* hold the seat.
Taken == {s \in held \cup sold : key[s] # Nobody}

\* GREATEST(0, total_count - COUNT(ACTIVE)): the recount of a refund and of the
\* start-up synchronisation.
Recount(active) == IF Cardinality(active) > Total THEN 0 ELSE Total - Cardinality(active)

\* What a write of the counter that leaves no mark does.
PutRemain(n) == remain' = n /\ astray' = TRUE

\* SETNX of a value read from the database; 0 is not worth a seed.
SeedRemain(n) ==
    IF remain = Missing /\ n > 0 THEN PutRemain(n) ELSE UNCHANGED <<remain, astray>>

\* DEL of the snapshot: what a request has read for a new one is out of date.
DropSnap ==
    /\ \/ snap' = NoSnap
       \/ "redis" \in may /\ snap' = [snap EXCEPT !.late = snap.there]
    /\ fresh' = {}
=============================================================================
