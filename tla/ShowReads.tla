----------------------------- MODULE ShowReads -----------------------------
(***************************************************************************)
(* read-api: the pages of a concert show (concert_read_cache.py,           *)
(* concert_read.py), one step per Redis call or query. One reader is one   *)
(* request, in a pod of its own: the fill lock is local to a process. A    *)
(* call of Redis that fails answers nothing: a miss, an empty set.         *)
(***************************************************************************)
EXTENDS ShowStore

\* booking-bootstrap of the concert and of one show, booking-holds
Kinds == {"concert", "show", "holds"}

VARIABLES
    rpc,        \* where each request is
    kind,       \* what it asks for
    page,       \* what it will answer with: [confirmed, holds, some (hold_count # 0)]
    row,        \* the remain_count of the row it has read
    fill,       \* what the snapshot it builds is made of
    blind,      \* which of its reads of seats failed and were taken for empty
    since       \* since its first step on: what was sold, what was taken

readVars == <<rpc, kind, page, row, fill, blind>>

NoPage == [confirmed |-> {}, holds |-> {}, some |-> FALSE]
NoFill == [confirmed |-> {}, remain |-> 0]
Pages == [confirmed : SUBSET Seats, holds : SUBSET Seats, some : BOOLEAN]
ReaderPCs == {"idle", "confirmed", "holds", "hc", "snapshot", "again", "fill", "seed",
              "store", "count", "repair", "answer", "over"}

ReadTypeOK ==
    /\ rpc \in [Readers -> ReaderPCs]
    /\ kind \in [Readers -> Kinds]
    /\ page \in [Readers -> Pages]
    /\ row \in [Readers -> Nat]
    /\ fill \in [Readers -> [confirmed : SUBSET Seats, remain : Nat]]
    /\ blind \in [Readers -> SUBSET {"query", "redis"}]
    /\ since \in [Readers -> [sold : SUBSET Seats, taken : SUBSET Seats]]

ReadInit ==
    /\ rpc \in [Readers -> {"idle", "over"}]
    /\ kind \in [Readers -> Kinds]
    /\ page = [x \in Readers |-> NoPage]
    /\ row = [x \in Readers |-> 0]
    /\ fill = [x \in Readers |-> NoFill]
    /\ blind = [x \in Readers |-> {}]

On(x, pc) == rpc[x] = pc
To(x, pc) == rpc' = [rpc EXCEPT ![x] = pc]
Confirm(x, S) == page' = [page EXCEPT ![x].confirmed = S]
Mark(x, S) == page' = [page EXCEPT ![x].holds = S]
SetRow(x, n) == row' = [row EXCEPT ![x] = n]
Blind(x, what) == blind' = [blind EXCEPT ![x] = @ \cup {what}]

\* The row: the whole page takes it from shows_meta, which it fills on a miss;
\* the other two read it from RDS.
ReadRow(x) ==
    /\ On(x, "idle")
    /\ \/ /\ kind[x] = "concert"
          /\ meta' = IF meta = Missing THEN dbRemain ELSE meta
          /\ SetRow(x, meta') /\ To(x, "confirmed")
       \/ /\ kind[x] = "concert" /\ "redis" \in may
          /\ meta' \in {meta, dbRemain}
          /\ SetRow(x, dbRemain) /\ To(x, "confirmed")
       \/ /\ kind[x] # "concert"
          /\ SetRow(x, dbRemain) /\ UNCHANGED meta
          /\ To(x, IF kind[x] = "show" THEN "snapshot" ELSE "holds")
    /\ UNCHANGED <<sold, dbRemain, key, held, remain, dirty, snap, fresh, astray,
                   kind, page, fill, blind>>

\* _fetch_confirmed_seat_keys_by_show: RDS and the confirmed set of Redis, which
\* no caller fills. booking-holds goes on without a query that fails.
ReadConfirmed(x) ==
    /\ On(x, "confirmed")
    /\ \/ Confirm(x, sold) /\ UNCHANGED blind
       \/ /\ kind[x] = "holds" /\ "query" \in may
          /\ Confirm(x, {}) /\ Blind(x, "query")
    /\ To(x, IF kind[x] = "concert" THEN "holds" ELSE "count")
    /\ UNCHANGED <<showVars, kind, row, fill>>

\* Every other query that fails ends its request with a 500.
QueryFails(x) ==
    /\ "query" \in may
    /\ \/ On(x, "idle")
       \/ On(x, "confirmed") /\ kind[x] = "concert"
       \/ On(x, "fill") /\ ~snap.there
    /\ To(x, "over")
    /\ page' = [page EXCEPT ![x] = NoPage]
    /\ SetRow(x, 0)
    /\ blind' = [blind EXCEPT ![x] = {}]
    /\ UNCHANGED <<showVars, kind, fill>>

\* Mutant: booking-holds takes the seats on hold after the confirmed ones.
ReadHolds_Last(x) ==
    /\ \/ /\ On(x, "holds") /\ kind[x] = "holds"
          /\ Confirm(x, sold) /\ To(x, "again")
       \/ /\ On(x, "again") /\ kind[x] = "holds"
          /\ Mark(x, held) /\ To(x, "count")
       \/ /\ On(x, "holds") /\ kind[x] = "concert"
          /\ Mark(x, held) /\ To(x, "snapshot")
       \/ /\ On(x, "again") /\ kind[x] = "concert"
          /\ Mark(x, held) /\ To(x, "fill")
    /\ UNCHANGED <<showVars, kind, row, fill, blind>>

\* SMEMBERS of the hold set. The page of the concert reads it once more when
\* the snapshot is missing.
ReadHolds(x) ==
    /\ rpc[x] \in {"holds", "again"}
    /\ \/ Mark(x, held) /\ UNCHANGED blind
       \/ "redis" \in may /\ Mark(x, {}) /\ Blind(x, "redis")
    /\ To(x, IF On(x, "again") THEN "fill"
             ELSE IF kind[x] = "concert" THEN "snapshot" ELSE "hc")
    /\ UNCHANGED <<showVars, kind, row, fill>>

\* booking-holds: SCARD of the hold set.
CountHolds(x) ==
    /\ On(x, "hc")
    /\ page' = [page EXCEPT ![x].some = held # {}]
    /\ To(x, "confirmed")
    /\ UNCHANGED <<showVars, kind, row, fill, blind>>

-----------------------------------------------------------------------------
(* The snapshot                                                            *)

\* Mutant: the page of the concert takes its seats from the snapshot.
SnapshotHit_AsCached(x) ==
    /\ rpc[x] \in {"snapshot", "fill"}
    /\ snap.there
    /\ To(x, IF kind[x] = "show" THEN "answer" ELSE "count")
    /\ page' = [page EXCEPT ![x] = [NoPage EXCEPT !.confirmed = snap.confirmed]]
    /\ UNCHANGED <<showVars, kind, row, fill, blind>>

\* A hit: the page of a show is the snapshot itself, the page of the concert
\* has its seats written over by those just read.
SnapshotHit(x) ==
    /\ rpc[x] \in {"snapshot", "fill"}
    /\ snap.there
    /\ To(x, IF kind[x] = "show" THEN "answer" ELSE "count")
    /\ IF kind[x] = "show" THEN Confirm(x, snap.confirmed) ELSE UNCHANGED page
    /\ UNCHANGED <<showVars, kind, row, fill, blind>>

SnapshotMiss(x) ==
    /\ On(x, "snapshot")
    /\ ~snap.there \/ "redis" \in may
    /\ To(x, IF kind[x] = "concert" THEN "again" ELSE "fill")
    /\ UNCHANGED <<showVars, kind, page, row, fill, blind>>

\* _coalesced_fill_show_snapshot, _build_show_snapshot_from_row: the snapshot is
\* still missing; the show's row and its confirmed seats are read again.
BuildSnapshot(x) ==
    /\ On(x, "fill")
    /\ ~snap.there \/ "redis" \in may
    /\ fill' = [fill EXCEPT ![x] = [confirmed |-> sold, remain |-> dbRemain]]
    /\ fresh' = fresh \cup {x}
    /\ To(x, "seed")
    /\ UNCHANGED <<sold, dbRemain, key, held, remain, dirty, snap, meta, astray,
                   kind, page, row, blind>>

\* _show_payload_from_row seeds a counter that is missing.
SeedFromRow(x) ==
    /\ On(x, "seed")
    /\ SeedRemain(fill[x].remain)
    /\ To(x, "store")
    /\ UNCHANGED <<sold, dbRemain, key, held, dirty, snap, fresh, meta, kind, page,
                   row, fill, blind>>

\* _store_show_snapshot: SET, whatever happened since the rows were read.
StoreSnapshot(x) ==
    /\ On(x, "store")
    /\ \/ snap' = [there |-> TRUE, confirmed |-> fill[x].confirmed, late |-> x \notin fresh]
       \/ "redis" \in may /\ UNCHANGED snap
    /\ fresh' = fresh \ {x}
    /\ fill' = [fill EXCEPT ![x] = NoFill]
    /\ IF kind[x] = "show" THEN Confirm(x, fill[x].confirmed) /\ To(x, "answer")
                           ELSE UNCHANGED page /\ To(x, "count")
    /\ UNCHANGED <<sold, dbRemain, key, held, remain, dirty, meta, astray, kind, row,
                   blind>>

-----------------------------------------------------------------------------
(* The counter                                                             *)

\* _get_or_seed_remain_from_row and the end of booking-holds: a missing counter
\* is seeded from the row, which for the page of the concert is the one kept in
\* shows_meta.
Count(x) ==
    /\ On(x, "count")
    /\ IF /\ kind[x] = "holds" /\ remain = 0 /\ row[x] > 0
          /\ ~page[x].some /\ page[x].confirmed = {}
         THEN To(x, "repair") /\ UNCHANGED <<remain, astray>>
         ELSE To(x, "answer") /\ SeedRemain(row[x])
    /\ UNCHANGED <<sold, dbRemain, key, held, dirty, snap, fresh, meta, kind, page,
                   row, fill, blind>>

\* booking-holds takes a counter at 0 for a stuck one if it saw no seat taken.
Repair(x) ==
    /\ On(x, "repair")
    /\ PutRemain(row[x])
    /\ To(x, "answer")
    /\ UNCHANGED <<sold, dbRemain, key, held, dirty, snap, fresh, meta, kind, page,
                   row, fill, blind>>

\* SCARD, GET, SETNX or SET fails: there is no hold, no seed, no repair.
CacheFails(x) ==
    /\ "redis" \in may
    /\ \/ On(x, "hc") /\ To(x, "confirmed")
       \/ On(x, "seed") /\ To(x, "store")
       \/ rpc[x] \in {"count", "repair"} /\ To(x, "answer")
    /\ UNCHANGED <<showVars, kind, page, row, fill, blind>>

Leave(x) ==
    /\ On(x, "answer")
    /\ To(x, "over")
    /\ page' = [page EXCEPT ![x] = NoPage]
    /\ SetRow(x, 0)
    /\ blind' = [blind EXCEPT ![x] = {}]
    /\ UNCHANGED <<showVars, kind, fill>>

ReadStep(x) ==
    \/ ReadRow(x) \/ ReadConfirmed(x) \/ QueryFails(x) \/ ReadHolds(x) \/ CountHolds(x)
    \/ SnapshotHit(x) \/ SnapshotMiss(x) \/ BuildSnapshot(x) \/ SeedFromRow(x)
    \/ StoreSnapshot(x) \/ Count(x) \/ Repair(x) \/ CacheFails(x) \/ Leave(x)
=============================================================================
