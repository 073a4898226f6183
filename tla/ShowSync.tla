------------------------------ MODULE ShowSync ------------------------------
(***************************************************************************)
(* What keeps the counter and concert_shows.remain_count together: the     *)
(* loop of worker-svc (_remain_db_sync_loop) that copies the one to the    *)
(* other, the start-up synchronisation of write-api (db_sync.py) that does *)
(* the opposite; and the operators' reset of a show and flush of the       *)
(* cache.                                                                  *)
(***************************************************************************)
EXTENDS ShowStore

VARIABLES
    wpc,        \* where the loop of each pod is
    copy,       \* redis_remain
    lock,       \* who took concert:remain_db_sync:lock:v1, or Nobody
    spc,        \* where the start-up synchronisation is
    recount,    \* the remain_count it has selected
    apc         \* where the operator is

syncVars == <<wpc, copy, lock, spc, recount, apc>>
loopVars == <<wpc, copy, lock>>
adminVars == <<spc, recount, apc>>

SyncTypeOK ==
    /\ wpc \in [Syncers -> {"sleep", "pop", "read", "write", "over"}]
    /\ copy \in [Syncers -> Nat]
    /\ lock \in Syncers \cup {Nobody}
    /\ spc \in {"idle", "select", "set", "drop", "over"}
    /\ recount \in Nat
    /\ apc \in {"idle", "keys", "put", "over"}

Step(w, from, to) == wpc[w] = from /\ wpc' = [wpc EXCEPT ![w] = to]
Batch(w) == wpc[w] \in {"pop", "read", "write"}
Least(n, m) == IF n < m THEN n ELSE m

\* SET NX EX of the lock; no loop ever deletes it.
Acquire(w) ==
    /\ Step(w, "sleep", "pop")
    /\ lock = Nobody
    /\ lock' = w
    /\ UNCHANGED <<showVars, copy, adminVars>>

\* Mutant: it expires in the middle of a batch.
LockExpires_Early ==
    /\ lock # Nobody
    /\ lock' = Nobody
    /\ UNCHANGED <<showVars, wpc, copy, adminVars>>

\* Mutant: only a living owner gives it up.
LockExpires_ByOwner ==
    /\ lock # Nobody
    /\ wpc[lock] = "sleep"
    /\ lock' = Nobody
    /\ UNCHANGED <<showVars, wpc, copy, adminVars>>

\* REMAIN_DB_SYNC_LOCK_TTL_SEC runs out, once the batch is over: a batch of a
\* few shows takes less than its 3 s.
LockExpires ==
    /\ lock # Nobody
    /\ ~Batch(lock)
    /\ lock' = Nobody
    /\ UNCHANGED <<showVars, wpc, copy, adminVars>>

\* SPOP: the mark is gone before the counter is read.
Pop(w) ==
    /\ IF dirty THEN Step(w, "pop", "read") ELSE Step(w, "pop", "sleep")
    /\ dirty' = FALSE
    /\ UNCHANGED <<sold, dbRemain, key, held, remain, snap, fresh, meta, astray,
                   copy, lock, adminVars>>

\* GET, clamped to total_count. With no counter there is nothing to copy.
ReadCounter(w) ==
    /\ IF remain = Missing
         THEN Step(w, "read", "sleep") /\ UNCHANGED <<copy, astray>>
         ELSE /\ Step(w, "read", "write")
              /\ copy' = [copy EXCEPT ![w] = Least(remain, Total)]
              /\ astray' = FALSE
    /\ UNCHANGED <<sold, dbRemain, key, held, remain, dirty, snap, fresh, meta, lock,
                   adminVars>>

\* UPDATE to what was read, if the row differs.
WriteRow(w) ==
    /\ Step(w, "write", "sleep")
    /\ dbRemain' = copy[w]
    /\ copy' = [copy EXCEPT ![w] = 0]
    /\ UNCHANGED <<sold, key, held, remain, dirty, snap, fresh, meta, astray, lock,
                   adminVars>>

\* A failing query or transaction: the show is not marked again.
WriteFails(w) ==
    /\ "db" \in may
    /\ Step(w, "write", "sleep")
    /\ copy' = [copy EXCEPT ![w] = 0]
    /\ astray' = TRUE
    /\ UNCHANGED <<sold, dbRemain, key, held, remain, dirty, snap, fresh, meta, lock,
                   adminVars>>

\* The pod dies; its lock and what it has popped are gone with time.
LoopCrash(w) ==
    /\ "crash" \in may
    /\ wpc[w] # "over"
    /\ wpc' = [wpc EXCEPT ![w] = "over"]
    /\ copy' = [copy EXCEPT ![w] = 0]
    /\ astray' = (astray \/ wpc[w] \in {"read", "write"})
    /\ UNCHANGED <<sold, dbRemain, key, held, remain, dirty, snap, fresh, meta, lock,
                   adminVars>>

LoopStep(w) == Acquire(w) \/ Pop(w) \/ ReadCounter(w) \/ WriteRow(w) \/ WriteFails(w)

-----------------------------------------------------------------------------
(* sync_remain_counts_and_refresh_redis, when a write-api pod starts       *)

RecountRow ==
    /\ spc = "idle" /\ spc' = "select"
    /\ dbRemain' = Recount(sold)
    /\ astray' = TRUE
    /\ UNCHANGED <<sold, key, held, remain, dirty, snap, fresh, meta, loopVars,
                   recount, apc>>

SelectRow ==
    /\ spc = "select" /\ spc' = "set"
    /\ recount' = dbRemain
    /\ UNCHANGED <<showVars, loopVars, apc>>

\* SET of the counter, whatever requests are under way.
SetCounter ==
    /\ spc = "set" /\ spc' = "drop"
    /\ PutRemain(recount)
    /\ recount' = 0
    /\ UNCHANGED <<sold, dbRemain, key, held, dirty, snap, fresh, meta, loopVars, apc>>

ForgetSnapshot ==
    /\ spc = "drop" /\ spc' = "over"
    /\ DropSnap
    /\ UNCHANGED <<sold, dbRemain, key, held, remain, dirty, meta, astray, loopVars,
                   recount, apc>>

StartupStep == RecountRow \/ SelectRow \/ SetCounter \/ ForgetSnapshot

-----------------------------------------------------------------------------
(* The operators                                                           *)

\* _reset_concert_redis_seat_state: first the show's keys but the seats',
ResetKeys ==
    /\ apc = "idle" /\ apc' = "keys"
    /\ held' = {}
    /\ PutRemain(Missing)
    /\ DropSnap
    /\ UNCHANGED <<sold, dbRemain, key, dirty, meta, loopVars, spc, recount>>

\* then the seat keys, sold or not,
ResetSeats ==
    /\ apc = "keys" /\ apc' = "put"
    /\ key' = [s \in Seats |-> Nobody]
    /\ UNCHANGED <<sold, dbRemain, held, remain, dirty, snap, fresh, meta, astray,
                   loopVars, spc, recount>>

\* and a seed for the counter.
ResetCounter ==
    /\ apc = "put" /\ apc' = "over"
    /\ SeedRemain(dbRemain)
    /\ UNCHANGED <<sold, dbRemain, key, held, dirty, snap, fresh, meta, loopVars, spc,
                   recount>>

\* POST /api/write/admin/cache/rebuild-all: FLUSHDB of the cache database. What
\* the refreshers then fill are no keys of this model.
FlushCache ==
    /\ apc = "idle" /\ apc' = "over"
    /\ key' = [s \in Seats |-> Nobody]
    /\ held' = {} /\ dirty' = FALSE /\ meta' = Missing /\ lock' = Nobody
    /\ PutRemain(Missing)
    /\ DropSnap
    /\ UNCHANGED <<sold, dbRemain, wpc, copy, spc, recount>>

AdminStep == ResetKeys \/ ResetSeats \/ ResetCounter \/ FlushCache
=============================================================================
