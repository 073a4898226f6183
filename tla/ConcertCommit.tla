---------------------------- MODULE ConcertCommit ---------------------------
(***************************************************************************)
(* write-api: POST /api/write/concerts/booking/commit, that is             *)
(* commit_concert_booking with _seed_remain_count_if_missing, try_hold_    *)
(* seats, release_seats and send_booking_message, one step per Redis call, *)
(* pipeline, query or SQS call. Each request is run by a thread of its own.*)
(* write-api's Redis client swallows every error (_SafeRedisClient), so a  *)
(* failed call shows as an empty answer and the handler goes on.           *)
(***************************************************************************)
EXTENDS ConcertStore

CONSTANT ShardOf    \* the FIFO shard of each seat (_seat_shard_id)

VARIABLES
    cpc,        \* where the handler of each request is
    seed,       \* what it found wrong with the counter, and the DB's value
    held,       \* seats it passes to release_seats, or registers as its hold
    mine,       \* of those, the keys it read back as its own
    failing,    \* release_seats runs because the send failed
    ticket      \* the seq it drew from the enq counter

commitLocals == <<seed, held, mine, failing, ticket>>
commitVars == <<cpc, commitLocals>>

Running == {"seed", "fill", "put", "gate", "sold", "check", "nx", "relRead",
            "relWrite", "relAdd", "undo", "mark", "take", "send", "note"}
Refused == {"refused", "error", "dead"}
CommitPCs == Running \cup Refused \cup {"queued"}
NoSeed == [was |-> "ok", val |-> 0]
GroupOf == [r \in Refs |-> ShardOf[req[r].lead]]

CommitTypeOK ==
    /\ cpc \in [Refs -> CommitPCs]
    /\ seed \in [Refs -> [was : {"ok", "missing", "stuck"}, val : Nat]]
    /\ held \in [Refs -> SUBSET Seats]
    /\ mine \in [Refs -> SUBSET Seats]
    /\ failing \in [Refs -> BOOLEAN]
    /\ ticket \in [Refs -> Nat]

CommitInit ==
    /\ cpc = [r \in Refs |-> "seed"]
    /\ seed = [r \in Refs |-> NoSeed]
    /\ held = [r \in Refs |-> {}]
    /\ mine = [r \in Refs |-> {}]
    /\ failing = [r \in Refs |-> FALSE]
    /\ ticket = [r \in Refs |-> 0]

At(r, pc) == cpc[r] = pc
GoTo(r, pc) == cpc' = [cpc EXCEPT ![r] = pc]

-----------------------------------------------------------------------------
(* _seed_remain_count_if_missing                                           *)

\* The counter is there, and is positive or some seat is on hold. (The set of
\* confirmed seats and the pending counter the code also looks at are never
\* filled by any caller, so they always read as empty.)
SeedNotNeeded(r) ==
    /\ At(r, "seed")
    /\ remain # Missing
    /\ remain > 0 \/ holdSet # {}
    /\ GoTo(r, "gate")
    /\ UNCHANGED <<storeVars, queueVars, commitLocals>>

SeedNeeded(r) ==
    /\ At(r, "seed")
    /\ \/ /\ remain = Missing \/ "redis" \in Faults
          /\ seed' = [seed EXCEPT ![r] = [was |-> "missing", val |-> 0]]
       \/ /\ remain = 0 /\ holdSet = {}
          /\ seed' = [seed EXCEPT ![r] = [was |-> "stuck", val |-> 0]]
    /\ GoTo(r, "fill")
    /\ UNCHANGED <<storeVars, queueVars, held, mine, failing, ticket>>

\* SELECT remain_count; a failing query counts as 0, a failing connection is a
\* 500.
SeedRead(r) ==
    /\ At(r, "fill")
    /\ \/ seed' = [seed EXCEPT ![r] = [was |-> seed[r].was, val |-> dbRemain]]
          /\ GoTo(r, "put")
       \/ "db" \in Faults /\ (GoTo(r, "put") \/ GoTo(r, "error")) /\ UNCHANGED seed
    /\ UNCHANGED <<storeVars, queueVars, held, mine, failing, ticket>>

\* Mutant: SET where the code has SETNX.
SeedWrite_Overwrite(r) ==
    /\ At(r, "put")
    /\ IF seed[r].val > 0 THEN SetRemain(seed[r].val) ELSE UNCHANGED <<remain, ttl>>
    /\ seed' = [seed EXCEPT ![r] = NoSeed]
    /\ GoTo(r, "gate")
    /\ UNCHANGED <<req, seatKey, holdSet, holdMeta, dirty, answerVars, dbVars,
                   queueVars, held, mine, failing, ticket>>

\* SETNX for a missing key, SET for one that is stuck at 0.
SeedWrite(r) ==
    /\ At(r, "put")
    /\ IF seed[r].val > 0 /\ (seed[r].was = "stuck" \/ remain = Missing)
         THEN SetRemain(seed[r].val)
         ELSE UNCHANGED <<remain, ttl>>
    /\ seed' = [seed EXCEPT ![r] = NoSeed]
    /\ GoTo(r, "gate")
    /\ UNCHANGED <<req, seatKey, holdSet, holdMeta, dirty, answerVars, dbVars,
                   queueVars, held, mine, failing, ticket>>

-----------------------------------------------------------------------------
(* The waiting-room permit and the remain gate                             *)

NeededFrom(n) == Counter >= n

\* No valid permit: 429. (The waiting room is a component of its own.)
PermitDenied(r) ==
    /\ At(r, "gate")
    /\ GoTo(r, "refused")
    /\ UNCHANGED <<storeVars, queueVars, commitLocals>>

\* skip_hold: straight to the queue, with no hold and no decrement.
SkipHold(r) ==
    /\ At(r, "gate")
    /\ req[r].skip
    /\ GoTo(r, "take")
    /\ UNCHANGED <<storeVars, queueVars, commitLocals>>

\* try_decrease_remain_if_enough (_REMAIN_DECR_IF_ENOUGH_LUA, then SADD dirty)
GatePass(r) ==
    /\ At(r, "gate")
    /\ ~req[r].skip
    /\ NeededFrom(Cardinality(Want(r)))
    /\ AddRemain(-Cardinality(Want(r)))
    /\ dirty' = TRUE
    /\ GoTo(r, IF remain' = 0 THEN "sold" ELSE "check")
    /\ UNCHANGED <<req, seatKey, holdSet, holdMeta, ttl, answerVars, dbVars,
                   queueVars, commitLocals>>

\* 409 SOLD_OUT
GateFull(r) ==
    /\ At(r, "gate")
    /\ ~req[r].skip
    /\ ~NeededFrom(Cardinality(Want(r)))
    /\ GoTo(r, "refused")
    /\ UNCHANGED <<storeVars, queueVars, commitLocals>>

\* A failing EVAL answers None, read as "0 left": the gate is passed without
\* a decrement.
GateFailsOpen(r) ==
    /\ At(r, "gate")
    /\ ~req[r].skip
    /\ "redis" \in Faults
    /\ GoTo(r, "sold")
    /\ UNCHANGED <<storeVars, queueVars, commitLocals>>

\* _expire_hold_cache_on_soldout: a TTL on every key of the show, confirmed
\* seats included.
MarkSoldOut(r) ==
    /\ At(r, "sold")
    /\ ttl' = [seats |-> {s \in Seats : seatKey[s] # Nobody},
               metas |-> ttl.metas \cup {x \in Refs : holdMeta[x] # {}},
               holds |-> holdSet # {},
               remain |-> remain # Missing]
    /\ GoTo(r, "check")
    /\ UNCHANGED <<req, seatKey, holdSet, holdMeta, remain, dirty, answerVars,
                   dbVars, queueVars, commitLocals>>

-----------------------------------------------------------------------------
(* try_hold_seats                                                          *)

\* any_confirmed: some key reads "CONFIRMED". (The confirmed set it also
\* consults is empty, see SeedNotNeeded, so the answer is the keys' one.)
CheckConfirmed(r) ==
    /\ At(r, "check")
    /\ GoTo(r, IF \E s \in Want(r) : seatKey[s] = Confirmed THEN "undo" ELSE "nx")
    /\ UNCHANGED <<storeVars, queueVars, commitLocals>>

\* The SET NX pipeline got every seat.
HoldAll(r) ==
    /\ At(r, "nx")
    /\ FreeKeys(Want(r)) = Want(r)
    /\ TakeKeys(r, Want(r))
    /\ held' = [held EXCEPT ![r] = Want(r)]
    /\ GoTo(r, "mark")
    /\ UNCHANGED <<req, holdSet, holdMeta, remain, dirty, answerVars, dbVars,
                   queueVars, seed, mine, failing, ticket>>

\* It got some: the answers are read in the order of the request up to the
\* first refused seat, and only the seats before it are given back.
HoldPart(r) ==
    /\ At(r, "nx")
    /\ FreeKeys(Want(r)) # Want(r)
    /\ TakeKeys(r, Want(r))
    /\ \E S \in SUBSET FreeKeys(Want(r)) :
         /\ IF seatKey[req[r].lead] = Nobody THEN req[r].lead \in S ELSE S = {}
         /\ held' = [held EXCEPT ![r] = S]
         /\ GoTo(r, IF S = {} THEN "undo" ELSE "relRead")
    /\ UNCHANGED <<req, holdSet, holdMeta, remain, dirty, answerVars, dbVars,
                   queueVars, seed, mine, failing, ticket>>

\* The pipeline failed: no answer to read is no refusal.
HoldFailsOpen(r) ==
    /\ At(r, "nx")
    /\ "redis" \in Faults
    /\ GoTo(r, "mark")
    /\ UNCHANGED <<storeVars, queueVars, commitLocals>>

\* Mutant: the hold metadata is not written.
MarkHold_NoMeta(r) ==
    /\ At(r, "mark")
    /\ holdSet' = holdSet \cup held[r]
    /\ GoTo(r, "take")
    /\ UNCHANGED <<req, seatKey, holdMeta, remain, dirty, ttl, answerVars, dbVars,
                   queueVars, commitLocals>>

\* The second pipeline: hold set and hold metadata.
MarkHold(r) ==
    /\ At(r, "mark")
    /\ \/ /\ holdSet' = holdSet \cup held[r]
          /\ holdMeta' = [holdMeta EXCEPT ![r] = held[r]]
          /\ ttl' = IF HoldTTL
                      THEN [ttl EXCEPT !.holds = IF held[r] = {} THEN @ ELSE TRUE,
                                       !.metas = @ \cup {r}]
                      ELSE ttl
       \/ "redis" \in Faults /\ UNCHANGED <<holdSet, holdMeta, ttl>>
    /\ GoTo(r, "take")
    /\ UNCHANGED <<req, seatKey, remain, dirty, answerVars, dbVars, queueVars,
                   commitLocals>>

-----------------------------------------------------------------------------
(* release_seats, and the restore commit adds after a failed hold          *)

ReleaseRead(r) ==
    /\ At(r, "relRead")
    /\ \/ mine' = [mine EXCEPT ![r] = OwnedBy(r, held[r])]
       \/ "redis" \in Faults /\ UNCHANGED mine
    /\ GoTo(r, "relWrite")
    /\ UNCHANGED <<storeVars, queueVars, seed, held, failing, ticket>>

ReleaseWrite(r) ==
    /\ At(r, "relWrite")
    /\ \/ DropKeys(mine[r])
       \/ "redis" \in Faults /\ UNCHANGED <<seatKey, holdSet, ttl>>
    /\ GoTo(r, "relAdd")
    /\ UNCHANGED <<req, holdMeta, remain, dirty, answerVars, dbVars, queueVars,
                   commitLocals>>

\* adjust_remain(+released)
ReleaseRestore(r) ==
    /\ At(r, "relAdd")
    /\ IF mine[r] # {}
         THEN AddRemain(Cardinality(mine[r])) /\ dirty' = TRUE
         ELSE UNCHANGED <<remain, dirty>>
    /\ held' = [held EXCEPT ![r] = {}]
    /\ mine' = [mine EXCEPT ![r] = {}]
    /\ GoTo(r, IF failing[r] THEN "error" ELSE "undo")
    /\ UNCHANGED <<req, seatKey, holdSet, holdMeta, ttl, answerVars, dbVars,
                   queueVars, seed, failing, ticket>>

\* Mutant: the decrement of a refused request is not undone.
UndoDecrement_Forgotten(r) ==
    /\ At(r, "undo")
    /\ GoTo(r, "refused")
    /\ UNCHANGED <<storeVars, queueVars, commitLocals>>

\* adjust_remain(+req_count), then 409
UndoDecrement(r) ==
    /\ At(r, "undo")
    /\ \/ AddRemain(Cardinality(Want(r))) /\ dirty' = TRUE
       \/ "redis" \in Faults /\ UNCHANGED <<remain, dirty>>
    /\ GoTo(r, "refused")
    /\ UNCHANGED <<req, seatKey, holdSet, holdMeta, ttl, answerVars, dbVars,
                   queueVars, commitLocals>>

-----------------------------------------------------------------------------
(* send_booking_message                                                    *)

TakeTicket(r) ==
    /\ At(r, "take")
    /\ \/ enq' = enq + 1 /\ ticket' = [ticket EXCEPT ![r] = enq + 1]
       \/ "redis" \in Faults /\ UNCHANGED <<enq, ticket>>
    /\ GoTo(r, "send")
    /\ UNCHANGED <<req, cacheVars, result, queued, done, dbVars, queueVars,
                   seed, held, mine, failing>>

SendOk(r) ==
    /\ At(r, "send")
    /\ Enqueue(r)
    /\ GoTo(r, "note")
    /\ UNCHANGED <<storeVars, commitLocals>>

\* get_queue_url or send_message raises, the message sent or not. The hold is
\* released and the request ends in a 500.
SendFails(r) ==
    /\ "send" \in Faults
    /\ \/ At(r, "send") /\ Enqueue(r)
       \/ cpc[r] \in {"take", "send"} /\ UNCHANGED queueVars
    /\ failing' = [failing EXCEPT ![r] = TRUE]
    /\ held' = [held EXCEPT ![r] = IF req[r].skip THEN {} ELSE Want(r)]
    /\ GoTo(r, IF req[r].skip THEN "error" ELSE "relRead")
    /\ UNCHANGED <<storeVars, seed, mine, ticket>>

\* _mark_booking_queued; the answer to the client is QUEUED either way.
NoteQueued(r) ==
    /\ At(r, "note")
    /\ \/ queued' = [queued EXCEPT ![r] = ticket[r]]
       \/ "redis" \in Faults /\ UNCHANGED queued
    /\ GoTo(r, "queued")
    /\ UNCHANGED <<req, cacheVars, result, enq, done, dbVars, queueVars,
                   commitLocals>>

CommitCrash(r) ==
    /\ cpc[r] \in Running \ {"seed"}
    /\ "crash" \in Faults
    /\ GoTo(r, "dead")
    /\ UNCHANGED <<storeVars, queueVars, commitLocals>>

CommitStep(r) ==
    \/ SeedNotNeeded(r) \/ SeedNeeded(r) \/ SeedRead(r) \/ SeedWrite(r)
    \/ PermitDenied(r) \/ SkipHold(r)
    \/ GatePass(r) \/ GateFull(r) \/ GateFailsOpen(r) \/ MarkSoldOut(r)
    \/ CheckConfirmed(r) \/ HoldAll(r) \/ HoldPart(r) \/ HoldFailsOpen(r)
    \/ MarkHold(r)
    \/ ReleaseRead(r) \/ ReleaseWrite(r) \/ ReleaseRestore(r)
    \/ UndoDecrement(r)
    \/ TakeTicket(r) \/ SendOk(r) \/ SendFails(r) \/ NoteQueued(r)
=============================================================================
