--------------------------- MODULE TheaterCommit ----------------------------
(***************************************************************************)
(* write-api: POST /api/write/theaters/booking/commit puts the request in  *)
(* the queue, and GET /api/write/booking/status/{ref} answers the client   *)
(* that polls for what became of it.                                       *)
(***************************************************************************)
EXTENDS TheaterStore

CONSTANT Pollers    \* the clients that poll

VARIABLES
    tpc,        \* where each request is
    polling,    \* the clients whose poll found no result and reads on
    told        \* the last thing each client was told

commitVars == <<tpc, polling, told>>

Sent == {"queued", "unmarked"}

CommitTypeOK ==
    /\ tpc \in [Refs -> {"idle", "note", "error", "dead"} \cup Sent]
    /\ polling \subseteq Refs
    /\ told \in [Refs -> Codes \cup {"none", "PROCESSING", "UNKNOWN_OR_EXPIRED"}]

CommitInit ==
    /\ tpc = [r \in Refs |-> "idle"]
    /\ polling = {}
    /\ told = [r \in Refs |-> "none"]

GoTo(r, pc) == tpc' = [tpc EXCEPT ![r] = pc]

\* send_booking_message; the enqueued counter, only shown to the client, is
\* incremented just before.
Send(r) ==
    /\ tpc[r] = "idle"
    /\ Enqueue(r)
    /\ enq' = enq + 1
    /\ GoTo(r, "note")
    /\ UNCHANGED <<theaterVars, result, queued, done, polling, told>>

\* send_message raises, the message sent or not: the client gets a 500.
SendFails(r) ==
    /\ tpc[r] = "idle"
    /\ Fails("send", r)
    /\ Enqueue(r) \/ UNCHANGED queueVars
    /\ enq' = enq + 1
    /\ GoTo(r, "error")
    /\ UNCHANGED <<theaterVars, result, queued, done, polling, told>>

\* _mark_booking_queued, after the message is sent and perhaps handled.
Note(r) ==
    /\ tpc[r] = "note"
    /\ \/ queued' = [queued EXCEPT ![r] = order[r]] /\ GoTo(r, "queued")
       \/ Fails("redis", r) /\ GoTo(r, "unmarked") /\ UNCHANGED queued
    /\ UNCHANGED <<theaterVars, queueVars, result, enq, done, polling, told>>

CommitCrash(r) ==
    /\ tpc[r] = "note"
    /\ Fails("crash", r)
    /\ GoTo(r, "dead")
    /\ UNCHANGED <<theaterVars, queueVars, answerVars, polling, told>>

-----------------------------------------------------------------------------
(* get_booking_status_dict: one GET after the other, until a final answer  *)

Polls(r) == r \in Pollers /\ tpc[r] \in Sent /\ told[r] \in {"none", "PROCESSING"}

PollResult(r) ==
    /\ Polls(r) /\ r \notin polling
    /\ IF result[r] # "none"
         THEN told' = [told EXCEPT ![r] = result[r]] /\ UNCHANGED polling
         ELSE polling' = polling \cup {r} /\ UNCHANGED told
    /\ UNCHANGED <<theaterVars, queueVars, answerVars, tpc>>

\* The database is searched for concert bookings only.
PollMark(r) ==
    /\ r \in polling
    /\ told' = [told EXCEPT ![r] = IF queued[r] # 0 THEN "PROCESSING"
                                   ELSE "UNKNOWN_OR_EXPIRED"]
    /\ polling' = polling \ {r}
    /\ UNCHANGED <<theaterVars, queueVars, answerVars, tpc>>

CommitStep(r) == Send(r) \/ SendFails(r) \/ Note(r)
PollStep(r) == PollResult(r) \/ PollMark(r)
=============================================================================
