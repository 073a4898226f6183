--------------------------- MODULE BookingAnswers ---------------------------
(***************************************************************************)
(* The Redis booking database, where worker-svc leaves what became of each *)
(* booking_ref and write-api answers the client's polling from, with the   *)
(* counters the polling shows as a position in the queue.                  *)
(* Results live 3600 s and queue marks 7200 s, far longer than the three   *)
(* deliveries of a message take, so they do not expire in this model.      *)
(***************************************************************************)
EXTENDS Naturals, BookingQueue

VARIABLES
    result,     \* booking:result:{ref}
    queued,     \* seq of booking:queued:{ref} (0: no key)
    enq, done   \* booking:queue:{type}:{entity}:enq and :done

answerVars == <<result, queued, enq, done>>

\* The last two are answers of process_theater_booking only.
Codes == {"OK", "DUPLICATE_SEAT", "INVALID_SEAT", "ERROR", "SOLD_OUT", "NOT_FOUND"}

AnswerTypeOK ==
    /\ result \in [Refs -> Codes \cup {"none"}]
    /\ queued \in [Refs -> Nat]
    /\ enq \in Nat
    /\ done \in Nat

AnswerInit ==
    /\ result = [r \in Refs |-> "none"]
    /\ queued = [r \in Refs |-> 0]
    /\ enq = 0
    /\ done = 0

\* store_result: SETEX the result, DEL the queue mark, INCR the done counter.
StoreResult(r, code) ==
    /\ result' = [result EXCEPT ![r] = code]
    /\ queued' = [queued EXCEPT ![r] = 0]
    /\ done' = done + 1
    /\ UNCHANGED enq
=============================================================================
