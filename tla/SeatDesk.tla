----------------------------- MODULE SeatDesk ------------------------------
(***************************************************************************)
(* The commits of a load test at write-api (commit_concert_booking): the   *)
(* permit, the hold, the message. ConcertCommit has the hold in detail;    *)
(* here a commit wants one seat, and its own steps matter to a client that *)
(* stops waiting while the commit goes on, and where Redis fails in it.    *)
(***************************************************************************)
EXTENDS WaitingRoom

CONSTANTS Seats, Nobody

ASSUME DeskAssumption == Nobody \notin Seats \cup Calls

VARIABLES
    call,     \* the commits sent: where each is, the seat it asks for, whether it
              \* carries a queue_ref beside its permit
    holder,   \* the commit that holds each seat
    sent,     \* the commits whose message is in the queue
    \* What no code keeps:
    keyless,  \* the commits that went on without the key of their seat
    stuck,    \* those whose answer was 500 and that still hold it
    lapsed    \* the seats a key of which has expired

deskVars == <<call, holder, sent, keyless, stuck, lapsed>>

Answers == {"queued", "taken", "required", "unavailable", "error"}
CallSteps == {"sent", "asking", "passed", "held", "releasing", "lost"} \cup Answers

Client(h) == h[1]

DeskTypeOK ==
    /\ DOMAIN call \subseteq Calls
    /\ \A h \in DOMAIN call :
          call[h] \in [step : CallSteps, seat : Seats, ref : BOOLEAN]
    /\ holder \in [Seats -> Calls \cup {Nobody}]
    /\ sent \cup keyless \cup stuck \subseteq Calls /\ lapsed \subseteq Seats

DeskInit ==
    /\ call = [h \in {} |-> 0]
    /\ holder = [s \in Seats |-> Nobody]
    /\ sent = {} /\ keyless = {} /\ stuck = {} /\ lapsed = {}

To(h, step) == call' = [call EXCEPT ![h].step = step]
In(h, step) == h \in DOMAIN call /\ call[h].step = step
Wants(h) == call[h].seat

\* A client sends its commit, with or without its queue_ref.
Post(h, seat, withRef) ==
    /\ h \in Calls \ DOMAIN call
    /\ call' = [i \in DOMAIN call \cup {h} |-> IF i # h THEN call[i] ELSE
                  [step |-> "sent", seat |-> seat, ref |-> withRef]]
    /\ UNCHANGED <<holder, sent, keyless, stuck, lapsed>>

\* wr_verify_permit; a commit that carries a queue_ref asks for a new permit.
CheckPermit(h) ==
    /\ In(h, "sent")
    /\ \/ /\ Client(h) \in permits
          /\ To(h, "passed") /\ UNCHANGED roomVars
       \/ /\ Client(h) \notin permits /\ call[h].ref /\ ref[Client(h)] # 0
          /\ Ask(h, ref[Client(h)]) /\ To(h, "asking")
       \/ /\ Client(h) \notin permits /\ (call[h].ref => ref[Client(h)] = 0)
          /\ To(h, "required") /\ UNCHANGED roomVars
    /\ UNCHANGED <<holder, sent, keyless, stuck, lapsed>>

\* The permit wr_status gave, verified as well.
CheckAgain(h) ==
    /\ In(h, "asking") /\ Over(h)
    /\ To(h, IF polls[h].step = "admitted" /\ h \in permits THEN "passed" ELSE "required")
    /\ Read(h)
    /\ UNCHANGED <<holder, sent, keyless, stuck, lapsed>>

\* Mutant: the hold is set without NX.
Hold_Overwrites(h) ==
    /\ In(h, "passed")
    /\ \/ /\ holder' = [holder EXCEPT ![Wants(h)] = h] /\ To(h, "held")
       \/ /\ To(h, "unavailable") /\ UNCHANGED holder
    /\ UNCHANGED <<sent, keyless, stuck, lapsed, roomVars>>

\* The counter and the seat, or nothing of both.
Hold(h) ==
    /\ In(h, "passed")
    /\ \/ /\ holder[Wants(h)] = Nobody
          /\ holder' = [holder EXCEPT ![Wants(h)] = h] /\ To(h, "held")
       \/ /\ holder[Wants(h)] # Nobody
          /\ To(h, "taken") /\ UNCHANGED holder
       \/ /\ To(h, "unavailable") /\ UNCHANGED holder
    /\ UNCHANGED <<sent, keyless, stuck, lapsed, roomVars>>

\* Mutant: the hold stays when the message is refused.
Send_KeepsHold(h) ==
    /\ In(h, "held")
    /\ \/ /\ sent' = sent \cup {h} /\ To(h, "queued")
       \/ /\ sent' \in {sent, sent \cup {h}} /\ To(h, "error")
    /\ UNCHANGED <<holder, keyless, stuck, lapsed, roomVars>>

\* The message; when it is refused, or its acknowledgement lost, release_seats
\* looks whether the key is still the commit's.
Send(h) ==
    /\ In(h, "held")
    /\ \/ /\ sent' = sent \cup {h} /\ To(h, "queued")
       \/ /\ sent' \in {sent, sent \cup {h}}
          /\ To(h, IF holder[Wants(h)] = h THEN "releasing" ELSE "error")
    /\ UNCHANGED <<holder, keyless, stuck, lapsed, roomVars>>

\* It deletes the key, whosever it is by now, and the client hears 500.
Release(h) ==
    /\ In(h, "releasing")
    /\ holder' = [holder EXCEPT ![Wants(h)] = Nobody] /\ To(h, "error")
    /\ UNCHANGED <<sent, keyless, stuck, lapsed, roomVars>>

\* Redis does not answer. The permit is read by a client that raises: 500. A
\* pipeline returns nothing: no seat is found refused, whether the key was set or
\* not; and no key is found to be released, or none is deleted.
RedisFails(h) ==
    /\ \/ In(h, "sent") /\ To(h, "error") /\ UNCHANGED <<holder, keyless, stuck>>
       \/ /\ In(h, "passed") /\ To(h, "held") /\ UNCHANGED stuck
          /\ \/ /\ holder[Wants(h)] = Nobody
                /\ holder' = [holder EXCEPT ![Wants(h)] = h] /\ UNCHANGED keyless
             \/ keyless' = keyless \cup {h} /\ UNCHANGED holder
       \/ /\ In(h, "releasing") /\ To(h, "error")
          /\ stuck' = stuck \cup {h} /\ UNCHANGED <<holder, keyless>>
    /\ UNCHANGED <<sent, lapsed, roomVars>>

\* CONCERT_SEAT_HOLD_TTL_SEC has passed.
KeyExpires(s) ==
    /\ holder[s] # Nobody
    /\ holder' = [holder EXCEPT ![s] = Nobody] /\ lapsed' = lapsed \cup {s}
    /\ UNCHANGED <<call, sent, keyless, stuck, roomVars>>

\* The pod stops in the middle: no answer, and a hold stays.
CallDies(h) ==
    /\ In(h, "sent") \/ In(h, "passed") \/ In(h, "held") \/ In(h, "releasing")
    /\ To(h, "lost")
    /\ UNCHANGED <<holder, sent, keyless, stuck, lapsed, roomVars>>
=============================================================================
