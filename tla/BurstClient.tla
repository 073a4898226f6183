---------------------------- MODULE BurstClient ----------------------------
(***************************************************************************)
(* A user of the burst test (sqs_load_real_concert7.py, _one): a place in  *)
(* line, polls until a permit or the deadline, then the commit, sent again *)
(* after a timeout, a 5xx or a 429, the 429 after a new place in line.     *)
(***************************************************************************)
EXTENDS SeatDesk

CONSTANTS
    Bursters, Phased, Buyers,   \* the users of each script
    SeatFor,                    \* the seat of the i-th user, Nobody past the last
    Retries, Patience, Concurrency

ASSUME BurstAssumption ==
    /\ IsFiniteSet(Clients)
    /\ Retries \in Nat /\ Retries < MaxTries
    /\ Patience \in 1..MaxTime /\ Concurrency \in Nat \ {0}
    /\ Bursters \cup Phased \cup Buyers \subseteq Clients
    /\ Bursters \cap (Phased \cup Buyers) = {} /\ Phased \cap Buyers = {}
    /\ SeatFor \in [Clients -> Seats \cup {Nobody}]

VARIABLES
    plan,      \* the script that runs
    phase,     \* where each client is
    tries,     \* the commits it has sent
    accepted,  \* the commits clients know to be QUEUED
    dropped,   \* the commits whose answer a client did not wait for
    tally      \* the script's counters

clientVars == <<phase, tries, accepted, dropped, tally>>

Phases == {"idle", "enter", "entered", "poll", "commit", "wait", "enter again",
           "poll again", "buy", "seat", "renew", "over", "cancelled"}
Counters == {"skipped", "enter_ok", "enter_fail", "admitted_ok", "admitted_fail",
             "commit_queued_ok", "commit_fail"}

ClientTypeOK ==
    /\ phase \in [Clients -> Phases]
    /\ tries \in [Clients -> 0..MaxTries]
    /\ accepted \subseteq Calls /\ dropped \subseteq Calls
    /\ tally \in [Counters -> Nat]

\* Some users have nothing to do, and some open browsers stand in line already.
ClientInit ==
    /\ phase \in [Clients -> {"idle", "poll", "cancelled"}]
    /\ \A c \in Clients : phase[c] = "poll" => ref[c] # 0 /\ c \in Phased
    /\ tries = [c \in Clients |-> 0]
    /\ accepted = {} /\ dropped = {}
    /\ tally = [k \in Counters |-> 0]

Turn(c, p) == phase' = [phase EXCEPT ![c] = p]
Users == IF plan = "burst" THEN Bursters ELSE IF plan = "phased" THEN Phased ELSE Buyers
\* A script counts its own users, no browsers.
Count(c, S) ==
    tally' = [k \in Counters |-> IF c \in Users /\ k \in S THEN tally[k] + 1 ELSE tally[k]]
Try(c) == <<c, tries[c]>>
Heard(c) == call[Try(c)].step \in Answers
Active == {c \in Clients : phase[c] \notin {"idle", "over", "cancelled"}}

\* A worker of the pool takes the next user; who gets no seat is skipped.
Start(c) ==
    /\ phase[c] = "idle" /\ Cardinality(Active \cap Bursters) < Concurrency
    /\ IF SeatFor[c] = Nobody THEN Turn(c, "over") /\ Count(c, {"skipped"})
       ELSE Turn(c, "enter") /\ Count(c, {})
    /\ UNCHANGED <<tries, accepted, dropped, roomVars, deskVars>>

\* The place in line, or no answer, which may cost a place.
Enter(c) ==
    /\ phase[c] = "enter"
    /\ \/ NewRef(c) /\ Turn(c, "poll") /\ Count(c, {"enter_ok"})
       \/ /\ LostRef(c) \/ UNCHANGED roomVars
          /\ Turn(c, "over") /\ Count(c, {"enter_fail"})
    /\ UNCHANGED <<tries, accepted, dropped, deskVars>>

\* GET status, until the deadline; an expired queue_ref gives nothing.
Poll(c) ==
    /\ phase[c] \in {"poll", "poll again"} /\ Idle(c)
    /\ now < Patience /\ ref[c] # 0
    /\ Ask(c, ref[c])
    /\ UNCHANGED <<clientVars, deskVars>>

\* The next attempt, or the end of them.
Again(c) ==
    IF tries[c] <= Retries THEN Turn(c, "commit") /\ Count(c, {})
    ELSE Turn(c, "over") /\ Count(c, {"commit_fail"})

Told(c) ==
    /\ phase[c] \in {"poll", "poll again"} /\ Over(c)
    /\ Read(c)
    /\ IF polls[c].step # "admitted" THEN Count(c, {}) /\ UNCHANGED phase
       ELSE IF phase[c] = "poll" THEN Turn(c, "commit") /\ Count(c, {"admitted_ok"})
       ELSE Again(c)
    /\ UNCHANGED <<tries, accepted, dropped, deskVars>>

\* The deadline: without a first permit the user is lost, without a second one
\* the commit is sent with the first.
GiveUp(c) ==
    /\ phase[c] \in {"poll", "poll again"} /\ Idle(c)
    /\ now >= Patience
    /\ IF phase[c] = "poll" THEN Turn(c, "over") /\ Count(c, {"admitted_fail"})
       ELSE Again(c)
    /\ UNCHANGED <<tries, accepted, dropped, roomVars, deskVars>>

Commit(c) ==
    /\ phase[c] = "commit"
    /\ tries' = [tries EXCEPT ![c] = @ + 1]
    /\ Post(<<c, tries[c] + 1>>, SeatFor[c], FALSE)
    /\ Turn(c, "wait")
    /\ UNCHANGED <<accepted, dropped, tally, roomVars>>

\* A 429 costs a new place in line, whether an attempt is left or not.
Answered(c) ==
    /\ phase[c] = "wait" /\ Heard(c)
    /\ LET answer == call[Try(c)].step
       IN  /\ CASE answer = "queued" -> Turn(c, "over") /\ Count(c, {"commit_queued_ok"})
                [] answer = "taken" -> Turn(c, "over") /\ Count(c, {"commit_fail"})
                [] answer = "required" -> Turn(c, "enter again") /\ Count(c, {})
                [] OTHER -> Again(c)
           /\ accepted' = IF answer = "queued" THEN accepted \cup {Try(c)} ELSE accepted
    /\ UNCHANGED <<tries, dropped, roomVars, deskVars>>

\* Mutant: a commit that timed out is counted as failed before it is tried again.
NoAnswer_CountsFirst(c) ==
    /\ phase[c] = "wait"
    /\ dropped' = dropped \cup {Try(c)}
    /\ Count(c, {"commit_fail"})
    /\ Turn(c, IF tries[c] <= Retries THEN "commit" ELSE "over")
    /\ UNCHANGED <<tries, accepted, roomVars, deskVars>>

\* Mutant: a client waits for its answer however long it takes.
NoAnswer_Never(c) ==
    /\ phase[c] = "wait" /\ Heard(c)
    /\ dropped' = dropped \cup {Try(c)}
    /\ Again(c)
    /\ UNCHANGED <<tries, accepted, roomVars, deskVars>>

\* A timeout is tried again, a broken connection is not; write-api goes on with
\* the commit, or has answered it already.
NoAnswer(c) ==
    /\ phase[c] = "wait"
    /\ dropped' = dropped \cup {Try(c)}
    /\ \/ Again(c)
       \/ Turn(c, "over") /\ Count(c, {"commit_fail"})
    /\ UNCHANGED <<tries, accepted, roomVars, deskVars>>

EnterAgain(c) ==
    /\ phase[c] = "enter again"
    /\ \/ NewRef(c) /\ Turn(c, "poll again") /\ Count(c, {})
       \/ /\ LostRef(c) \/ UNCHANGED roomVars
          /\ Again(c)
    /\ UNCHANGED <<tries, accepted, dropped, deskVars>>
-----------------------------------------------------------------------------
\* What a client took for QUEUED has its message in the queue and its seat on
\* hold, whatever its other attempts did, but where Redis failed when the key was to
\* be set, which goes for a hold as well, or where a key of the seat expired.
AcceptedIsHeld ==
    /\ accepted \subseteq sent
    /\ \A h \in accepted : holder[Wants(h)] = h \/ h \in keyless \/ Wants(h) \in lapsed

\* A hold that no client knows of comes from a commit whose answer nobody waited
\* for, whose pod stopped, or whose refused message found Redis failing too: the
\* script counts that seat as lost.
HoldIsKnown ==
    \A s \in Seats : holder[s] # Nobody =>
        LET h == holder[s]
        IN  \/ h \in accepted \cup dropped \cup stuck
            \/ phase[Client(h)] = "wait" /\ Try(Client(h)) = h

\* The seats of a script's users are different: a commit finds its seat taken only
\* by another commit of the same user, who did not wait for one of the two, or was
\* told 500 when the other could not be undone.
TakenIsOwn ==
    \A h \in DOMAIN call : In(h, "taken") =>
        \E i \in DOMAIN call \ {h} : /\ Client(i) = Client(h) /\ Wants(i) = Wants(h)
                                     /\ {h, i} \cap dropped # {} \/ i \in stuck
=============================================================================
