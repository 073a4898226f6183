---------------------------- MODULE TicketClient ---------------------------
(***************************************************************************)
(* A user of sqs_load_real_concert3.py in its realistic mode               *)
(* (_realistic_flow_one): after its permit it commits one seat after the   *)
(* other, up to its share of the tickets. Tickets and seats are handed out *)
(* to all users from two counters, each under a lock of its own.           *)
(***************************************************************************)
EXTENDS PhasedClient, Sequences

CONSTANTS
    FreeSeats,   \* the seats found free in RDS before the test
    Tickets,     \* tickets_effective, never more than FreeSeats
    MaxPlaces    \* bound on the places that retried enters take

ASSUME TicketAssumption == FreeSeats \in Seq(Seats) /\ Tickets \in 0..Len(FreeSeats)

VARIABLES
    left,      \* tickets_left
    next,      \* next_seat_idx
    bought     \* commits_done

ticketVars == <<left, next, bought>>

TicketTypeOK ==
    /\ left \in 0..Tickets
    /\ next \in 1..(Len(FreeSeats) + 1)
    /\ bought \in [Clients -> 0..Tickets]

TicketInit ==
    /\ left = Tickets /\ next = 1
    /\ bought = [c \in Clients |-> 0]

\* _planned_quota_for_user for the i-th of n users
Quota(i, n) == Tickets \div n + (IF i <= Tickets % n THEN 1 ELSE 0)

TicketStart(c) ==
    /\ phase[c] = "idle"
    /\ Turn(c, "enter")
    /\ UNCHANGED <<tries, accepted, dropped, tally, roomVars, deskVars, ticketVars>>

\* _enter_one asks again until it has a queue_ref, or no time is left.
TicketEnter(c) ==
    /\ phase[c] = "enter"
    /\ \/ NewRef(c) /\ Turn(c, "poll") /\ Count(c, {"enter_ok"})
       \/ enq < MaxPlaces /\ LostRef(c) /\ Count(c, {}) /\ UNCHANGED phase
       \/ Turn(c, "over") /\ Count(c, {"enter_fail"}) /\ UNCHANGED roomVars
    /\ UNCHANGED <<tries, accepted, dropped, deskVars, ticketVars>>

TicketTold(c) ==
    /\ phase[c] = "poll" /\ Over(c)
    /\ Read(c)
    /\ IF polls[c].step # "admitted" THEN Count(c, {}) /\ UNCHANGED phase
       ELSE Turn(c, "buy") /\ Count(c, {"admitted_ok"})
    /\ UNCHANGED <<tries, accepted, dropped, deskVars, ticketVars>>

\* A ticket, while the user's share and the test have one left.
TakeTicket(c, quota) ==
    /\ phase[c] = "buy"
    /\ IF bought[c] < quota /\ left > 0
         THEN left' = left - 1 /\ Turn(c, "seat")
         ELSE UNCHANGED left /\ Turn(c, "over")
    /\ UNCHANGED <<tries, accepted, dropped, tally, next, bought, roomVars, deskVars>>

\* Mutant: two users may be given one seat.
AllocSeat_Shared(c) ==
    /\ phase[c] = "seat" /\ next <= Len(FreeSeats)
    /\ next' = IF \E d \in Buyers \ {c} : phase[d] = "seat" THEN next ELSE next + 1
    /\ tries' = [tries EXCEPT ![c] = @ + 1]
    /\ Post(<<c, tries[c] + 1>>, FreeSeats[next], FALSE)
    /\ Turn(c, "wait")
    /\ UNCHANGED <<accepted, dropped, tally, left, bought, roomVars>>

\* The next seat, and its commit.
AllocSeat(c) ==
    /\ phase[c] = "seat" /\ next <= Len(FreeSeats)
    /\ next' = next + 1
    /\ tries' = [tries EXCEPT ![c] = @ + 1]
    /\ Post(<<c, tries[c] + 1>>, FreeSeats[next], FALSE)
    /\ Turn(c, "wait")
    /\ UNCHANGED <<accepted, dropped, tally, left, bought, roomVars>>

Done(c) == bought' = [bought EXCEPT ![c] = @ + 1] /\ Turn(c, "buy")

\* A 429 asks for the permit of the same queue_ref once more; any other answer
\* ends the commit.
TicketAnswered(c) ==
    /\ phase[c] = "wait" /\ Heard(c)
    /\ LET answer == call[Try(c)].step
       IN  \/ /\ answer = "queued"
              /\ Done(c) /\ Count(c, {"commit_queued_ok"})
              /\ accepted' = accepted \cup {Try(c)} /\ UNCHANGED roomVars
           \/ /\ answer = "required" /\ ref[c] # 0
              /\ Ask(c, ref[c]) /\ Turn(c, "renew") /\ Count(c, {})
              /\ UNCHANGED <<bought, accepted>>
           \/ /\ answer \notin {"queued", "required"} \/ (answer = "required" /\ ref[c] = 0)
              /\ Done(c) /\ Count(c, {"commit_fail"}) /\ UNCHANGED <<accepted, roomVars>>
    /\ UNCHANGED <<tries, dropped, deskVars, left, next>>

\* The commit of the same seat again.
Resend(c) ==
    /\ tries' = [tries EXCEPT ![c] = @ + 1]
    /\ Post(<<c, tries[c] + 1>>, Wants(Try(c)), FALSE)

Renewed(c) ==
    /\ phase[c] = "renew" /\ Over(c)
    /\ Read(c)
    /\ \/ /\ polls[c].step = "admitted" /\ tries[c] < MaxTries
          /\ Resend(c) /\ Turn(c, "wait") /\ Count(c, {}) /\ UNCHANGED bought
       \/ /\ polls[c].step # "admitted" \/ tries[c] = MaxTries
          /\ Done(c) /\ Count(c, {"commit_fail"}) /\ UNCHANGED <<tries, deskVars>>
    /\ UNCHANGED <<accepted, dropped, left, next>>

\* No answer: the same seat again, until no time is left (MaxTries bounds it).
TicketNoAnswer(c) ==
    /\ phase[c] = "wait"
    /\ dropped' = dropped \cup {Try(c)}
    /\ \/ /\ tries[c] < MaxTries
          /\ Resend(c) /\ Count(c, {}) /\ UNCHANGED <<phase, bought>>
       \/ Done(c) /\ Count(c, {"commit_fail"}) /\ UNCHANGED <<tries, deskVars>>
    /\ UNCHANGED <<accepted, roomVars, left, next>>
=============================================================================
