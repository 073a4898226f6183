------------------------------ MODULE LoadTest -----------------------------
(***************************************************************************)
(* A load test of the waiting room and of the commits behind it: the       *)
(* script that prepares the room, its users, and what it does when they    *)
(* are over or somebody stops it; an operator and the monitoring beside.   *)
(***************************************************************************)
EXTENDS TicketClient

CONSTANTS
    Place,              \* the order of the buyers
    Script, Operator,   \* who writes the control
    AdmitRate,          \* --admit-rate of the burst test
    DrainRate,          \* --wr-drain-rate of the ticket test
    OperatorRates,      \* the rates an operator asks for, 0: hold everybody
    ObservedRates,      \* what the monitoring observes
    MaxOrders           \* bound on the operator's orders

ASSUME LoadAssumption ==
    /\ AdmitRate \in Nat \ {0} /\ DrainRate \in Nat \ {0}
    /\ OperatorRates \subseteq Nat /\ ObservedRates \subseteq Nat

VARIABLES
    may,      \* what may happen besides, see Mishaps
    script,   \* where it is
    stopped,  \* the steps in which somebody stopped it
    edit,     \* the control each writer is about to write
    kept,     \* the script could not restore the control
    orders    \* the orders the operator has given

scriptVars == <<plan, may, script, stopped, edit, kept, orders>>
vars == <<now, roomVars, deskVars, clientVars, ticketVars, scriptVars>>

\* Redis errors and pods that stop; answers that come too late; permits, queue_refs
\* and holds that expire; the monitoring; an operator; Ctrl-C.
Mishaps == {"errors", "crashes", "delays", "expiry", "monitor", "orders", "interrupt"}

NoEdit == DefaultControl
ScriptSteps == {"reset", "read", "write", "run", "drain", "drain write", "watch",
                "restore", "restore write", "over"}

\* The ticket test resets the room when it is asked to.
FirstSteps == IF plan = "phased" THEN {"run"}
              ELSE IF plan = "burst" THEN {"reset"} ELSE {"reset", "run"}

TypeOK ==
    /\ RoomTypeOK /\ DeskTypeOK /\ ClientTypeOK /\ TicketTypeOK
    /\ plan \in {"burst", "phased", "tickets"} /\ may \subseteq Mishaps
    /\ script \in ScriptSteps /\ stopped \subseteq ScriptSteps
    /\ edit \in [{Script, Operator} -> Controls]
    /\ kept \in BOOLEAN
    /\ orders \in 0..(2 * MaxOrders)

Init ==
    /\ RoomInit /\ DeskInit /\ ClientInit /\ TicketInit
    /\ plan \in {"burst", "phased", "tickets"} /\ may \subseteq Mishaps
    /\ script \in FirstSteps /\ stopped = {}
    /\ edit = [w \in {Script, Operator} |-> NoEdit]
    /\ kept = FALSE
    /\ orders = 0

Tick ==
    /\ now < MaxTime /\ now' = now + 1
    /\ UNCHANGED <<roomVars, deskVars, clientVars, ticketVars, scriptVars>>

-----------------------------------------------------------------------------
(* write-api and Redis. *)

Gate(p) ==
    /\ ReadClock(p) \/ WriteClock(p)
    /\ UNCHANGED <<now, deskVars, clientVars, ticketVars, scriptVars>>

GateFails(p) ==
    /\ "errors" \in may /\ PollFails(p)
    /\ UNCHANGED <<now, deskVars, clientVars, ticketVars, scriptVars>>

Serve(h) ==
    /\ CheckPermit(h) \/ CheckAgain(h) \/ Hold(h) \/ Send(h) \/ Release(h)
    /\ UNCHANGED <<now, clientVars, ticketVars, scriptVars>>

ServeFails(h) ==
    /\ "errors" \in may /\ RedisFails(h)
    /\ UNCHANGED <<now, clientVars, ticketVars, scriptVars>>

PodDies(h) ==
    /\ "crashes" \in may /\ CallDies(h)
    /\ UNCHANGED <<now, clientVars, ticketVars, scriptVars>>

Expires ==
    /\ "expiry" \in may
    /\ \/ \E c \in Clients : RefExpires(c)
       \/ \E p \in permits : PermitExpires(p)
    /\ UNCHANGED <<now, deskVars, clientVars, ticketVars, scriptVars>>

HoldExpires(s) ==
    /\ "expiry" \in may /\ KeyExpires(s)
    /\ UNCHANGED <<now, clientVars, ticketVars, scriptVars>>

\* The monitoring observes a rate, and the observation expires.
Monitor ==
    /\ "monitor" \in may /\ \E r \in ObservedRates \cup {0} : r # observed /\ Observe(r)
    /\ UNCHANGED <<now, deskVars, clientVars, ticketVars, scriptVars>>

-----------------------------------------------------------------------------
(* The users; they act while the script runs them. *)

Late(c) == phase[c] = "wait" /\ ("delays" \in may \/ In(Try(c), "lost"))
Rest == UNCHANGED <<now, ticketVars, scriptVars>>

Burst(c) ==
    /\ script = "run" /\ plan = "burst" /\ c \in Bursters
    /\ \/ Start(c) \/ Enter(c) \/ Poll(c) \/ Told(c) \/ GiveUp(c)
       \/ Commit(c) \/ Answered(c) \/ EnterAgain(c)
       \/ Late(c) /\ NoAnswer(c)
    /\ Rest

Phase(c) ==
    /\ c \in Phased
    /\ \/ PhasedStart(c) \/ PhasedEnter(c) \/ SecondPhase(c) \/ Poll(c) \/ Told(c)
       \/ GiveUp(c) \/ PhasedCommit(c) \/ PhasedAnswered(c)
       \/ Late(c) /\ NoAnswer(c)
    /\ Rest

\* Shares go by the order of the users.
Share(c) == Quota(Place[c], Cardinality(Buyers))

Buy(c) ==
    /\ script = "run" /\ plan = "tickets" /\ c \in Buyers
    /\ \/ TicketStart(c) \/ TicketEnter(c) \/ TicketTold(c) \/ TakeTicket(c, Share(c))
       \/ AllocSeat(c) \/ TicketAnswered(c) \/ Renewed(c)
       \/ Late(c) /\ TicketNoAnswer(c)
       \/ (Poll(c) \/ GiveUp(c)) /\ UNCHANGED ticketVars
    /\ UNCHANGED <<now, scriptVars>>
-----------------------------------------------------------------------------
(* The script. *)

Ended == {"over", "cancelled"}
Step(s) == script' = s
Quiet == UNCHANGED <<now, clientVars, ticketVars, deskVars, plan, may, stopped, orders>>

\* POST .../waiting-room/reset; a failure is passed over.
PrepareReset ==
    /\ script = "reset"
    /\ ResetRoom \/ UNCHANGED roomVars
    /\ Step(IF plan = "burst" THEN "read" ELSE "run")
    /\ Quiet /\ UNCHANGED <<edit, kept>>

\* set_control_full reads the control, changes what was asked for, and writes it.
Edit(w, mode, enabled, rate) ==
    edit' = [edit EXCEPT ![w] = [mode |-> mode, enabled |-> enabled, rate |-> rate]]

PrepareControl ==
    /\ \/ /\ script = "read"
          /\ Edit(Script, "MANUAL", TRUE, AdmitRate) /\ Step("write") /\ UNCHANGED roomVars
       \/ /\ script = "write"
          /\ WriteControl(edit[Script]) \/ UNCHANGED roomVars
          /\ Step("run") /\ UNCHANGED edit
    /\ Quiet /\ UNCHANGED kept

After == IF plan = "burst" THEN "restore" ELSE IF plan = "tickets" THEN "drain" ELSE "over"

UsersEnd ==
    /\ script = "run" /\ \A c \in Users : phase[c] \in Ended
    /\ Step(After)
    /\ Quiet /\ UNCHANGED <<edit, kept, roomVars>>

\* What becomes of the request the script is about to make, or has made.
LastRequest ==
    \/ UNCHANGED roomVars
    \/ script = "reset" /\ ResetRoom
    \/ script \in {"write", "drain write", "restore write"} /\ WriteControl(edit[Script])

\* Mutant: the script that is stopped leaves without its finally.
Interrupt_NoFinally ==
    /\ "interrupt" \in may /\ script # "over" /\ stopped' = stopped \cup {script}
    /\ phase' = [c \in Clients |-> IF c \in Users /\ phase[c] \notin Ended
                                   THEN "cancelled" ELSE phase[c]]
    /\ dropped' = dropped \cup {Try(c) : c \in {d \in Users : phase[d] = "wait"}}
    /\ Step("over") /\ LastRequest
    /\ UNCHANGED <<now, tries, accepted, tally, ticketVars, deskVars,
                   plan, may, edit, kept, orders>>

\* Ctrl-C: the users stop where they are and commits under way go on at write-api.
\* While the users run, the end of the script is still to come; before and after
\* that nothing is.
Interrupt ==
    /\ "interrupt" \in may /\ script # "over" /\ stopped' = stopped \cup {script}
    /\ phase' = [c \in Clients |-> IF c \in Users /\ phase[c] \notin Ended
                                   THEN "cancelled" ELSE phase[c]]
    /\ dropped' = dropped \cup {Try(c) : c \in {d \in Users : phase[d] = "wait"}}
    /\ Step(IF script = "run" THEN After ELSE "over") /\ LastRequest
    /\ UNCHANGED <<now, tries, accepted, tally, ticketVars, deskVars,
                   plan, may, edit, kept, orders>>

\* --wr-drain-after: a high rate until the metrics show no backlog or time is up.
Drain ==
    /\ \/ /\ script = "drain"
          /\ Edit(Script, "MANUAL", TRUE, DrainRate) /\ Step("drain write")
          /\ UNCHANGED roomVars
       \/ /\ script = "drain write"
          /\ WriteControl(edit[Script]) \/ UNCHANGED roomVars
          /\ Step("watch") /\ UNCHANGED edit
       \/ /\ script = "watch" /\ now < MaxTime
          /\ Ask(Watcher, 0) /\ UNCHANGED <<edit, script>>
       \/ /\ script = "watch" /\ Over(Watcher) /\ Read(Watcher)
          /\ LET w == polls[Watcher]
                 empty == w.step = "waiting" /\ Backlog(w.enq, w.done) = 0
             IN  Step(IF empty THEN "restore" ELSE "watch")
          /\ UNCHANGED edit
       \/ /\ script = "watch" /\ now = MaxTime /\ Idle(Watcher)
          /\ Step("restore") /\ UNCHANGED <<edit, roomVars>>
    /\ Quiet /\ UNCHANGED kept

\* The control back to AUTO; the rate stays. A failure is passed over.
Restore ==
    /\ \/ /\ script = "restore"
          /\ Edit(Script, "AUTO", TRUE, control.rate) /\ Step("restore write")
          /\ UNCHANGED <<roomVars, kept>>
       \/ /\ script = "restore write" /\ Step("over") /\ UNCHANGED edit
          /\ \/ WriteControl(edit[Script]) /\ UNCHANGED kept
             \/ kept' = TRUE /\ UNCHANGED roomVars
    /\ Quiet

\* An operator holds everybody, or lets them in again at a rate.
Order ==
    /\ "orders" \in may /\ orders < 2 * MaxOrders /\ orders' = orders + 1
    /\ \/ /\ orders % 2 = 0 /\ UNCHANGED roomVars
          /\ \E r \in OperatorRates :
                Edit(Operator, IF r = 0 THEN control.mode ELSE "MANUAL", r # 0,
                      IF r = 0 THEN control.rate ELSE r)
       \/ /\ orders % 2 = 1 /\ UNCHANGED edit
          /\ WriteControl(edit[Operator])
    /\ UNCHANGED <<now, clientVars, ticketVars, deskVars, plan, may, script, stopped, kept>>

ScriptStep == PrepareReset \/ PrepareControl \/ UsersEnd \/ Drain \/ Restore

Next ==
    \/ Tick \/ ScriptStep \/ Interrupt \/ Order \/ Expires \/ Monitor
    \/ \E p \in DOMAIN polls : Gate(p) \/ GateFails(p)
    \/ \E h \in DOMAIN call : Serve(h) \/ ServeFails(h) \/ PodDies(h)
    \/ \E s \in Seats : HoldExpires(s)
    \/ \E c \in Clients : Burst(c) \/ Phase(c) \/ Buy(c)

\* Time goes on; write-api answers, users time out or go on, the script does.
Fairness ==
    /\ WF_vars(Tick) /\ WF_vars(ScriptStep)
    /\ WF_vars(\E p \in DOMAIN polls : Gate(p)) /\ WF_vars(\E h \in DOMAIN call : Serve(h))
    /\ WF_vars(\E c \in Clients : Burst(c) \/ Phase(c) \/ Buy(c))

Spec == Init /\ [][Next]_vars /\ Fairness
-----------------------------------------------------------------------------
\* The number of users of the script at these places.
UsersAt(places) == Cardinality({c \in Users : phase[c] \in places})
Ends == tally["commit_queued_ok"] + tally["commit_fail"]

\* The counters of a script add up over its users: each who is over is in one of
\* them, once, whatever was tried again in between, and came through the gate
\* before its commit did.
UsersAddUp ==
    plan # "tickets" =>
        /\ UsersAt({"over"}) = tally["skipped"] + tally["enter_fail"]
                                + tally["admitted_fail"] + Ends
        /\ Ends <= tally["admitted_ok"]

\* Each ticket taken from the lock is one commit under way or one in the counters,
\* however often that is sent again; only Ctrl-C makes tickets disappear.
TicketsAddUp ==
    LET accounted == Ends + UsersAt({"seat", "wait", "renew"})
    IN  plan = "tickets" =>
          /\ accounted <= Tickets - left
          /\ script \in {"reset", "run"} \/ "interrupt" \notin may =>
                accounted = Tickets - left
          /\ tally["admitted_ok"] + tally["admitted_fail"] <= tally["enter_ok"]

\* What a script reports at its end: neither users nor tickets are missing in it.
TallyAddsUp == UsersAddUp /\ TicketsAddUp

\* A script that set the room's control gives it back, though it was stopped while
\* its users ran, when the last request is heard and no operator writes meanwhile.
\* Stopped before that, while it drains or while it gives it back, it does not.
RoomIsHandedBack ==
    script = "over" /\ plan # "phased" /\ stopped \subseteq {"run"} /\ ~kept /\ orders = 0 =>
        control.mode = "AUTO" /\ control.enabled

\* Every script ends, whatever its requests meet.
ScriptEnds == <>(script = "over")
=============================================================================
