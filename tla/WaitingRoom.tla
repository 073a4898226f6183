---------------------------- MODULE WaitingRoom ----------------------------
(***************************************************************************)
(* The waiting room of one show (waiting_room.py): places in line, the     *)
(* gate that moves along with the clock while somebody polls, and the      *)
(* permits it gives. A poll is three steps, the control read, the clock    *)
(* read and the write, so polls of several clients interleave.             *)
(* Time is counted in ticks, Second of them a second, from 1 on: 0 is a    *)
(* counter or a clock that is not there.                                   *)
(***************************************************************************)
EXTENDS Integers, FiniteSets

CONSTANTS
    Clients,          \* the users of a load test and open browsers
    MaxTries,         \* the commits a client sends at most
    Watcher,          \* who reads the metrics
    Second, MaxTime,  \* ticks a second, and the last tick
    DefaultRate,      \* QUEUE_ADMIT_RATE_PER_SEC
    AutoMin, AutoMax, AutoDrain,       \* WR_AUTO_*
    BypassRps, BypassBacklog,          \* WR_BYPASS_*
    QueueOnRps, QueueOnBacklog,        \* WR_QUEUE_ON_*
    RushRps, SurgeRps,                 \* the 200 and 500 of _auto_effective_rate
    RpsSamples                         \* what _rps_estimate may say

ASSUME RoomAssumption ==
    /\ Second \in Nat \ {0} /\ MaxTime \in Nat \ {0} /\ MaxTries \in Nat \ {0}
    /\ {DefaultRate, AutoMin, AutoMax, AutoDrain} \subseteq Nat \ {0}
    /\ AutoMin <= AutoMax
    /\ {BypassRps, BypassBacklog, QueueOnRps, QueueOnBacklog, RushRps, SurgeRps}
         \subseteq Nat
    /\ RpsSamples \subseteq Nat

\* A commit that sends its queue_ref polls as well, for the client it serves.
Calls == Clients \X (1..MaxTries)
Pollers == Clients \cup Calls \cup {Watcher}

VARIABLES
    now,
    enq, done, clock,  \* wr:concert:<show>:enq, :done and :clock
    control,           \* :control
    observed,          \* the rate of :observe, 0 when there is none
    ref,               \* the place in line behind each client's queue_ref
    permits,           \* the pollers whose last permit is alive
    polls,             \* the polls under way, by who polls
    gate               \* what has become of the gate since its last reset

\* What properties are about, and no code keeps: since when the clock runs, the
\* last place let in, the rates polls went by, whether a poll wrote what another
\* one or a reset had overtaken, whether somebody waits behind one let in before.
NewGate(raced) ==
    [opened |-> 0, last |-> 0, rates |-> {}, raced |-> raced, overtaken |-> FALSE]

roomVars == <<enq, done, clock, control, observed, ref, permits, polls, gate>>

Modes == {"AUTO", "MANUAL"}
Controls == [mode : Modes, enabled : BOOLEAN, rate : Nat \ {0}]
DefaultControl == [mode |-> "AUTO", enabled |-> TRUE, rate |-> DefaultRate]

Largest(S) == CHOOSE x \in S \cup {0} : \A y \in S : y <= x
PollSteps == {"asked", "open", "advance", "admitted", "waiting", "failed"}
PollsBy(t) == [step : PollSteps, seq : Nat, rate : Nat, now : 1..t, enq : Nat,
               clock : 0..t, done : Nat, before : Nat]

RoomTypeOK ==
    /\ now \in 1..MaxTime
    /\ enq \in Nat /\ done \in Nat
    /\ clock \in 0..now
    /\ control \in Controls
    /\ observed \in Nat
    /\ ref \in [Clients -> Nat]
    /\ permits \subseteq Pollers
    /\ DOMAIN polls \subseteq Pollers
    /\ polls \in [DOMAIN polls -> PollsBy(now)]
    /\ gate \in [opened : 0..now, last : Nat, rates : SUBSET Nat, raced : BOOLEAN,
                 overtaken : BOOLEAN]

\* A room as earlier visitors left it: nobody polls, and the gate may have let in
\* one place a second since its clock started.
RoomInit ==
    /\ now \in 1..MaxTime
    /\ enq \in Nat /\ control \in Controls /\ observed = 0
    /\ ref \in [Clients -> 0..enq]
    /\ permits = {}
    /\ polls = [p \in {} |-> 0]
    /\ \/ clock = 0 /\ done = 0 /\ gate = NewGate(FALSE)
       \/ \E o \in 1..now :
            /\ done \in Nat /\ clock = o + done * Second /\ clock <= now
            /\ gate = [NewGate(FALSE) EXCEPT !.opened = o, !.rates = {control.rate}]

Idle(p) == p \notin DOMAIN polls
At(p, step) == p \in DOMAIN polls /\ polls[p].step = step
Over(p) == At(p, "admitted") \/ At(p, "waiting") \/ At(p, "failed")

\* reset: one DEL of the counters, the clock, the control and the observation.
\* queue_refs and permits outlive it, and so does a poll under way.
ResetRoom ==
    /\ enq' = 0 /\ done' = 0 /\ clock' = 0
    /\ control' = DefaultControl /\ observed' = 0
    /\ gate' = NewGate(gate.raced \/ \E p \in DOMAIN polls :
                             polls[p].step \in {"asked", "open", "advance"})
    /\ UNCHANGED <<ref, permits, polls>>

\* enter: INCR, then the queue_ref.
NewRef(c) ==
    /\ enq' = enq + 1
    /\ ref' = [ref EXCEPT ![c] = enq + 1]
    /\ UNCHANGED <<done, clock, control, observed, permits, polls, gate>>

\* enter took a place and the client never learns its queue_ref.
LostRef(c) ==
    /\ enq' = enq + 1
    /\ UNCHANGED <<done, clock, control, observed, ref, permits, polls, gate>>

RefExpires(c) ==
    /\ ref[c] # 0 /\ Idle(c)
    /\ ref' = [ref EXCEPT ![c] = 0]
    /\ UNCHANGED <<enq, done, clock, control, observed, permits, polls, gate>>

PermitExpires(p) ==
    /\ p \in permits
    /\ permits' = permits \ {p}
    /\ UNCHANGED <<enq, done, clock, control, observed, ref, polls, gate>>

Observe(rate) ==
    /\ observed' = rate
    /\ UNCHANGED <<enq, done, clock, control, ref, permits, polls, gate>>

-----------------------------------------------------------------------------
(* The gate. *)

Backlog(e, d) == IF e > d THEN e - d ELSE 0
Clamp(rate) == IF rate < AutoMin THEN AutoMin ELSE IF rate > AutoMax THEN AutoMax ELSE rate

\* _auto_effective_rate
AutoRate(rps) ==
    LET backlog == Backlog(enq, done)
        drained == IF backlog > 0 THEN backlog \div AutoDrain ELSE AutoMax
        congested == rps >= QueueOnRps \/ backlog >= QueueOnBacklog
    IN  IF observed # 0 THEN Clamp(observed)
        ELSE IF rps <= BypassRps /\ backlog <= BypassBacklog THEN AutoMax
        ELSE IF congested /\ rps >= SurgeRps THEN AutoMin
        ELSE IF congested /\ rps >= RushRps THEN Clamp(drained \div 2)
        ELSE Clamp(drained)

\* The rate a poll goes by; 0 while the gate is shut.
RateNow(rps) ==
    IF ~control.enabled THEN 0
    ELSE IF control.mode = "MANUAL" THEN control.rate ELSE AutoRate(rps)

\* A poll for a place in line, or for the metrics (seq 0), reads the control
\* and the time.
Ask(p, seq) ==
    /\ Idle(p)
    /\ \E rps \in RpsSamples :
          /\ polls' = [x \in DOMAIN polls \cup {p} |-> IF x # p THEN polls[x] ELSE
                [step |-> "asked", seq |-> seq, rate |-> RateNow(rps), now |-> now,
                 enq |-> enq, clock |-> 0, done |-> 0,
                 before |-> gate.last]]
          /\ gate' = [gate EXCEPT !.rates = @ \cup {RateNow(rps)}]
    /\ UNCHANGED <<enq, done, clock, control, observed, ref, permits>>

\* The end of status: a permit for who is next in line or past the gate.
Answer(p, q, d, g) ==
    LET in == q.seq > 0 /\ q.seq <= d + 1
    IN  /\ polls' = [polls EXCEPT ![p] =
              [q EXCEPT !.step = IF in THEN "admitted" ELSE "waiting",
                        !.clock = 0, !.done = d]]
        /\ permits' = IF in THEN permits \cup {p} ELSE permits
        /\ gate' = IF in THEN [g EXCEPT !.last = IF q.seq > @ THEN q.seq ELSE @]
                   ELSE [g EXCEPT !.overtaken = @ \/ q.seq \in 1..q.before]

\* _advance_done up to its writes: with the gate shut, or not a whole second
\* after the clock, it writes nothing.
ReadClock(p) ==
    LET q == polls[p]
        seconds == IF q.now > clock THEN (q.now - clock) \div Second ELSE 0
    IN  /\ At(p, "asked")
        /\ \/ /\ q.rate = 0 \/ (clock # 0 /\ seconds = 0)
              /\ Answer(p, q, done, gate)
           \/ /\ q.rate # 0 /\ clock = 0
              /\ polls' = [polls EXCEPT ![p].step = "open", ![p].done = done]
              /\ UNCHANGED <<permits, gate>>
           \/ /\ q.rate # 0 /\ clock # 0 /\ seconds > 0
              /\ polls' = [polls EXCEPT ![p].step = "advance",
                                        ![p].clock = clock + seconds * Second,
                                        ![p].done = done + seconds * q.rate]
              /\ UNCHANGED <<permits, gate>>
        /\ UNCHANGED <<enq, done, clock, control, observed, ref>>

\* Mutant: the seconds are added to the counter as it stands, which another poll
\* may have moved meanwhile.
WriteClock_Incr(p) ==
    LET q == polls[p]
    IN  /\ \/ /\ At(p, "open")
              /\ clock' = q.now /\ UNCHANGED done
              /\ Answer(p, q, q.done, [gate EXCEPT !.opened = IF @ = 0 THEN q.now ELSE @,
                                                   !.raced = @ \/ clock # 0])
           \/ /\ At(p, "advance")
              /\ done' = done + q.done /\ clock' = q.clock
              /\ Answer(p, q, done', gate)
        /\ UNCHANGED <<enq, control, observed, ref>>

\* Mutant: the clock is not the one the counter was worked out from.
WriteClock_Now(p) ==
    LET q == polls[p]
    IN  /\ \/ /\ At(p, "open")
              /\ clock' = q.now /\ UNCHANGED done
              /\ Answer(p, q, q.done, [gate EXCEPT !.opened = IF @ = 0 THEN q.now ELSE @,
                                                   !.raced = @ \/ clock # 0])
           \/ /\ At(p, "advance")
              /\ clock' = now /\ done' = q.done
              /\ Answer(p, q, q.done, gate)
        /\ UNCHANGED <<enq, control, observed, ref>>

\* Its writes: the clock alone to start it, or the clock and the counter.
WriteClock(p) ==
    LET q == polls[p]
    IN  /\ \/ /\ At(p, "open")
              /\ clock' = q.now /\ UNCHANGED done
              /\ Answer(p, q, q.done, [gate EXCEPT !.opened = IF @ = 0 THEN q.now ELSE @,
                                                   !.raced = @ \/ clock # 0])
           \/ /\ At(p, "advance")
              /\ clock' = q.clock /\ done' = q.done
              /\ Answer(p, q, q.done, gate)
        /\ UNCHANGED <<enq, control, observed, ref>>

\* Redis answers one of the calls of a poll with an error.
PollFails(p) ==
    /\ At(p, "asked") \/ At(p, "open") \/ At(p, "advance")
    /\ polls' = [polls EXCEPT ![p].step = "failed"]
    /\ UNCHANGED <<enq, done, clock, control, observed, ref, permits, gate>>

Read(p) == /\ polls' = [x \in DOMAIN polls \ {p} |-> polls[x]]
           /\ UNCHANGED <<enq, done, clock, control, observed, ref, permits, gate>>

\* set_control_full writes what it made of the control it had read.
WriteControl(c) ==
    /\ control' = c
    /\ UNCHANGED <<enq, done, clock, observed, ref, permits, polls, gate>>
-----------------------------------------------------------------------------
\* No place is let in before the gate's fastest rate allows since its clock
\* started, but the first in line: pauses, rates that change, polls that
\* overwrite each other's counter do not add up to more (_advance_done).
\* Not so once a poll starts a clock that runs, or writes what a reset removed.
AdmissionIsPaced ==
    ~gate.raced =>
        gate.last <=
            1 + (IF gate.opened = 0 THEN 0
                 ELSE Largest(gate.rates) * ((now - gate.opened) \div Second))

\* While all polls go by one rate, a poll made after a place was let in lets in
\* every place before it, though the counter may have gone back meanwhile.
TurnIsKept ==
    ~gate.raced /\ Cardinality(gate.rates) <= 1 => ~gate.overtaken
=============================================================================
