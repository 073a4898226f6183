--------------------------- MODULE LoadTestProofs ---------------------------
(***************************************************************************)
(* What the waiting room and write-api promise to any load test: the gate  *)
(* lets in no more than its rate, and who is told QUEUED has a seat.       *)
(***************************************************************************)
EXTENDS LoadTest, FiniteSetTheorems, TLAPS

USE DEF roomVars, deskVars, clientVars, ticketVars, scriptVars

-----------------------------------------------------------------------------
(* Products and whole seconds                                              *)

LEMMA TimesMono ==
    ASSUME NEW a \in Nat, NEW b \in Nat, NEW c \in Nat, a <= b
    PROVE  a * c \in Nat /\ a * c <= b * c /\ c * a \in Nat /\ c * a <= c * b
BY SMT

LEMMA TimesLess ==
    ASSUME NEW a \in Nat, NEW b \in Nat, NEW c \in Nat, a * c < b * c
    PROVE  a < b
BY SMT

LEMMA TimesPlus ==
    ASSUME NEW a \in Nat, NEW b \in Nat, NEW c \in Nat
    PROVE  (a + b) * c = a * c + b * c /\ c * (a + b) = c * a + c * b
BY SMT

LEMMA DivFloor ==
    ASSUME NEW s \in Nat \ {0}, NEW n \in Nat
    PROVE  n \div s \in Nat /\ (n \div s) * s <= n /\ n < (n \div s) * s + s
BY SMT

LEMMA DivAtLeast ==
    ASSUME NEW s \in Nat \ {0}, NEW n \in Nat, NEW k \in Nat, k * s <= n
    PROVE  k <= n \div s
<1>1. n \div s \in Nat /\ n < (n \div s) * s + s
  BY DivFloor
<1>2. (n \div s) * s + s = (n \div s + 1) * s
  BY <1>1, SMT
<1>3. k * s < (n \div s + 1) * s
  BY <1>1, <1>2
<1> QED BY <1>1, <1>3, TimesLess

-----------------------------------------------------------------------------
(* Who changes the room                                                    *)

LoadTypes ==
    /\ RoomTypeOK
    /\ DOMAIN call \subseteq Calls
    /\ edit \in [{Script, Operator} -> Controls]

RoomStep ==
    \/ ResetRoom
    \/ \E c \in Clients : NewRef(c) \/ LostRef(c) \/ RefExpires(c)
    \/ \E p \in permits : PermitExpires(p)
    \/ \E r \in ObservedRates \cup {0} : Observe(r)
    \/ \E p \in Pollers, seq \in Nat : Ask(p, seq)
    \/ \E p \in DOMAIN polls : ReadClock(p) \/ WriteClock(p) \/ PollFails(p) \/ Read(p)
    \/ \E c \in Controls : WriteControl(c)

LEMMA RoomWriters ==
    ASSUME LoadTypes, [Next]_vars
    PROVE  \/ now < MaxTime /\ now' = now + 1 /\ UNCHANGED roomVars
           \/ UNCHANGED now /\ (RoomStep \/ UNCHANGED roomVars)
<1> USE DEF LoadTypes, RoomTypeOK
<1>1. CASE Tick
  BY <1>1 DEF Tick
<1>2. CASE ScriptStep
  <2>1. CASE PrepareReset
    BY <2>1 DEF PrepareReset, Quiet, RoomStep
  <2>2. CASE PrepareControl
    BY <2>2 DEF PrepareControl, Quiet, RoomStep
  <2>3. CASE UsersEnd
    BY <2>3 DEF UsersEnd, Quiet
  <2>4. CASE Drain
    <3>1. Watcher \in Pollers /\ (Over(Watcher) => Watcher \in DOMAIN polls)
      BY DEF Pollers, Over, At
    <3> QED BY <2>4, <3>1 DEF Drain, Quiet, RoomStep
  <2>5. CASE Restore
    BY <2>5 DEF Restore, Quiet, RoomStep
  <2> QED BY <1>2, <2>1, <2>2, <2>3, <2>4, <2>5 DEF ScriptStep
<1>3. CASE Interrupt
  <2>1. edit[Script] \in Controls
    OBVIOUS
  <2> QED BY <1>3, <2>1 DEF Interrupt, LastRequest, RoomStep
<1>4. CASE Order
  BY <1>4 DEF Order, RoomStep
<1>5. CASE Expires
  BY <1>5 DEF Expires, RoomStep
<1>6. CASE Monitor
  BY <1>6 DEF Monitor, RoomStep
<1>7. ASSUME NEW p \in DOMAIN polls, Gate(p) \/ GateFails(p)
      PROVE  UNCHANGED now /\ RoomStep
  BY <1>7 DEF Gate, GateFails, RoomStep
<1>8. ASSUME NEW h \in DOMAIN call, Serve(h) \/ ServeFails(h) \/ PodDies(h)
      PROVE  UNCHANGED now /\ (RoomStep \/ UNCHANGED roomVars)
  <2>1. h \in Pollers /\ Client(h) \in Clients /\ (Over(h) => h \in DOMAIN polls)
    BY DEF Pollers, Calls, Client, Over, At
  <2>2. ref[Client(h)] \in Nat
    BY <2>1
  <2>3. UNCHANGED now
    BY <1>8 DEF Serve, ServeFails, PodDies
  <2>4. CASE CheckPermit(h) \/ CheckAgain(h)
    BY <2>1, <2>2, <2>3, <2>4 DEF CheckPermit, CheckAgain, RoomStep
  <2>5. CASE Hold(h) \/ Send(h) \/ Release(h) \/ RedisFails(h) \/ CallDies(h)
    BY <2>3, <2>5 DEF Hold, Send, Release, RedisFails, CallDies
  <2> QED BY <1>8, <2>4, <2>5 DEF Serve, ServeFails, PodDies
<1>9. ASSUME NEW c \in Clients, Burst(c) \/ Phase(c) \/ Buy(c)
      PROVE  UNCHANGED now /\ (RoomStep \/ UNCHANGED roomVars)
  <2>1. c \in Pollers /\ ref[c] \in Nat /\ (Over(c) => c \in DOMAIN polls)
    BY DEF Pollers, Over, At
  <2>2. CASE Burst(c)
    BY <2>1, <2>2 DEF Burst, Rest, Start, Enter, Poll, Told, GiveUp, Commit, Answered,
                      EnterAgain, NoAnswer, RoomStep
  <2>3. CASE Phase(c)
    BY <2>1, <2>3 DEF Phase, Rest, PhasedStart, PhasedEnter, SecondPhase, Poll, Told, GiveUp,
                      PhasedCommit, PhasedAnswered, NoAnswer, RoomStep
  <2>4. CASE Buy(c)
    BY <2>1, <2>4 DEF Buy, TicketStart, TicketEnter, TicketTold, TakeTicket, AllocSeat,
                      TicketAnswered, Renewed, TicketNoAnswer, Poll, GiveUp, RoomStep
  <2> QED BY <1>9, <2>2, <2>3, <2>4
<1>10. ASSUME NEW s \in Seats, HoldExpires(s)
       PROVE  UNCHANGED now /\ UNCHANGED roomVars
  BY <1>10 DEF HoldExpires, KeyExpires
<1>11. CASE UNCHANGED vars
  BY <1>11 DEF vars
<1> QED BY <1>1, <1>2, <1>3, <1>4, <1>5, <1>6, <1>7, <1>8, <1>9, <1>10, <1>11 DEF Next

-----------------------------------------------------------------------------
(* Types                                                                   *)

GateType == [opened : 0..now, last : Nat, rates : SUBSET Nat, raced : BOOLEAN,
             overtaken : BOOLEAN]

LEMMA RatesAreNat ==
    ASSUME RoomTypeOK, NEW rps \in RpsSamples
    PROVE  RateNow(rps) \in Nat
<1> USE RoomAssumption DEF RoomTypeOK, Controls
<1>1. ASSUME NEW r \in Nat PROVE Clamp(r) \in Nat
  BY <1>1 DEF Clamp
<1>2. Backlog(enq, done) \in Nat
  BY DEF Backlog
<1> DEFINE drained == IF Backlog(enq, done) > 0 THEN Backlog(enq, done) \div AutoDrain
                      ELSE AutoMax
<1>3. drained \in Nat
  BY <1>2, DivFloor
<1>4. drained \div 2 \in Nat
  <2> HIDE DEF drained
  <2> QED BY <1>3, DivFloor
<1>5. AutoRate(rps) \in Nat
  BY <1>1, <1>3, <1>4 DEF AutoRate
<1> QED BY <1>5 DEF RateNow

LEMMA AnsweredPoll ==
    ASSUME NEW t \in Nat, NEW q \in PollsBy(t), NEW step \in PollSteps, NEW d \in Nat
    PROVE  [q EXCEPT !.step = step, !.clock = 0, !.done = d] \in PollsBy(t)
<1>1. ASSUME NEW r \in PollsBy(t) PROVE [r EXCEPT !.step = step] \in PollsBy(t)
  BY DEF PollsBy
<1>2. ASSUME NEW r \in PollsBy(t) PROVE [r EXCEPT !.clock = 0] \in PollsBy(t)
  BY DEF PollsBy
<1>3. ASSUME NEW r \in PollsBy(t) PROVE [r EXCEPT !.done = d] \in PollsBy(t)
  BY DEF PollsBy
<1> QED BY <1>1, <1>2, <1>3

LEMMA AnswerTypes ==
    ASSUME RoomTypeOK, NEW p \in DOMAIN polls, NEW d \in Nat, NEW g \in GateType,
           Answer(p, polls[p], d, g)
    PROVE  /\ DOMAIN polls' = DOMAIN polls /\ polls' \in [DOMAIN polls -> PollsBy(now)]
           /\ permits' \subseteq Pollers
           /\ gate' \in GateType
<1> DEFINE q == polls[p]
<1> USE DEF RoomTypeOK
<1>1. q \in PollsBy(now)
  OBVIOUS
<1>2. \A step \in PollSteps : [q EXCEPT !.step = step, !.clock = 0, !.done = d] \in PollsBy(now)
  <2>1. now \in Nat
    BY RoomAssumption
  <2> QED BY <1>1, <2>1, AnsweredPoll
<1>3. {"admitted", "waiting"} \subseteq PollSteps
  BY DEF PollSteps
<1>4. DOMAIN polls' = DOMAIN polls /\ polls' \in [DOMAIN polls -> PollsBy(now)]
  BY <1>2, <1>3 DEF Answer
<1>5. permits' \subseteq Pollers
  BY DEF Answer
<1>6. gate' \in GateType
  <2>1. q.seq \in Nat
    BY <1>1 DEF PollsBy
  <2> QED BY <2>1 DEF Answer, GateType
<1> QED BY <1>4, <1>5, <1>6

LEMMA RoomStepTypes ==
    ASSUME RoomTypeOK, RoomStep, UNCHANGED now
    PROVE  RoomTypeOK'
<1> USE RoomAssumption, LoadAssumption DEF RoomTypeOK
<1>1. CASE ResetRoom
  BY <1>1 DEF ResetRoom, DefaultControl, Controls, Modes, NewGate
<1>2. ASSUME NEW c \in Clients, NewRef(c) \/ LostRef(c) \/ RefExpires(c)
      PROVE  RoomTypeOK'
  BY <1>2 DEF NewRef, LostRef, RefExpires
<1>3. ASSUME NEW p \in permits, PermitExpires(p) PROVE RoomTypeOK'
  BY <1>3 DEF PermitExpires
<1>4. ASSUME NEW r \in ObservedRates \cup {0}, Observe(r) PROVE RoomTypeOK'
  BY <1>4 DEF Observe
<1>5. ASSUME NEW p \in Pollers, NEW seq \in Nat, Ask(p, seq) PROVE RoomTypeOK'
  <2>1. PICK rps \in RpsSamples :
          /\ polls' = [x \in DOMAIN polls \cup {p} |-> IF x # p THEN polls[x] ELSE
                [step |-> "asked", seq |-> seq, rate |-> RateNow(rps), now |-> now,
                 enq |-> enq, clock |-> 0, done |-> 0, before |-> gate.last]]
          /\ gate' = [gate EXCEPT !.rates = @ \cup {RateNow(rps)}]
    BY <1>5 DEF Ask
  <2>2. RateNow(rps) \in Nat
    BY RatesAreNat
  <2>3. [step |-> "asked", seq |-> seq, rate |-> RateNow(rps), now |-> now,
         enq |-> enq, clock |-> 0, done |-> 0, before |-> gate.last] \in PollsBy(now)
    BY <2>2 DEF PollsBy, PollSteps
  <2>4. DOMAIN polls' \subseteq Pollers /\ polls' \in [DOMAIN polls' -> PollsBy(now)]
    BY <2>1, <2>3
  <2>5. gate' \in GateType
    BY <2>1, <2>2 DEF GateType
  <2> QED BY <1>5, <2>4, <2>5 DEF Ask, GateType
<1>6. ASSUME NEW p \in DOMAIN polls, ReadClock(p) PROVE RoomTypeOK'
  <2> DEFINE q == polls[p]
             seconds == IF q.now > clock THEN (q.now - clock) \div Second ELSE 0
  <2>1. q \in PollsBy(now) /\ gate \in GateType
    BY DEF GateType
  <2>2. seconds \in Nat /\ (seconds > 0 => clock + seconds * Second \in 0..now)
    <3>1. CASE q.now > clock
      <4>1. q.now - clock \in Nat /\ q.now \in 1..now
        BY <2>1, <3>1 DEF PollsBy
      <4>2. seconds \in Nat /\ seconds * Second <= q.now - clock
        BY <3>1, <4>1, DivFloor
      <4>3. seconds * Second \in Nat
        BY <4>2
      <4> QED BY <4>1, <4>2, <4>3
    <3> QED BY <3>1, <2>1 DEF PollsBy
  <2>3. CASE Answer(p, q, done, gate)
    BY <1>6, <2>1, <2>3, AnswerTypes DEF ReadClock, GateType
  <2>4. CASE polls' = [polls EXCEPT ![p].step = "open", ![p].done = done]
    <3>1. [q EXCEPT !.step = "open", !.done = done] \in PollsBy(now)
      BY <2>1 DEF PollsBy, PollSteps
    <3>2. DOMAIN polls' = DOMAIN polls /\ polls' \in [DOMAIN polls -> PollsBy(now)]
      BY <2>4, <3>1
    <3> QED BY <1>6, <2>4, <3>2, <2>1, AnswerTypes DEF ReadClock, GateType
  <2>5. CASE /\ polls' = [polls EXCEPT ![p].step = "advance",
                                       ![p].clock = clock + seconds * Second,
                                       ![p].done = done + seconds * q.rate]
             /\ seconds > 0
    <3>1. q.rate \in Nat
      BY <2>1 DEF PollsBy
    <3>2. done + seconds * q.rate \in Nat
      BY <2>2, <3>1
    <3>3. [q EXCEPT !.step = "advance", !.clock = clock + seconds * Second,
                    !.done = done + seconds * q.rate] \in PollsBy(now)
      BY <2>1, <2>2, <2>5, <3>2 DEF PollsBy, PollSteps
    <3>4. DOMAIN polls' = DOMAIN polls /\ polls' \in [DOMAIN polls -> PollsBy(now)]
      BY <2>5, <3>3
    <3> QED BY <1>6, <3>4, <2>1, AnswerTypes DEF ReadClock, GateType
  <2> QED BY <1>6, <2>3, <2>4, <2>5 DEF ReadClock
<1>7. ASSUME NEW p \in DOMAIN polls, WriteClock(p) PROVE RoomTypeOK'
  <2> DEFINE q == polls[p]
             opening == [gate EXCEPT !.opened = IF @ = 0 THEN q.now ELSE @,
                                     !.raced = @ \/ clock # 0]
  <2>1. q \in PollsBy(now) /\ q.now \in 0..now /\ q.clock \in 0..now /\ q.done \in Nat
    BY DEF PollsBy
  <2>2. gate \in GateType /\ opening \in GateType
    BY <2>1 DEF GateType
  <2>3. /\ DOMAIN polls' = DOMAIN polls /\ polls' \in [DOMAIN polls -> PollsBy(now)]
        /\ permits' \subseteq Pollers
        /\ gate' \in GateType
    BY <1>7, <2>1, <2>2, AnswerTypes DEF WriteClock
  <2>4. clock' \in 0..now /\ done' \in Nat
    BY <1>7, <2>1 DEF WriteClock
  <2> QED BY <1>7, <2>3, <2>4 DEF WriteClock, GateType
<1>8. ASSUME NEW p \in DOMAIN polls, PollFails(p) \/ Read(p) PROVE RoomTypeOK'
  <2>1. CASE PollFails(p)
    <3>1. [polls[p] EXCEPT !.step = "failed"] \in PollsBy(now)
      BY DEF PollsBy, PollSteps
    <3> QED BY <2>1, <3>1 DEF PollFails
  <2>2. CASE Read(p)
    BY <2>2 DEF Read
  <2> QED BY <1>8, <2>1, <2>2
<1>9. ASSUME NEW c \in Controls, WriteControl(c) PROVE RoomTypeOK'
  BY <1>9 DEF WriteControl
<1> QED BY <1>1, <1>2, <1>3, <1>4, <1>5, <1>6, <1>7, <1>8, <1>9 DEF RoomStep

LEMMA InitTypes == Init => LoadTypes
<1> SUFFICES ASSUME Init PROVE LoadTypes
  OBVIOUS
<1>1. /\ now \in 1..MaxTime /\ enq \in Nat /\ control \in Controls /\ observed = 0
      /\ ref \in [Clients -> 0..enq] /\ permits = {} /\ polls = [p \in {} |-> 0]
  BY Zenon DEF Init, RoomInit
<1>2. now \in Nat /\ control.rate \in Nat
  BY <1>1, RoomAssumption DEF Controls
<1>3. /\ clock \in 0..now /\ done \in Nat
      /\ gate \in [opened : 0..now, last : Nat, rates : SUBSET Nat, raced : BOOLEAN,
                   overtaken : BOOLEAN]
  <2>1. CASE clock = 0 /\ done = 0 /\ gate = NewGate(FALSE)
    BY <2>1, <1>2 DEF NewGate
  <2>2. CASE \E o \in 1..now :
              /\ done \in Nat /\ clock = o + done * Second /\ clock <= now
              /\ gate = [NewGate(FALSE) EXCEPT !.opened = o, !.rates = {control.rate}]
    <3>1. PICK o \in 1..now :
              /\ done \in Nat /\ clock = o + done * Second /\ clock <= now
              /\ gate = [NewGate(FALSE) EXCEPT !.opened = o, !.rates = {control.rate}]
      BY <2>2
    <3>2. done * Second \in Nat
      BY <3>1, RoomAssumption
    <3>3. clock \in 0..now
      BY <3>1, <3>2, <1>2
    <3>4. gate = [opened |-> o, last |-> 0, rates |-> {control.rate}, raced |-> FALSE,
                  overtaken |-> FALSE]
      BY <3>1 DEF NewGate
    <3>5. gate \in [opened : 0..now, last : Nat, rates : SUBSET Nat, raced : BOOLEAN,
                    overtaken : BOOLEAN]
      BY <3>4, <1>2
    <3>6. done \in Nat
      BY <3>1
    <3> QED BY <3>3, <3>5, <3>6
  <2> QED BY Zenon, <2>1, <2>2 DEF Init, RoomInit
<1>4. ref \in [Clients -> Nat] /\ observed \in Nat /\ permits \subseteq Pollers
  BY <1>1
<1>5. DOMAIN polls = {} /\ polls \in [DOMAIN polls -> PollsBy(now)]
  BY <1>1
<1>6. DOMAIN call = {}
  <2>1. call = [h \in {} |-> 0]
    BY Zenon DEF Init, DeskInit
  <2> QED BY <2>1
<1>7. edit \in [{Script, Operator} -> Controls]
  <2>1. edit = [w \in {Script, Operator} |-> DefaultControl]
    BY Zenon DEF Init, NoEdit
  <2>2. DefaultControl \in Controls
    BY RoomAssumption DEF DefaultControl, Controls, Modes
  <2> QED BY <2>1, <2>2
<1> QED BY <1>1, <1>3, <1>4, <1>5, <1>6, <1>7 DEF LoadTypes, RoomTypeOK

\* The commits sent are those of clients.
LEMMA CallTypes ==
    ASSUME LoadTypes, [Next]_vars
    PROVE  (DOMAIN call \subseteq Calls)'
<1> USE DEF LoadTypes
<1>1. ASSUME NEW h \in Calls, NEW seat, NEW withRef, Post(h, seat, withRef)
      PROVE  DOMAIN call' \subseteq Calls
  BY <1>1 DEF Post
<1>2. ASSUME NEW h, NEW step, To(h, step)
      PROVE  DOMAIN call' \subseteq Calls
  BY <1>2 DEF To
<1>3. CASE UNCHANGED call
  BY <1>3
<1>4. ASSUME NEW h, NEW seat, NEW withRef, Post(h, seat, withRef) PROVE h \in Calls
  BY <1>4 DEF Post
<1>5. ASSUME NEW h \in DOMAIN call, Serve(h) \/ ServeFails(h) \/ PodDies(h)
      PROVE  (DOMAIN call \subseteq Calls)'
  BY <1>5, <1>2 DEF Serve, ServeFails, PodDies, CheckPermit, CheckAgain, Hold, Send, Release,
                    RedisFails, CallDies
<1>6. ASSUME NEW c \in Clients, Burst(c) \/ Phase(c) \/ Buy(c)
      PROVE  (DOMAIN call \subseteq Calls)'
  <2>1. CASE Burst(c)
    BY <2>1, <1>1, <1>3, <1>4 DEF Burst, Rest, Start, Enter, Poll, Told, GiveUp, Commit, Answered,
                      EnterAgain, NoAnswer
  <2>2. CASE Phase(c)
    BY <2>2, <1>1, <1>3, <1>4 DEF Phase, Rest, PhasedStart, PhasedEnter, SecondPhase, Poll, Told,
                      GiveUp, PhasedCommit, PhasedAnswered, NoAnswer
  <2>3. CASE Buy(c)
    BY <2>3, <1>1, <1>3, <1>4 DEF Buy, TicketStart, TicketEnter, TicketTold, TakeTicket, AllocSeat,
                      TicketAnswered, Renewed, TicketNoAnswer, Resend, Poll, GiveUp
  <2> QED BY <1>6, <2>1, <2>2, <2>3
<1>7. ASSUME NEW p \in DOMAIN polls, Gate(p) \/ GateFails(p) PROVE UNCHANGED call
  BY <1>7 DEF Gate, GateFails
<1>8. CASE Tick \/ ScriptStep \/ Interrupt \/ Order \/ Expires \/ Monitor \/ UNCHANGED vars
  BY <1>8, <1>3 DEF Tick, ScriptStep, PrepareReset, PrepareControl, UsersEnd, Drain, Restore, Quiet,
     Interrupt, Order, Expires, Monitor, vars
<1>9. ASSUME NEW s \in Seats, HoldExpires(s) PROVE UNCHANGED call
  BY <1>9 DEF HoldExpires, KeyExpires
<1> QED BY <1>3, <1>5, <1>6, <1>7, <1>8, <1>9 DEF Next

\* A control about to be written has a mode and a rate above zero.
LEMMA EditTypes ==
    ASSUME LoadTypes, [Next]_vars
    PROVE  (edit \in [{Script, Operator} -> Controls])'
<1> USE DEF LoadTypes
<1>1. ASSUME NEW w \in {Script, Operator}, NEW mode \in Modes, NEW enabled \in BOOLEAN,
             NEW rate \in Nat \ {0}, Edit(w, mode, enabled, rate)
      PROVE  (edit \in [{Script, Operator} -> Controls])'
  BY <1>1 DEF Edit, Controls
<1>2. control.mode \in Modes /\ control.rate \in Nat \ {0} /\ "MANUAL" \in Modes /\ "AUTO" \in Modes
  BY DEF RoomTypeOK, Controls, Modes
<1>3. CASE PrepareControl \/ Drain \/ Restore
  BY <1>1, <1>2, <1>3, LoadAssumption DEF PrepareControl, Drain, Restore
<1>4. CASE Order
  <2>1. ASSUME NEW r \in OperatorRates,
               Edit(Operator, IF r = 0 THEN control.mode ELSE "MANUAL", r # 0,
                    IF r = 0 THEN control.rate ELSE r)
        PROVE  (edit \in [{Script, Operator} -> Controls])'
    <3>1. r \in Nat
      BY LoadAssumption
    <3>2. /\ (IF r = 0 THEN control.mode ELSE "MANUAL") \in Modes
          /\ (IF r = 0 THEN control.rate ELSE r) \in Nat \ {0}
          /\ (r # 0) \in BOOLEAN
      BY <1>2, <3>1
    <3> QED BY <2>1, <3>2, <1>1
  <2> QED BY <1>4, <2>1 DEF Order
<1>5. CASE UNCHANGED edit
  BY <1>5
<1>6. CASE PrepareReset \/ UsersEnd \/ Tick \/ Interrupt \/ Expires \/ Monitor \/ UNCHANGED vars
  BY <1>6, <1>5 DEF PrepareReset, UsersEnd, Tick, Interrupt, Expires, Monitor, Quiet, vars
<1>7. ASSUME NEW p \in DOMAIN polls, Gate(p) \/ GateFails(p) PROVE UNCHANGED edit
  BY <1>7 DEF Gate, GateFails
<1>8. ASSUME NEW h \in DOMAIN call, Serve(h) \/ ServeFails(h) \/ PodDies(h)
      PROVE  UNCHANGED edit
  BY <1>8 DEF Serve, ServeFails, PodDies
<1>9. ASSUME NEW c \in Clients, Burst(c) \/ Phase(c) \/ Buy(c) PROVE UNCHANGED edit
  BY <1>9 DEF Burst, Phase, Buy, Rest
<1>10. ASSUME NEW s \in Seats, HoldExpires(s) PROVE UNCHANGED edit
  BY <1>10 DEF HoldExpires
<1> QED BY <1>3, <1>4, <1>5, <1>6, <1>7, <1>8, <1>9, <1>10 DEF Next, ScriptStep

LEMMA TypesStep ==
    ASSUME LoadTypes, [Next]_vars
    PROVE  LoadTypes'
<1>1. RoomTypeOK'
  <2>1. CASE now < MaxTime /\ now' = now + 1 /\ UNCHANGED roomVars
    <3>1. now' \in 1..MaxTime /\ 0..now \subseteq 0..now' /\ 1..now \subseteq 1..now'
      BY <2>1, RoomAssumption DEF LoadTypes, RoomTypeOK
    <3>2. PollsBy(now) \subseteq PollsBy(now')
      BY <3>1 DEF PollsBy
    <3>3. gate' \in [opened : 0..now', last : Nat, rates : SUBSET Nat, raced : BOOLEAN,
                     overtaken : BOOLEAN]
      BY <2>1, <3>1 DEF LoadTypes, RoomTypeOK
    <3> QED BY <2>1, <3>1, <3>2, <3>3 DEF LoadTypes, RoomTypeOK
  <2>2. CASE UNCHANGED now /\ RoomStep
    BY <2>2, RoomStepTypes DEF LoadTypes
  <2>3. CASE UNCHANGED now /\ UNCHANGED roomVars
    BY <2>3 DEF LoadTypes, RoomTypeOK
  <2> QED BY <2>1, <2>2, <2>3, RoomWriters
<1> QED BY <1>1, CallTypes, EditTypes DEF LoadTypes

-----------------------------------------------------------------------------
(* The pace of the gate                                                    *)

HasTop(S) == S \subseteq Nat /\ \E m \in S \cup {0} : \A r \in S : r <= m

LEMMA LargestIsTop ==
    ASSUME NEW S, HasTop(S)
    PROVE  Largest(S) \in S \cup {0} /\ Largest(S) \in Nat /\ \A r \in S : r <= Largest(S)
<1>1. \E x \in S \cup {0} : \A y \in S : y <= x
  BY DEF HasTop
<1>2. Largest(S) \in S \cup {0} /\ \A y \in S : y <= Largest(S)
  BY <1>1 DEF Largest
<1>3. S \subseteq Nat
  BY DEF HasTop
<1>4. Largest(S) \in Nat
  <2>1. \A x \in S \cup {0} : x \in Nat
    BY <1>3
  <2>2. Largest(S) \in S \cup {0}
    BY <1>2
  <2> QED BY ONLY <2>1, <2>2, Zenon
<1> QED BY <1>2, <1>4

LEMMA LargestGrows ==
    ASSUME NEW S, HasTop(S), NEW r \in Nat
    PROVE  HasTop(S \cup {r}) /\ Largest(S) <= Largest(S \cup {r})
<1>1. Largest(S) \in S \cup {0} /\ Largest(S) \in Nat /\ \A x \in S : x <= Largest(S)
  BY LargestIsTop
<1>2. HasTop(S \cup {r})
  <2>1. CASE r <= Largest(S)
    BY <1>1, <2>1 DEF HasTop
  <2>2. CASE Largest(S) < r
    <3>1. \A x \in S \cup {r} : x <= r
      BY <1>1, <2>2 DEF HasTop
    <3> QED BY <3>1 DEF HasTop
  <2> QED BY <1>1, <2>1, <2>2
<1>3. Largest(S \cup {r}) \in Nat /\ \A x \in S \cup {r} : x <= Largest(S \cup {r})
  BY <1>2, LargestIsTop
<1> QED BY <1>1, <1>2, <1>3

\* A clock and a counter that agree: so many whole seconds since the gate opened,
\* each worth no more than the fastest rate.
Paced(g, c, d) == \E k \in Nat : c = g.opened + k * Second /\ d <= Largest(g.rates) * k

\* The last place that may be let in at time t.
Bound(g, t) == 1 + (IF g.opened = 0 THEN 0
                    ELSE Largest(g.rates) * ((t - g.opened) \div Second))

PollPaced(g, q) ==
    /\ q.step \in {"asked", "open", "advance"} => q.rate \in g.rates
    /\ q.step = "open" => q.done = 0
    /\ q.step = "advance" => g.opened # 0 /\ Paced(g, q.clock, q.done)

ClockPaced(g, c, d) ==
    /\ c = 0 => g.opened = 0 /\ d = 0
    /\ c # 0 => g.opened # 0 /\ Paced(g, c, d)

PaceInv ==
    /\ HasTop(gate.rates)
    /\ ~gate.raced =>
         /\ ClockPaced(gate, clock, done)
         /\ \A p \in DOMAIN polls : PollPaced(gate, polls[p])
         /\ gate.last <= Bound(gate, now)

\* What the counter lets in is within the bound of any time after its clock.
LEMMA PacedBound ==
    ASSUME NEW g, g.opened \in Nat \ {0}, HasTop(g.rates), NEW t \in Nat, NEW c \in Nat, c <= t,
           NEW d \in Nat, Paced(g, c, d)
    PROVE  d + 1 <= Bound(g, t) /\ Bound(g, t) \in Nat
<1> DEFINE L == Largest(g.rates)
           s == (t - g.opened) \div Second
<1>1. PICK k \in Nat : c = g.opened + k * Second /\ d <= L * k
  BY DEF Paced
<1>2. L \in Nat
  BY LargestIsTop
<1>3. k * Second \in Nat /\ t - g.opened \in Nat /\ k * Second <= t - g.opened
  BY <1>1, RoomAssumption
<1>4. s \in Nat /\ k <= s
  BY <1>3, RoomAssumption, DivFloor, DivAtLeast
<1> HIDE DEF L, s
<1>5. L * k <= L * s /\ L * s \in Nat /\ L * k \in Nat
  BY <1>2, <1>4, TimesMono
<1>6. Bound(g, t) = 1 + L * s
  BY DEF Bound, L, s
<1>7. d <= L * k
  BY <1>1
<1> QED BY <1>5, <1>6, <1>7

\* The bound grows with time and with the rates.
LEMMA BoundGrows ==
    ASSUME NEW g, NEW h, g.opened \in Nat, h.opened = g.opened,
           HasTop(g.rates), HasTop(h.rates), Largest(g.rates) <= Largest(h.rates),
           NEW t \in Nat, NEW u \in Nat, g.opened <= t, t <= u
    PROVE  Bound(g, t) \in Nat /\ Bound(h, u) \in Nat /\ Bound(g, t) <= Bound(h, u)
<1>1. CASE g.opened = 0
  BY <1>1 DEF Bound
<1>2. CASE g.opened # 0
  <2> DEFINE s == (t - g.opened) \div Second
             v == (u - g.opened) \div Second
             L == Largest(g.rates)
             M == Largest(h.rates)
  <2>1. L \in Nat /\ M \in Nat
    BY LargestIsTop
  <2>2. t - g.opened \in Nat /\ u - g.opened \in Nat /\ t - g.opened <= u - g.opened
    OBVIOUS
  <2>3. s \in Nat /\ v \in Nat /\ s * Second <= t - g.opened
    BY <2>2, RoomAssumption, DivFloor
  <2>4. s * Second \in Nat /\ s * Second <= u - g.opened
    BY <2>2, <2>3, RoomAssumption
  <2>5. s <= v
    BY <2>2, <2>3, <2>4, RoomAssumption, DivAtLeast
  <2>6. L * s \in Nat /\ L * s <= M * s /\ M * s <= M * v /\ M * v \in Nat /\ M * s \in Nat
    BY <2>1, <2>3, <2>5, TimesMono
  <2>7. L * s <= M * v
    BY <2>6
  <2> QED BY <1>2, <2>6, <2>7 DEF Bound
<1> QED BY <1>1, <1>2

LEMMA PacedGrows ==
    ASSUME NEW g, NEW h, h.opened = g.opened,
           HasTop(g.rates), HasTop(h.rates), Largest(g.rates) <= Largest(h.rates),
           NEW c \in Nat, NEW d \in Nat, Paced(g, c, d)
    PROVE  Paced(h, c, d)
<1>1. PICK k \in Nat : c = g.opened + k * Second /\ d <= Largest(g.rates) * k
  BY DEF Paced
<1>2. Largest(g.rates) \in Nat /\ Largest(h.rates) \in Nat
  BY LargestIsTop
<1>3. /\ Largest(g.rates) * k \in Nat /\ Largest(h.rates) * k \in Nat
      /\ Largest(g.rates) * k <= Largest(h.rates) * k
  BY <1>2, TimesMono
<1>4. d <= Largest(h.rates) * k
  BY <1>1, <1>3
<1> QED BY <1>1, <1>4 DEF Paced

\* An answer for a counter within the bound keeps the pace.
LEMMA AnswerPaced ==
    ASSUME RoomTypeOK, NEW p \in DOMAIN polls, NEW d \in Nat, NEW g \in GateType,
           Answer(p, polls[p], d, g), HasTop(g.rates), ~g.raced,
           Bound(g, now) \in Nat, d + 1 <= Bound(g, now), g.last <= Bound(g, now),
           \A x \in DOMAIN polls \ {p} : PollPaced(g, polls[x])
    PROVE  /\ gate'.opened = g.opened /\ gate'.rates = g.rates /\ ~gate'.raced
           /\ \A x \in DOMAIN polls' : PollPaced(gate', polls'[x])
           /\ gate'.last <= Bound(gate', now)
<1> DEFINE q == polls[p]
<1>1. q \in PollsBy(now)
  BY DEF RoomTypeOK
<1>2. q.seq \in Nat
  BY <1>1 DEF PollsBy
<1>3. /\ gate'.opened = g.opened /\ gate'.rates = g.rates /\ gate'.raced = g.raced
      /\ gate'.last = g.last \/ (gate'.last = q.seq /\ q.seq <= d + 1)
  <2>1. CASE q.seq > 0 /\ q.seq <= d + 1
    <3>1. gate' = [g EXCEPT !.last = IF q.seq > @ THEN q.seq ELSE @]
      BY <2>1 DEF Answer
    <3> QED BY <2>1, <3>1 DEF GateType
  <2>2. CASE ~(q.seq > 0 /\ q.seq <= d + 1)
    <3>1. PICK b : gate' = [g EXCEPT !.overtaken = b]
      BY <2>2 DEF Answer
    <3> QED BY <3>1 DEF GateType
  <2> QED BY <2>1, <2>2
<1>4. Bound(gate', now) = Bound(g, now) /\ \A c, e : Paced(g, c, e) => Paced(gate', c, e)
  BY <1>3 DEF Bound, Paced
<1>5. gate'.last <= Bound(gate', now)
  <2>1. g.last \in Nat
    BY DEF GateType
  <2> QED BY <1>2, <1>3, <1>4, <2>1
<1>6. ASSUME NEW x \in DOMAIN polls' PROVE PollPaced(gate', polls'[x])
  <2>1. x \in DOMAIN polls
    BY <1>6 DEF Answer
  <2>2. CASE x = p
    <3>1. polls'[p].step \in {"admitted", "waiting"}
      <4>1. DOMAIN q = {"step", "seq", "rate", "now", "enq", "clock", "done", "before"}
        BY <1>1 DEF PollsBy
      <4> QED BY <4>1 DEF Answer
    <3> QED BY <2>2, <3>1 DEF PollPaced
  <2>3. CASE x # p
    <3>1. polls'[x] = polls[x]
      BY <2>1, <2>3 DEF Answer
    <3>2. PollPaced(g, polls[x])
      BY <2>1, <2>3
    <3> QED BY <1>3, <1>4, <3>1, <3>2 DEF PollPaced
  <2> QED BY <2>2, <2>3
<1> QED BY <1>3, <1>5, <1>6

LEMMA ReadClockPaced ==
    ASSUME RoomTypeOK, PaceInv, NEW p \in DOMAIN polls, ReadClock(p), UNCHANGED now
    PROVE  PaceInv'
<1> DEFINE q == polls[p]
           seconds == IF q.now > clock THEN (q.now - clock) \div Second ELSE 0
<1>1. /\ q \in PollsBy(now) /\ q.step = "asked" /\ q.rate \in Nat /\ q.now \in Nat /\ q.now <= now
      /\ gate \in GateType /\ now \in Nat /\ clock \in Nat /\ clock <= now /\ done \in Nat
      /\ gate.opened \in Nat /\ gate.last \in Nat /\ HasTop(gate.rates)
  BY RoomAssumption DEF RoomTypeOK, ReadClock, At, PollsBy, GateType, PaceInv
<1>2. CASE Answer(p, q, done, gate)
  <2>1. clock' = clock /\ done' = done /\ now' = now
    BY <1>1 DEF ReadClock
  <2>2. CASE gate.raced
    <3>1. gate'.rates = gate.rates /\ gate'.raced = gate.raced
      BY <1>2, <1>1 DEF Answer, GateType
    <3> QED BY <2>2, <3>1, <1>1 DEF PaceInv
  <2>3. CASE ~gate.raced
    <3>1. done + 1 <= Bound(gate, now) /\ Bound(gate, now) \in Nat
      <4>1. CASE clock = 0
        BY <2>3, <4>1 DEF PaceInv, ClockPaced, Bound
      <4>2. CASE clock # 0
        <5>1. gate.opened \in Nat \ {0} /\ Paced(gate, clock, done)
          BY <2>3, <4>2, <1>1 DEF PaceInv, ClockPaced
        <5> QED BY <5>1, <1>1, PacedBound
      <4> QED BY <4>1, <4>2
    <3>2. gate.last <= Bound(gate, now) /\ \A x \in DOMAIN polls : PollPaced(gate, polls[x])
      BY <2>3 DEF PaceInv
    <3>3. /\ gate'.opened = gate.opened /\ gate'.rates = gate.rates /\ ~gate'.raced
          /\ \A x \in DOMAIN polls' : PollPaced(gate', polls'[x])
          /\ gate'.last <= Bound(gate', now)
      BY <1>1, <1>2, <2>3, <3>1, <3>2, AnswerPaced
    <3>4. ClockPaced(gate, clock, done)
      BY <2>3 DEF PaceInv
    <3>5. ClockPaced(gate', clock', done')
      BY <2>1, <3>3, <3>4 DEF ClockPaced, Paced
    <3> QED BY <1>1, <2>1, <3>3, <3>5 DEF PaceInv
  <2> QED BY <2>2, <2>3
<1>3. CASE /\ q.rate # 0 /\ clock = 0
           /\ polls' = [polls EXCEPT ![p].step = "open", ![p].done = done]
           /\ UNCHANGED <<permits, gate>>
  <2>1. clock' = clock /\ done' = done /\ now' = now /\ gate' = gate /\ DOMAIN polls' = DOMAIN polls
    BY <1>3 DEF ReadClock
  <2>2. polls'[p] = [q EXCEPT !.step = "open", !.done = done]
    BY <1>3
  <2>3. polls'[p].step = "open" /\ polls'[p].done = done /\ polls'[p].rate = q.rate
    BY <1>1, <2>2 DEF PollsBy
  <2>4. \A x \in DOMAIN polls \ {p} : polls'[x] = polls[x]
    BY <1>3
  <2>5. ASSUME ~gate.raced, NEW x \in DOMAIN polls PROVE PollPaced(gate, polls'[x])
    <3>1. PollPaced(gate, polls[x]) /\ ClockPaced(gate, clock, done)
      BY <2>5 DEF PaceInv
    <3>2. done = 0
      BY <1>3, <3>1 DEF ClockPaced
    <3>3. CASE x = p
      BY <1>1, <2>3, <3>1, <3>2, <3>3 DEF PollPaced
    <3> QED BY <2>4, <3>1, <3>3
  <2> QED BY <2>1, <2>5 DEF PaceInv
<1>4. CASE /\ q.rate # 0 /\ clock # 0 /\ seconds > 0
           /\ polls' = [polls EXCEPT ![p].step = "advance",
                                     ![p].clock = clock + seconds * Second,
                                     ![p].done = done + seconds * q.rate]
           /\ UNCHANGED <<permits, gate>>
  <2>1. clock' = clock /\ done' = done /\ now' = now /\ gate' = gate /\ DOMAIN polls' = DOMAIN polls
    BY <1>4 DEF ReadClock
  <2>2. polls'[p] = [q EXCEPT !.step = "advance", !.clock = clock + seconds * Second,
                              !.done = done + seconds * q.rate]
    BY <1>4
  <2>3. /\ polls'[p].step = "advance" /\ polls'[p].done = done + seconds * q.rate
        /\ polls'[p].rate = q.rate /\ polls'[p].clock = clock + seconds * Second
    <3> HIDE DEF seconds
    <3> QED BY <1>1, <2>2 DEF PollsBy
  <2>4. \A x \in DOMAIN polls \ {p} : polls'[x] = polls[x]
    BY <1>4
  <2>5. seconds \in Nat
    BY <1>1, RoomAssumption, DivFloor
  <2>6. ASSUME ~gate.raced PROVE gate.opened # 0 /\ Paced(gate, clock + seconds * Second,
                                                           done + seconds * q.rate)
    <3> DEFINE L == Largest(gate.rates)
    <3>1. gate.opened # 0 /\ Paced(gate, clock, done) /\ q.rate \in gate.rates
      BY <1>1, <1>4, <2>6 DEF PaceInv, ClockPaced, PollPaced
    <3>2. PICK k \in Nat : clock = gate.opened + k * Second /\ done <= L * k
      BY <3>1 DEF Paced
    <3>3. L \in Nat /\ q.rate <= L
      BY <1>1, <3>1, LargestIsTop
    <3> HIDE DEF seconds, L
    <3>4. /\ (k + seconds) * Second = k * Second + seconds * Second
          /\ L * (k + seconds) = L * k + L * seconds
          /\ k + seconds \in Nat
      BY <2>5, <3>3, RoomAssumption, TimesPlus
    <3>5. seconds * q.rate <= L * seconds /\ seconds * q.rate \in Nat /\ L * seconds \in Nat
      <4>1. q.rate * seconds <= L * seconds /\ seconds * q.rate = q.rate * seconds
            /\ q.rate * seconds \in Nat /\ L * seconds \in Nat
        BY <1>1, <2>5, <3>3, TimesMono
      <4> QED BY <4>1
    <3>6. L * k \in Nat /\ k * Second \in Nat /\ seconds * Second \in Nat
      BY <2>5, <3>3, RoomAssumption
    <3>7. clock + seconds * Second = gate.opened + (k + seconds) * Second
      BY <1>1, <3>2, <3>4, <3>6
    <3>8. done + seconds * q.rate <= L * (k + seconds)
      BY <1>1, <3>2, <3>4, <3>5, <3>6
    <3> QED BY <3>1, <3>4, <3>7, <3>8 DEF Paced, L
  <2>7. ASSUME ~gate.raced, NEW x \in DOMAIN polls PROVE PollPaced(gate, polls'[x])
    <3>1. PollPaced(gate, polls[x])
      BY <2>7 DEF PaceInv
    <3>2. CASE x = p
      BY <1>1, <2>3, <2>6, <2>7, <3>1, <3>2 DEF PollPaced
    <3> QED BY <2>4, <3>1, <3>2
  <2> QED BY <2>1, <2>7 DEF PaceInv
<1> QED BY <1>2, <1>3, <1>4 DEF ReadClock

LEMMA WriteClockPaced ==
    ASSUME RoomTypeOK, PaceInv, NEW p \in DOMAIN polls, WriteClock(p), UNCHANGED now
    PROVE  PaceInv'
<1> DEFINE q == polls[p]
           opening == [gate EXCEPT !.opened = IF @ = 0 THEN q.now ELSE @,
                                   !.raced = @ \/ clock # 0]
<1>1. /\ q \in PollsBy(now) /\ q.now \in 1..now /\ q.clock \in 0..now /\ q.done \in Nat
      /\ gate \in GateType /\ now \in Nat /\ clock \in Nat /\ clock <= now /\ done \in Nat
      /\ gate.opened \in Nat /\ gate.last \in Nat /\ HasTop(gate.rates)
  BY RoomAssumption DEF RoomTypeOK, PollsBy, GateType, PaceInv
<1>2. CASE /\ q.step = "open" /\ clock' = q.now /\ UNCHANGED done
           /\ Answer(p, q, q.done, opening)
  <2>1. /\ opening \in GateType /\ opening.rates = gate.rates /\ opening.last = gate.last
        /\ opening.raced <=> gate.raced \/ clock # 0
        /\ opening.opened = IF gate.opened = 0 THEN q.now ELSE gate.opened
    <3>1. ASSUME NEW o \in 0..now, NEW b \in BOOLEAN
          PROVE  LET g == [gate EXCEPT !.opened = o, !.raced = b]
                 IN  /\ g \in GateType /\ g.rates = gate.rates /\ g.last = gate.last
                     /\ g.raced = b /\ g.opened = o
      BY <1>1 DEF GateType
    <3> DEFINE o == IF gate.opened = 0 THEN q.now ELSE gate.opened
               b == gate.raced \/ clock # 0
    <3>2. o \in 0..now
      BY <1>1 DEF GateType
    <3>3. b \in BOOLEAN
      OBVIOUS
    <3>4. opening = [gate EXCEPT !.opened = o, !.raced = b]
      BY Zenon
    <3>5. /\ opening \in GateType /\ opening.rates = gate.rates /\ opening.last = gate.last
          /\ opening.raced = b /\ opening.opened = o
      <4> HIDE DEF o, b, opening
      <4> QED BY <3>1, <3>2, <3>3, <3>4
    <3> QED BY <3>5, Zenon
  <2> HIDE DEF opening
  <2>2. CASE gate.raced \/ clock # 0
    <3>1. gate'.rates = gate.rates /\ gate'.raced
      BY <1>2, <2>1, <2>2 DEF Answer, GateType
    <3> QED BY <3>1, <1>1 DEF PaceInv
  <2>3. CASE ~gate.raced /\ clock = 0
    <3>1. gate.opened = 0 /\ q.done = 0 /\ done = 0 /\ gate.last <= 1
      BY <1>1, <1>2, <2>3 DEF PaceInv, ClockPaced, PollPaced, Bound
    <3>2. opening.opened = q.now /\ ~opening.raced
      BY <2>1, <2>3, <3>1
    <3>3. Paced(opening, q.now, 0)
      <4>1. Largest(gate.rates) \in Nat
        BY <1>1, LargestIsTop
      <4>2. q.now = opening.opened + 0 * Second /\ 0 <= Largest(opening.rates) * 0
        BY <1>1, <2>1, <3>2, <4>1, RoomAssumption
      <4> QED BY <4>2 DEF Paced
    <3>4. 0 + 1 <= Bound(opening, now) /\ Bound(opening, now) \in Nat
      BY <1>1, <2>1, <3>2, <3>3, PacedBound
    <3>5. ASSUME NEW x \in DOMAIN polls \ {p} PROVE PollPaced(opening, polls[x])
      <4>1. PollPaced(gate, polls[x])
        BY <2>3 DEF PaceInv
      <4> QED BY <2>1, <3>1, <4>1 DEF PollPaced
    <3>6. q.done + 1 <= Bound(opening, now) /\ opening.last <= Bound(opening, now)
      BY <1>1, <2>1, <3>1, <3>4
    <3>7. /\ gate'.opened = opening.opened /\ gate'.rates = opening.rates /\ ~gate'.raced
          /\ \A x \in DOMAIN polls' : PollPaced(gate', polls'[x])
          /\ gate'.last <= Bound(gate', now)
      BY <1>1, <1>2, <2>1, <3>2, <3>4, <3>5, <3>6, AnswerPaced
    <3>8. ClockPaced(gate', clock', done')
      BY <1>1, <1>2, <3>1, <3>2, <3>3, <3>7 DEF ClockPaced, Paced
    <3> QED BY <1>1, <2>1, <3>7, <3>8 DEF PaceInv
  <2> QED BY <2>2, <2>3
<1>3. CASE /\ q.step = "advance" /\ clock' = q.clock /\ done' = q.done
           /\ Answer(p, q, q.done, gate)
  <2>1. CASE gate.raced
    <3>1. gate'.rates = gate.rates /\ gate'.raced = gate.raced
      BY <1>3, <1>1 DEF Answer, GateType
    <3> QED BY <2>1, <3>1, <1>1 DEF PaceInv
  <2>2. CASE ~gate.raced
    <3>1. gate.opened \in Nat \ {0} /\ Paced(gate, q.clock, q.done)
      BY <1>1, <1>3, <2>2 DEF PaceInv, PollPaced
    <3>2. q.done + 1 <= Bound(gate, now) /\ Bound(gate, now) \in Nat
      BY <1>1, <3>1, PacedBound
    <3>3. gate.last <= Bound(gate, now) /\ \A x \in DOMAIN polls : PollPaced(gate, polls[x])
      BY <2>2 DEF PaceInv
    <3>4. /\ gate'.opened = gate.opened /\ gate'.rates = gate.rates /\ ~gate'.raced
          /\ \A x \in DOMAIN polls' : PollPaced(gate', polls'[x])
          /\ gate'.last <= Bound(gate', now)
      BY <1>1, <1>3, <2>2, <3>2, <3>3, AnswerPaced
    <3>5. q.clock # 0
      <4>1. PICK k \in Nat : q.clock = gate.opened + k * Second
        BY <3>1 DEF Paced
      <4>2. k * Second \in Nat
        BY RoomAssumption
      <4> QED BY <1>1, <3>1, <4>1, <4>2
    <3>6. ClockPaced(gate', clock', done')
      BY <1>3, <3>1, <3>4, <3>5 DEF ClockPaced, Paced
    <3> QED BY <1>1, <3>4, <3>6 DEF PaceInv
  <2> QED BY <2>1, <2>2
<1> QED BY <1>2, <1>3 DEF WriteClock, At

LEMMA AskPaced ==
    ASSUME RoomTypeOK, PaceInv, NEW p, NEW seq \in Nat, Ask(p, seq), UNCHANGED now
    PROVE  PaceInv'
<1>1. PICK rps \in RpsSamples :
        /\ polls' = [x \in DOMAIN polls \cup {p} |-> IF x # p THEN polls[x] ELSE
              [step |-> "asked", seq |-> seq, rate |-> RateNow(rps), now |-> now,
               enq |-> enq, clock |-> 0, done |-> 0, before |-> gate.last]]
        /\ gate' = [gate EXCEPT !.rates = @ \cup {RateNow(rps)}]
  BY DEF Ask
<1> DEFINE r == RateNow(rps)
<1>2. r \in Nat
  BY RatesAreNat
<1> HIDE DEF r
<1>3. /\ gate \in GateType /\ HasTop(gate.rates) /\ now \in Nat /\ clock \in Nat /\ done \in Nat
      /\ gate.opened \in Nat /\ gate.opened <= now /\ gate.last \in Nat
  BY RoomAssumption DEF RoomTypeOK, GateType, PaceInv
<1>4. /\ gate'.opened = gate.opened /\ gate'.last = gate.last
      /\ gate'.rates = gate.rates \cup {r} /\ gate'.raced = gate.raced
  <2>1. gate' = [gate EXCEPT !.rates = gate.rates \cup {r}]
    BY <1>1 DEF r
  <2> QED BY <1>3, <2>1 DEF GateType
<1>5. HasTop(gate'.rates) /\ Largest(gate.rates) <= Largest(gate'.rates)
  BY <1>2, <1>3, <1>4, LargestGrows
<1>6. clock' = clock /\ done' = done
  BY DEF Ask
<1>7. ASSUME NEW c \in Nat, NEW d \in Nat, Paced(gate, c, d) PROVE Paced(gate', c, d)
  BY <1>3, <1>4, <1>5, <1>7, PacedGrows
<1>8. CASE ~gate.raced
  <2>1. gate'.last <= Bound(gate', now)
    <3>1. gate.last <= Bound(gate, now)
      BY <1>8 DEF PaceInv
    <3>2. /\ Bound(gate, now) \in Nat /\ Bound(gate', now) \in Nat
          /\ Bound(gate, now) <= Bound(gate', now)
      BY <1>3, <1>4, <1>5, BoundGrows
    <3> QED BY <1>3, <1>4, <3>1, <3>2
  <2>2. ClockPaced(gate', clock', done')
    BY <1>3, <1>4, <1>6, <1>7, <1>8 DEF PaceInv, ClockPaced
  <2>3. ASSUME NEW x \in DOMAIN polls' PROVE PollPaced(gate', polls'[x])
    <3>1. CASE x = p
      <4>1. polls'[p].step = "asked" /\ polls'[p].rate = r
        BY <1>1, <2>3, <3>1 DEF r
      <4> QED BY <1>4, <3>1, <4>1 DEF PollPaced
    <3>2. CASE x # p
      <4>1. x \in DOMAIN polls /\ polls'[x] = polls[x]
        BY <1>1, <2>3, <3>2
      <4>2. PollPaced(gate, polls[x]) /\ polls[x].clock \in Nat /\ polls[x].done \in Nat
        BY <1>8, <4>1, <1>3 DEF PaceInv, RoomTypeOK, PollsBy
      <4> QED BY <1>4, <1>7, <4>1, <4>2 DEF PollPaced
    <3> QED BY <3>1, <3>2
  <2> QED BY <1>5, <2>1, <2>2, <2>3 DEF PaceInv
<1>9. CASE gate.raced
  BY <1>4, <1>5, <1>9 DEF PaceInv
<1> QED BY <1>8, <1>9

LEMMA PaceStep ==
    ASSUME LoadTypes, PaceInv, [Next]_vars
    PROVE  PaceInv'
<1>0. RoomTypeOK
  BY DEF LoadTypes
<1>1. CASE now < MaxTime /\ now' = now + 1 /\ UNCHANGED roomVars
  <2>1. /\ now \in Nat /\ now' \in Nat /\ now <= now' /\ gate.opened \in Nat /\ gate.opened <= now
        /\ gate.last \in Nat /\ HasTop(gate.rates)
    BY <1>0, <1>1, RoomAssumption DEF RoomTypeOK, PaceInv
  <2>2. Largest(gate.rates) <= Largest(gate.rates)
    BY <2>1, LargestIsTop
  <2>3. Bound(gate, now) \in Nat /\ Bound(gate, now') \in Nat /\ Bound(gate, now) <= Bound(gate, now')
    BY <2>1, <2>2, BoundGrows
  <2>4. ~gate.raced => gate.last <= Bound(gate, now')
    BY <2>1, <2>3 DEF PaceInv
  <2> QED BY <1>1, <2>4 DEF PaceInv
<1>2. ASSUME UNCHANGED now, ResetRoom PROVE PaceInv'
  <2>1. /\ gate'.rates = {} /\ gate'.opened = 0 /\ gate'.last = 0 /\ clock' = 0 /\ done' = 0
        /\ polls' = polls
    BY <1>2 DEF ResetRoom, NewGate
  <2>2. ~gate'.raced => \A p \in DOMAIN polls : polls[p].step \notin {"asked", "open", "advance"}
    BY <1>2 DEF ResetRoom, NewGate
  <2>3. HasTop(gate'.rates)
    BY <2>1 DEF HasTop
  <2>4. ClockPaced(gate', clock', done') /\ gate'.last <= Bound(gate', now')
    BY <2>1 DEF ClockPaced, Bound
  <2> QED BY <2>1, <2>2, <2>3, <2>4 DEF PaceInv, PollPaced
<1>3. ASSUME UNCHANGED <<now, clock, done, gate, polls>> PROVE PaceInv'
  BY <1>3 DEF PaceInv
<1>4. ASSUME UNCHANGED now, NEW p \in DOMAIN polls, PollFails(p) \/ Read(p) PROVE PaceInv'
  <2>1. UNCHANGED <<now, clock, done, gate>>
    BY <1>4 DEF PollFails, Read
  <2>2. ASSUME NEW x \in DOMAIN polls', PollPaced(gate, polls[x]) PROVE PollPaced(gate, polls'[x])
    <3>1. CASE Read(p)
      BY <2>2, <3>1 DEF Read
    <3>2. CASE PollFails(p) /\ x # p
      BY <2>2, <3>2 DEF PollFails
    <3>3. CASE PollFails(p) /\ x = p
      <4>1. polls'[p].step = "failed"
        BY <1>0, <3>3 DEF PollFails, RoomTypeOK, PollsBy
      <4> QED BY <3>3, <4>1 DEF PollPaced
    <3> QED BY <1>4, <3>1, <3>2, <3>3
  <2>3. DOMAIN polls' \subseteq DOMAIN polls
    BY <1>4 DEF PollFails, Read
  <2> QED BY <2>1, <2>2, <2>3 DEF PaceInv
<1>5. CASE UNCHANGED now /\ RoomStep
  <2>1. ASSUME NEW c \in Clients, NewRef(c) \/ LostRef(c) \/ RefExpires(c) PROVE PaceInv'
    BY <1>3, <1>5, <2>1 DEF NewRef, LostRef, RefExpires
  <2>2. ASSUME NEW p \in permits, PermitExpires(p) PROVE PaceInv'
    BY <1>3, <1>5, <2>2 DEF PermitExpires
  <2>3. ASSUME NEW r \in ObservedRates \cup {0}, Observe(r) PROVE PaceInv'
    BY <1>3, <1>5, <2>3 DEF Observe
  <2>4. ASSUME NEW c \in Controls, WriteControl(c) PROVE PaceInv'
    BY <1>3, <1>5, <2>4 DEF WriteControl
  <2> QED BY <1>0, <1>2, <1>4, <1>5, <2>1, <2>2, <2>3, <2>4, AskPaced, ReadClockPaced,
             WriteClockPaced DEF RoomStep
<1>6. CASE UNCHANGED now /\ UNCHANGED roomVars
  BY <1>3, <1>6
<1> QED BY <1>1, <1>5, <1>6, RoomWriters

LEMMA PaceInit == Init => PaceInv
<1> SUFFICES ASSUME Init PROVE PaceInv
  OBVIOUS
<1>1. LoadTypes
  BY InitTypes
<1>2. polls = [p \in {} |-> 0]
  BY Zenon DEF Init, RoomInit
<1>3. CASE clock = 0 /\ done = 0 /\ gate = NewGate(FALSE)
  BY <1>2, <1>3 DEF NewGate, PaceInv, HasTop, ClockPaced, Bound
<1>4. ASSUME NEW o \in 1..now, done \in Nat, clock = o + done * Second, clock <= now,
             gate = [NewGate(FALSE) EXCEPT !.opened = o, !.rates = {control.rate}]
      PROVE  PaceInv
  <2>1. /\ control.rate \in Nat \ {0} /\ gate.rates = {control.rate} /\ gate.opened = o
        /\ gate.last = 0 /\ o \in Nat \ {0} /\ now \in Nat
    BY <1>1, <1>4, RoomAssumption DEF LoadTypes, RoomTypeOK, Controls, NewGate
  <2>2. HasTop(gate.rates)
    BY <2>1 DEF HasTop
  <2>3. Largest(gate.rates) = control.rate \/ Largest(gate.rates) = 0
    BY <2>1, <2>2, LargestIsTop
  <2>4. Largest(gate.rates) \in Nat /\ 1 <= Largest(gate.rates)
    BY <2>1, <2>2, LargestIsTop
  <2>5. 1 * done <= Largest(gate.rates) * done
    BY <1>4, <2>4, TimesMono
  <2>6. Paced(gate, clock, done)
    BY <1>4, <2>1, <2>5 DEF Paced
  <2>7. clock \in Nat \ {0}
    <3>1. done * Second \in Nat
      BY <1>4, RoomAssumption
    <3> QED BY <1>4, <2>1, <3>1
  <2>8. gate.last <= Bound(gate, now)
    <3>1. done + 1 <= Bound(gate, now) /\ Bound(gate, now) \in Nat
      BY <1>4, <2>1, <2>2, <2>6, <2>7, PacedBound
    <3> QED BY <2>1, <3>1
  <2> QED BY <1>2, <2>1, <2>2, <2>6, <2>7, <2>8 DEF PaceInv, ClockPaced
<1> QED BY <1>3, <1>4, Zenon DEF Init, RoomInit

-----------------------------------------------------------------------------
(* Turns                                                                   *)

\* While the gate has one rate r, every pair of a clock and a counter lies on one
\* line. Place n is let in by time t if the first in line is let in always, or if
\* the line through the room's pair has let it in at a moment not after t.
LetIn(n, t, r) ==
    \/ n <= 1
    \/ clock # 0 /\ \E k \in Int : clock + k * Second <= t /\ n <= 1 + done + k * r

OnLine(c, d, r) == \E k \in Int : c = clock + k * Second /\ d = done + k * r

\* A poll that has read the clock will let in every place that was let in before
\* it; one that has not will find a clock that does.
PollTurn(q, r) ==
    /\ q.step = "asked" => LetIn(q.before, q.now, r)
    /\ q.step = "open" => q.before <= 1
    /\ q.step = "advance" => OnLine(q.clock, q.done, r) /\ q.before <= 1 + q.done

AllInTurn(r) ==
    /\ ~gate.overtaken
    /\ LetIn(gate.last, now, r)
    /\ \A p \in DOMAIN polls : PollTurn(polls[p], r)

TurnInv ==
    /\ IsFiniteSet(gate.rates)
    /\ ~gate.raced => \A r \in Nat : gate.rates \subseteq {r} => AllInTurn(r)

LEMMA FewSeconds ==
    ASSUME NEW s \in Nat \ {0}, NEW n \in Int, NEW k \in Int, NEW r \in Nat, k * s <= n
    PROVE  /\ n < s => k * r <= 0
           /\ n >= 0 => k <= n \div s /\ n \div s \in Nat /\ k * r <= (n \div s) * r
<1>1. k > 0 => s <= k * s
  <2>1. k > 0 => 1 <= k /\ k \in Nat
    OBVIOUS
  <2>2. k > 0 => 1 * s <= k * s
    BY <2>1, TimesMono
  <2> QED BY <2>2
<1>2. k <= 0 => k * r <= 0
  <2>1. k <= 0 => -k \in Nat
    OBVIOUS
  <2>2. k <= 0 => (-k) * r \in Nat
    BY <2>1
  <2>3. (-k) * r = -(k * r)
    BY SMT
  <2> QED BY <2>2, <2>3
<1>3. n < s => k * r <= 0
  <2>1. k * s \in Int
    OBVIOUS
  <2> QED BY <1>1, <1>2, <2>1
<1>4. ASSUME n >= 0 PROVE k <= n \div s /\ n \div s \in Nat /\ k * r <= (n \div s) * r
  <2>1. n \in Nat /\ n \div s \in Nat
    BY <1>4, DivFloor
  <2>2. k <= n \div s
    <3>1. CASE k \in Nat
      BY <2>1, <3>1, DivAtLeast
    <3>2. CASE k \notin Nat
      BY <2>1, <3>2
    <3> QED BY <3>1, <3>2
  <2> DEFINE m == n \div s
  <2>3. m \in Nat /\ k <= m
    BY <2>1, <2>2
  <2> HIDE DEF m
  <2>4. k * r <= m * r
    <3>1. CASE k \in Nat
      BY <2>3, <3>1, TimesMono
    <3>2. CASE k \notin Nat
      <4>1. k * r <= 0 /\ m * r \in Nat /\ k * r \in Int
        BY <1>2, <2>3, <3>2
      <4> QED BY <4>1
    <3> QED BY <3>1, <3>2
  <2> QED BY <2>1, <2>3, <2>4 DEF m
<1> QED BY <1>3, <1>4

\* What lets in a place goes on to do so, on the same line and later.
LEMMA StaysLetIn ==
    ASSUME RoomTypeOK, RoomTypeOK', NEW n \in Nat, NEW t \in Nat, NEW u \in Nat, t <= u,
           NEW r \in Nat, LetIn(n, t, r),
           \/ UNCHANGED <<clock, done>>
           \/ clock = 0
           \/ clock' # 0 /\ OnLine(clock', done', r)
    PROVE  LetIn(n, u, r)'
<1> SUFFICES ASSUME ~(n <= 1) PROVE LetIn(n, u, r)'
  BY DEF LetIn
<1>1. PICK k \in Int : clock # 0 /\ clock + k * Second <= t /\ n <= 1 + done + k * r
  BY DEF LetIn
<1>2. /\ clock \in Nat /\ clock' \in Nat /\ done \in Nat /\ done' \in Nat
      /\ k * Second \in Int /\ k * r \in Int /\ Second \in Nat
  BY RoomAssumption DEF RoomTypeOK
<1>3. CASE UNCHANGED <<clock, done>>
  BY <1>1, <1>2, <1>3 DEF LetIn
<1>4. CASE clock' # 0 /\ OnLine(clock', done', r)
  <2>1. PICK j \in Int : clock' = clock + j * Second /\ done' = done + j * r
    BY <1>4 DEF OnLine
  <2>2. /\ k - j \in Int /\ j * Second \in Int /\ j * r \in Int
        /\ (k - j) * Second = k * Second - j * Second /\ (k - j) * r = k * r - j * r
    BY <1>2, SMT
  <2>3. clock' + (k - j) * Second <= u /\ n <= 1 + done' + (k - j) * r
    BY <1>1, <1>2, <2>1, <2>2
  <2> QED BY <1>4, <2>2, <2>3 DEF LetIn
<1> QED BY <1>1, <1>3, <1>4

LEMMA StaysOnLine ==
    ASSUME RoomTypeOK, RoomTypeOK', NEW c \in Nat, NEW d \in Nat, NEW r \in Nat,
           OnLine(c, d, r), OnLine(clock', done', r)
    PROVE  OnLine(c, d, r)'
<1>1. PICK k \in Int : c = clock + k * Second /\ d = done + k * r
  BY DEF OnLine
<1>2. PICK j \in Int : clock' = clock + j * Second /\ done' = done + j * r
  BY DEF OnLine
<1>3. /\ clock \in Nat /\ clock' \in Nat /\ done \in Nat /\ done' \in Nat /\ Second \in Nat
      /\ k * Second \in Int /\ k * r \in Int /\ j * Second \in Int /\ j * r \in Int
  BY RoomAssumption DEF RoomTypeOK
<1>4. /\ k - j \in Int
      /\ (k - j) * Second = k * Second - j * Second /\ (k - j) * r = k * r - j * r
  BY <1>3, SMT
<1>5. c = clock' + (k - j) * Second /\ d = done' + (k - j) * r
  BY <1>1, <1>2, <1>3, <1>4
<1> QED BY <1>4, <1>5 DEF OnLine

\* What a poll promises survives the moves of the room's pair along the line.
LEMMA StaysInTurn ==
    ASSUME RoomTypeOK, RoomTypeOK', UNCHANGED now, NEW q \in PollsBy(now), NEW r \in Nat,
           PollTurn(q, r),
           \/ UNCHANGED <<clock, done>>
           \/ clock = 0 /\ q.step # "advance"
           \/ clock' # 0 /\ OnLine(clock', done', r)
    PROVE  PollTurn(q, r)'
<1>0. q.before \in Nat /\ q.now \in Nat /\ q.clock \in Nat /\ q.done \in Nat
  BY RoomAssumption DEF PollsBy, RoomTypeOK
<1>1. q.step = "asked" => LetIn(q.before, q.now, r)'
  BY <1>0, StaysLetIn DEF PollTurn
<1>2. q.step = "advance" => OnLine(q.clock, q.done, r)'
  <2>1. CASE UNCHANGED <<clock, done>>
    BY <2>1 DEF PollTurn, OnLine
  <2> QED BY <1>0, <2>1, StaysOnLine DEF PollTurn
<1> QED BY <1>1, <1>2 DEF PollTurn

\* An answer by a counter that has let in all that was let in before overtakes
\* nobody.
LEMMA AnswerTurns ==
    ASSUME RoomTypeOK, RoomTypeOK', UNCHANGED now, NEW r \in Nat, AllInTurn(r),
           NEW p \in DOMAIN polls, NEW g \in GateType,
           ~g.overtaken, g.last = gate.last, Answer(p, polls[p], done', g),
           polls[p].before <= 1 + done', clock' = 0 => done' = 0,
           \/ UNCHANGED <<clock, done>>
           \/ clock = 0 /\ \A x \in DOMAIN polls : polls[x].step # "advance"
           \/ clock' # 0 /\ OnLine(clock', done', r)
    PROVE  AllInTurn(r)'
<1> DEFINE q == polls[p]
<1>0. /\ q \in PollsBy(now) /\ q.seq \in Nat /\ q.before \in Nat /\ now \in Nat
      /\ gate.last \in Nat /\ done' \in Nat /\ clock' \in Nat /\ clock' <= now
  BY RoomAssumption DEF RoomTypeOK, PollsBy
<1>1. /\ ~gate'.overtaken
      /\ gate'.last = gate.last \/ (gate'.last = q.seq /\ q.seq <= 1 + done')
  <2>1. CASE q.seq > 0 /\ q.seq <= done' + 1
    <3>1. gate' = [g EXCEPT !.last = IF q.seq > @ THEN q.seq ELSE @]
      BY <2>1 DEF Answer
    <3> QED BY <1>0, <2>1, <3>1 DEF GateType
  <2>2. CASE ~(q.seq > 0 /\ q.seq <= done' + 1)
    <3>1. gate' = [g EXCEPT !.overtaken = @ \/ q.seq \in 1..q.before]
      BY <2>2 DEF Answer
    <3>2. q.seq \notin 1..q.before
      BY <1>0, <2>2
    <3>3. gate'.last = g.last /\ gate'.overtaken = (g.overtaken \/ q.seq \in 1..q.before)
      BY <3>1 DEF GateType
    <3> QED BY <3>2, <3>3
  <2> QED BY <2>1, <2>2
<1>2. LetIn(gate.last, now, r)'
  <2> SUFFICES ASSUME NEW n \in Nat, n = gate'.last, NEW t \in Nat, t = now
               PROVE  LetIn(n, t, r)'
    BY <1>0, <1>1 DEF LetIn
  <2>1. CASE n = gate.last
    <3>1. LetIn(n, t, r)
      BY <2>1 DEF AllInTurn
    <3> QED BY <3>1, StaysLetIn
  <2>2. CASE n <= 1 + done'
    <3>1. 0 * Second = 0 /\ 0 * r = 0
      BY RoomAssumption
    <3>2. clock' + 0 * Second <= t /\ n <= 1 + done' + 0 * r
      BY <1>0, <2>2, <3>1
    <3> QED BY <1>0, <2>2, <3>2 DEF LetIn
  <2> QED BY <1>1, <2>1, <2>2
<1>3. ASSUME NEW x \in DOMAIN polls', NEW z, z = polls'[x] PROVE PollTurn(z, r)'
  <2>1. x \in DOMAIN polls
    BY <1>3 DEF Answer
  <2>2. CASE x = p
    <3>1. z.step \in {"admitted", "waiting"}
      <4>1. DOMAIN q = {"step", "seq", "rate", "now", "enq", "clock", "done", "before"}
        BY <1>0 DEF PollsBy
      <4> QED BY <1>3, <2>2, <4>1 DEF Answer
    <3> QED BY <3>1 DEF PollTurn
  <2>3. CASE x # p
    <3>1. z = polls[x] /\ z \in PollsBy(now)
      BY <1>3, <2>1, <2>3 DEF Answer, RoomTypeOK
    <3>2. PollTurn(z, r)
      BY <2>1, <3>1 DEF AllInTurn
    <3> QED BY <2>1, <3>1, <3>2, StaysInTurn
  <2> QED BY <2>2, <2>3
<1>4. \A x \in DOMAIN polls' : PollTurn(polls[x], r)'
  BY <1>3 DEF PollTurn
<1> QED BY <1>1, <1>2, <1>4 DEF AllInTurn

\* What the pace says of a gate with one rate, which no poll has overtaken.
LEMMA OneRate ==
    ASSUME RoomTypeOK, PaceInv, ~gate.raced, NEW r \in Nat, gate.rates \subseteq {r}
    PROVE  /\ clock = 0 => done = 0
           /\ \A p \in DOMAIN polls :
                /\ polls[p].step \in {"asked", "open", "advance"} => polls[p].rate = r
                /\ polls[p].step = "open" => polls[p].done = 0
                /\ polls[p].step = "advance" => clock # 0 /\ polls[p].clock # 0
<1>1. /\ ClockPaced(gate, clock, done) /\ \A p \in DOMAIN polls : PollPaced(gate, polls[p])
      /\ gate.opened \in Nat
  BY RoomAssumption DEF PaceInv, RoomTypeOK
<1>2. ASSUME NEW p \in DOMAIN polls, polls[p].step = "advance" PROVE polls[p].clock # 0
  <2>1. gate.opened # 0 /\ Paced(gate, polls[p].clock, polls[p].done)
    BY <1>1, <1>2 DEF PollPaced
  <2>2. PICK k \in Nat : polls[p].clock = gate.opened + k * Second
    BY <2>1 DEF Paced
  <2>3. k * Second \in Nat
    BY RoomAssumption
  <2> QED BY <1>1, <2>1, <2>2, <2>3
<1> QED BY <1>1, <1>2 DEF ClockPaced, PollPaced

LEMMA ReadClockTurns ==
    ASSUME RoomTypeOK, RoomTypeOK', PaceInv, UNCHANGED now, ~gate.raced, NEW r \in Nat,
           gate.rates \subseteq {r}, AllInTurn(r), NEW p \in DOMAIN polls, ReadClock(p)
    PROVE  AllInTurn(r)'
<1> DEFINE q == polls[p]
           n == q.now - clock
           seconds == IF q.now > clock THEN n \div Second ELSE 0
<1>0. /\ q \in PollsBy(now) /\ q.step = "asked" /\ q.before \in Nat /\ q.now \in Nat
      /\ clock \in Nat /\ done \in Nat /\ q.rate = r /\ gate \in GateType
      /\ UNCHANGED <<clock, done>> /\ (clock = 0 => done = 0)
      /\ Second \in Nat \ {0} /\ n \in Int /\ ~gate.overtaken /\ LetIn(q.before, q.now, r)
  BY RoomAssumption, OneRate DEF RoomTypeOK, GateType, PollsBy, ReadClock, At, AllInTurn, PollTurn
<1>1. ASSUME clock # 0, ~(q.before <= 1)
      PROVE  \E k \in Int : k * Second <= n /\ q.before <= 1 + done + k * r
  <2>1. PICK k \in Int : clock + k * Second <= q.now /\ q.before <= 1 + done + k * r
    BY <1>0, <1>1 DEF LetIn
  <2>2. k * Second \in Int
    BY <1>0
  <2>3. k * Second <= n
    BY <1>0, <2>1, <2>2
  <2> HIDE DEF n
  <2> QED BY <2>1, <2>3
<1> HIDE DEF n
<1>2. CASE Answer(p, q, done, gate) /\ (q.rate = 0 \/ (clock # 0 /\ seconds = 0))
  <2>1. q.before <= 1 + done
    <3>1. CASE clock = 0
      BY <1>0, <3>1 DEF LetIn
    <3>2. CASE clock # 0 /\ ~(q.before <= 1)
      <4>1. PICK k \in Int : k * Second <= n /\ q.before <= 1 + done + k * r
        BY <1>1, <3>2
      <4>2. k * r <= 0
        <5>1. CASE r = 0
          BY <5>1
        <5>2. CASE seconds = 0
          <6>1. n < Second
            BY <1>0, <5>2, DivFloor DEF n
          <6> QED BY <1>0, <4>1, <6>1, FewSeconds
        <5> QED BY <1>0, <1>2, <5>1, <5>2
      <4>3. k * r \in Int
        BY <1>0
      <4> QED BY <1>0, <4>1, <4>2, <4>3
    <3> QED BY <1>0, <3>1, <3>2
  <2> QED BY <1>0, <1>2, <2>1, AnswerTurns
<1>3. ASSUME UNCHANGED gate, NEW z \in PollsBy(now), PollTurn(z, r),
             polls' = [polls EXCEPT ![p] = z]
      PROVE  AllInTurn(r)'
  <2>1. \A x \in DOMAIN polls' : x \in DOMAIN polls /\ polls'[x] = IF x = p THEN z ELSE polls[x]
    BY <1>3
  <2> QED BY <1>0, <1>3, <2>1 DEF AllInTurn, PollTurn, LetIn, OnLine
<1>4. CASE /\ clock = 0 /\ UNCHANGED gate
           /\ polls' = [polls EXCEPT ![p].step = "open", ![p].done = done]
  <2>1. q.before <= 1
    BY <1>0, <1>4 DEF LetIn
  <2> DEFINE z == [q EXCEPT !.step = "open", !.done = done]
  <2>2. polls' = [polls EXCEPT ![p] = z]
    BY <1>4, Zenon
  <2>3. z.step = "open" /\ z.before = q.before
    BY <1>0 DEF PollsBy
  <2>4. z \in PollsBy(now)
    BY <2>2 DEF RoomTypeOK
  <2> HIDE DEF z
  <2> QED BY <1>3, <1>4, <2>1, <2>2, <2>3, <2>4 DEF PollTurn
<1>5. CASE /\ clock # 0 /\ seconds > 0 /\ UNCHANGED gate
           /\ polls' = [polls EXCEPT ![p].step = "advance",
                                     ![p].clock = clock + seconds * Second,
                                     ![p].done = done + seconds * q.rate]
  <2>1. n \in Nat /\ seconds = n \div Second /\ seconds \in Nat
    BY <1>0, <1>5, DivFloor DEF n
  <2>2. q.before <= 1 + done + seconds * r
    <3> HIDE DEF seconds
    <3>1. CASE q.before <= 1
      BY <1>0, <2>1, <3>1
    <3>2. CASE ~(q.before <= 1)
      <4>1. PICK k \in Int : k * Second <= n /\ q.before <= 1 + done + k * r
        BY <1>1, <1>5, <3>2
      <4>2. k * r <= (n \div Second) * r
        BY <1>0, <2>1, <4>1, FewSeconds
      <4>3. k * r <= seconds * r
        BY <2>1, <4>2
      <4>4. k * r \in Int /\ seconds * r \in Nat
        BY <1>0, <2>1, <4>1
      <4> QED BY <1>0, <4>1, <4>3, <4>4
    <3> QED BY <3>1, <3>2
  <2> DEFINE z == [q EXCEPT !.step = "advance", !.clock = clock + seconds * Second,
                            !.done = done + seconds * q.rate]
  <2>3. polls' = [polls EXCEPT ![p] = z]
    BY <1>5, Zenon
  <2> HIDE DEF seconds
  <2>4. /\ z.step = "advance" /\ z.before = q.before /\ z.clock = clock + seconds * Second
        /\ z.done = done + seconds * r
    BY <1>0 DEF PollsBy
  <2>5. z \in PollsBy(now)
    BY <2>3 DEF RoomTypeOK
  <2> HIDE DEF z
  <2>6. OnLine(z.clock, z.done, r) /\ z.before <= 1 + z.done
    <3>1. z.before <= 1 + z.done
      <4>1. done + seconds * r = z.done /\ seconds * r \in Nat
        BY <1>0, <2>1, <2>4
      <4> QED BY <1>0, <2>2, <2>4, <4>1
    <3>2. OnLine(z.clock, z.done, r)
      <4>1. seconds \in Int /\ z.clock = clock + seconds * Second /\ z.done = done + seconds * r
        BY <2>1, <2>4
      <4> QED BY <4>1 DEF OnLine
    <3> QED BY <3>1, <3>2
  <2> QED BY <1>3, <1>5, <2>3, <2>4, <2>5, <2>6 DEF PollTurn
<1> QED BY <1>2, <1>4, <1>5 DEF ReadClock, n

LEMMA WriteClockTurns ==
    ASSUME RoomTypeOK, RoomTypeOK', PaceInv, UNCHANGED now, ~gate.raced, ~gate'.raced,
           NEW r \in Nat, gate.rates \subseteq {r}, AllInTurn(r),
           NEW p \in DOMAIN polls, WriteClock(p)
    PROVE  AllInTurn(r)'
<1> DEFINE q == polls[p]
           opening == [gate EXCEPT !.opened = IF @ = 0 THEN q.now ELSE @,
                                   !.raced = @ \/ clock # 0]
<1>0. /\ q \in PollsBy(now) /\ q.before \in Nat /\ gate \in GateType /\ ~gate.overtaken
      /\ q.now \in 1..now /\ PollTurn(q, r)
  BY RoomAssumption DEF RoomTypeOK, GateType, PollsBy, AllInTurn
<1>1. CASE /\ q.step = "open" /\ clock' = q.now /\ UNCHANGED done
           /\ Answer(p, q, q.done, opening)
  <2>1. /\ opening \in GateType /\ opening.last = gate.last
        /\ opening.overtaken = gate.overtaken /\ opening.raced = (gate.raced \/ clock # 0)
    <3> DEFINE o == IF gate.opened = 0 THEN q.now ELSE gate.opened
               b == gate.raced \/ clock # 0
    <3>1. o \in 0..now /\ b \in BOOLEAN
      BY <1>0, RoomAssumption DEF GateType, RoomTypeOK
    <3>2. opening = [gate EXCEPT !.opened = o, !.raced = b]
      BY Zenon
    <3>3. /\ opening \in GateType /\ opening.last = gate.last
          /\ opening.overtaken = gate.overtaken /\ opening.raced = b
      <4> HIDE DEF o, b, opening
      <4> QED BY <1>0, <3>1, <3>2 DEF GateType
    <3> QED BY <3>3, Zenon
  <2> HIDE DEF opening
  <2>2. gate'.raced = opening.raced
    <3>1. \/ gate' = [opening EXCEPT !.last = IF q.seq > @ THEN q.seq ELSE @]
          \/ gate' = [opening EXCEPT !.overtaken = @ \/ q.seq \in 1..q.before]
      BY <1>1 DEF Answer
    <3> QED BY <2>1, <3>1 DEF GateType
  <2>3. clock = 0 /\ done = 0 /\ q.done = 0 /\ q.before <= 1
        /\ \A x \in DOMAIN polls : polls[x].step # "advance"
    BY <1>0, <1>1, <2>1, <2>2, OneRate DEF PollTurn
  <2>4. done' = q.done /\ clock' # 0 /\ q.before <= 1 + done'
    BY <1>0, <1>1, <2>3
  <2> QED BY <1>0, <1>1, <2>1, <2>3, <2>4, AnswerTurns
<1>2. CASE /\ q.step = "advance" /\ clock' = q.clock /\ done' = q.done
           /\ Answer(p, q, q.done, gate)
  <2>1. clock' # 0 /\ OnLine(clock', done', r) /\ q.before <= 1 + done'
    BY <1>0, <1>2, OneRate DEF PollTurn
  <2> QED BY <1>0, <1>2, <2>1, AnswerTurns
<1> QED BY <1>1, <1>2 DEF WriteClock, At

LEMMA AskTurns ==
    ASSUME RoomTypeOK, TurnInv, UNCHANGED now, NEW p, NEW seq \in Nat, Ask(p, seq)
    PROVE  TurnInv'
<1>1. PICK rps \in RpsSamples :
        /\ polls' = [x \in DOMAIN polls \cup {p} |-> IF x # p THEN polls[x] ELSE
              [step |-> "asked", seq |-> seq, rate |-> RateNow(rps), now |-> now,
               enq |-> enq, clock |-> 0, done |-> 0, before |-> gate.last]]
        /\ gate' = [gate EXCEPT !.rates = @ \cup {RateNow(rps)}]
  BY DEF Ask
<1>2. /\ gate'.last = gate.last /\ gate'.raced = gate.raced
      /\ gate'.overtaken = gate.overtaken /\ gate'.rates = gate.rates \cup {RateNow(rps)}
  BY <1>1 DEF RoomTypeOK
<1>3. IsFiniteSet(gate'.rates)
  BY <1>2, FS_AddElement DEF TurnInv
<1>4. ASSUME ~gate.raced, NEW r \in Nat, gate'.rates \subseteq {r} PROVE AllInTurn(r)'
  <2>1. AllInTurn(r)
    BY <1>2, <1>4 DEF TurnInv
  <2>2. UNCHANGED <<clock, done>>
    BY DEF Ask
  <2>3. ASSUME NEW x \in DOMAIN polls', NEW z, z = polls'[x] PROVE PollTurn(z, r)
    <3>1. CASE x = p
      <4>1. z.step = "asked" /\ z.before = gate.last /\ z.now = now
        BY <1>1, <2>3, <3>1
      <4> QED BY <2>1, <4>1 DEF AllInTurn, PollTurn
    <3>2. CASE x # p
      BY <1>1, <2>1, <2>3, <3>2 DEF AllInTurn
    <3> QED BY <3>1, <3>2
  <2>4. \A x \in DOMAIN polls' : PollTurn(polls[x], r)'
    BY <2>2, <2>3 DEF PollTurn, LetIn, OnLine
  <2>5. LetIn(gate.last, now, r)'
    BY <1>2, <2>1, <2>2 DEF AllInTurn, LetIn
  <2> QED BY <1>2, <2>1, <2>4, <2>5 DEF AllInTurn
<1> QED BY <1>2, <1>3, <1>4 DEF TurnInv

LEMMA ClockKeepsRates ==
    ASSUME RoomTypeOK, NEW p \in DOMAIN polls, ReadClock(p) \/ WriteClock(p)
    PROVE  gate'.rates = gate.rates /\ (gate.raced => gate'.raced)
<1>0. gate \in GateType
  BY DEF RoomTypeOK, GateType
<1>1. ASSUME NEW q, NEW d, NEW g, Answer(p, q, d, g), g.rates = gate.rates,
             DOMAIN g = {"opened", "last", "rates", "raced", "overtaken"},
             gate.raced => g.raced
      PROVE  gate'.rates = gate.rates /\ (gate.raced => gate'.raced)
  BY <1>1 DEF Answer
<1>2. CASE ReadClock(p)
  <2>1. CASE Answer(p, polls[p], done, gate)
    BY <1>0, <1>1, <2>1 DEF GateType
  <2> QED BY <1>2, <2>1 DEF ReadClock
<1>3. CASE WriteClock(p)
  <2> DEFINE g == [gate EXCEPT !.opened = IF @ = 0 THEN polls[p].now ELSE @,
                               !.raced = @ \/ clock # 0]
  <2>1. /\ g.rates = gate.rates /\ DOMAIN g = {"opened", "last", "rates", "raced", "overtaken"}
        /\ gate.raced => g.raced
    BY <1>0 DEF GateType
  <2>2. CASE Answer(p, polls[p], polls[p].done, g)
    <3> HIDE DEF g
    <3> QED BY <1>1, <2>1, <2>2
  <2>3. CASE Answer(p, polls[p], polls[p].done, gate)
    BY <1>0, <1>1, <2>3 DEF GateType
  <2> QED BY <1>3, <2>2, <2>3 DEF WriteClock
<1> QED BY <1>2, <1>3

LEMMA TurnStep ==
    ASSUME LoadTypes, LoadTypes', PaceInv, TurnInv, [Next]_vars
    PROVE  TurnInv'
<1>0. RoomTypeOK /\ RoomTypeOK'
  BY DEF LoadTypes
<1>1. CASE now < MaxTime /\ now' = now + 1 /\ UNCHANGED roomVars
  <2>1. now \in Nat
    BY <1>0, RoomAssumption DEF RoomTypeOK
  <2>2. ASSUME NEW r \in Nat, AllInTurn(r) PROVE AllInTurn(r)'
    <3>1. LetIn(gate.last, now, r)'
      <4> SUFFICES ASSUME NEW n \in Nat, n = gate.last, NEW t \in Nat, t = now,
                          NEW u \in Nat, u = now'
                   PROVE  LetIn(n, u, r)'
        BY <1>0, <1>1, <2>1 DEF LetIn, RoomTypeOK
      <4>1. LetIn(n, t, r) /\ t <= u
        BY <1>1, <2>1, <2>2 DEF AllInTurn
      <4> QED BY <1>0, <1>1, <4>1, StaysLetIn
    <3> QED BY <1>1, <2>2, <3>1 DEF AllInTurn, PollTurn, LetIn, OnLine
  <2> QED BY <1>1, <2>2 DEF TurnInv
<1>2. ASSUME UNCHANGED now, ResetRoom PROVE TurnInv'
  <2>1. /\ gate'.rates = {} /\ gate'.last = 0 /\ ~gate'.overtaken /\ polls' = polls
        /\ ~gate'.raced => \A p \in DOMAIN polls : polls[p].step \notin {"asked", "open", "advance"}
    BY <1>2 DEF ResetRoom, NewGate
  <2> QED BY <2>1, FS_EmptySet DEF TurnInv, AllInTurn, LetIn, PollTurn
<1>3. ASSUME UNCHANGED <<now, clock, done, gate, polls>> PROVE TurnInv'
  BY <1>3 DEF TurnInv, AllInTurn, PollTurn, LetIn, OnLine
<1>4. ASSUME UNCHANGED now, NEW p \in DOMAIN polls, PollFails(p) \/ Read(p) PROVE TurnInv'
  <2>1. UNCHANGED <<now, clock, done, gate>>
    BY <1>4 DEF PollFails, Read
  <2>2. ASSUME NEW x \in DOMAIN polls'
        PROVE  x \in DOMAIN polls /\ (polls'[x] = polls[x] \/ polls'[x].step = "failed")
    <3>1. CASE Read(p)
      BY <2>2, <3>1 DEF Read
    <3>2. CASE PollFails(p) /\ x # p
      BY <2>2, <3>2 DEF PollFails
    <3>3. CASE PollFails(p) /\ x = p
      BY <1>0, <2>2, <3>3 DEF PollFails, RoomTypeOK, PollsBy
    <3> QED BY <1>4, <3>1, <3>2, <3>3
  <2>3. ASSUME NEW r \in Nat, AllInTurn(r) PROVE AllInTurn(r)'
    <3>1. \A x \in DOMAIN polls' : PollTurn(polls[x], r)'
      BY <2>1, <2>2, <2>3 DEF AllInTurn, PollTurn, LetIn, OnLine
    <3> QED BY <2>1, <2>3, <3>1 DEF AllInTurn, LetIn
  <2> QED BY <2>1, <2>3 DEF TurnInv
<1>5. ASSUME UNCHANGED now, NEW p \in DOMAIN polls, ReadClock(p) \/ WriteClock(p) PROVE TurnInv'
  <2>1. gate'.rates = gate.rates /\ (gate.raced => gate'.raced)
    BY <1>0, <1>5, ClockKeepsRates
  <2>2. ASSUME ~gate'.raced, NEW r \in Nat, gate'.rates \subseteq {r} PROVE AllInTurn(r)'
    <3>1. ~gate.raced /\ gate.rates \subseteq {r} /\ AllInTurn(r)
      BY <2>1, <2>2 DEF TurnInv
    <3> QED BY <1>0, <1>5, <2>2, <3>1, ReadClockTurns, WriteClockTurns
  <2> QED BY <2>1, <2>2 DEF TurnInv
<1>6. CASE UNCHANGED now /\ RoomStep
  <2>1. ASSUME NEW c \in Clients, NewRef(c) \/ LostRef(c) \/ RefExpires(c) PROVE TurnInv'
    BY <1>3, <1>6, <2>1 DEF NewRef, LostRef, RefExpires
  <2>2. ASSUME NEW p \in permits, PermitExpires(p) PROVE TurnInv'
    BY <1>3, <1>6, <2>2 DEF PermitExpires
  <2>3. ASSUME NEW r \in ObservedRates \cup {0}, Observe(r) PROVE TurnInv'
    BY <1>3, <1>6, <2>3 DEF Observe
  <2>4. ASSUME NEW c \in Controls, WriteControl(c) PROVE TurnInv'
    BY <1>3, <1>6, <2>4 DEF WriteControl
  <2> QED BY <1>0, <1>2, <1>4, <1>5, <1>6, <2>1, <2>2, <2>3, <2>4, AskTurns DEF RoomStep
<1>7. CASE UNCHANGED now /\ UNCHANGED roomVars
  BY <1>3, <1>7
<1> QED BY <1>1, <1>6, <1>7, RoomWriters

LEMMA TurnInit == Init => TurnInv
<1> SUFFICES ASSUME Init PROVE TurnInv
  OBVIOUS
<1>1. polls = [p \in {} |-> 0]
  BY Zenon DEF Init, RoomInit
<1>2. \/ gate = NewGate(FALSE)
      \/ \E o \in 1..now :
           gate = [NewGate(FALSE) EXCEPT !.opened = o, !.rates = {control.rate}]
  BY Zenon DEF Init, RoomInit
<1>3. /\ ~gate.overtaken /\ gate.last = 0
      /\ gate.rates = {} \/ gate.rates = {control.rate}
  <2>1. CASE gate = NewGate(FALSE)
    BY <2>1 DEF NewGate
  <2>2. ASSUME NEW o \in 1..now,
               gate = [NewGate(FALSE) EXCEPT !.opened = o, !.rates = {control.rate}]
        PROVE  ~gate.overtaken /\ gate.last = 0 /\ gate.rates = {control.rate}
    <3>1. gate = [opened |-> o, last |-> 0, rates |-> {control.rate}, raced |-> FALSE,
                  overtaken |-> FALSE]
      BY <2>2 DEF NewGate
    <3> QED BY <3>1
  <2> QED BY <1>2, <2>1, <2>2
<1>4. IsFiniteSet(gate.rates)
  BY <1>3, FS_EmptySet, FS_Singleton
<1> QED BY <1>1, <1>3, <1>4 DEF TurnInv, AllInTurn, LetIn

-----------------------------------------------------------------------------
\* The room's counters, clocks and polls keep their types in every load test: no
\* poll writes a clock from the future or a counter below zero (_advance_done).
THEOREM RoomTypes == Spec => []RoomTypeOK
<1>1. LoadTypes => RoomTypeOK
  BY DEF LoadTypes
<1>2. LoadTypes /\ [Next]_vars => LoadTypes'
  BY TypesStep
<1> QED BY <1>1, <1>2, InitTypes, PTL DEF Spec

\* For any clients, rates, clock and time, whatever polls, resets, operators,
\* monitoring and pods do: the gate lets in no place before its fastest rate
\* allows since its clock started, but the first in line (_advance_done, status).
THEOREM PaceIsKept == Spec => []AdmissionIsPaced
<1>1. LoadTypes /\ PaceInv /\ [Next]_vars => LoadTypes' /\ PaceInv'
  BY TypesStep, PaceStep
<1>2. PaceInv => AdmissionIsPaced
  BY DEF PaceInv, AdmissionIsPaced, Bound
<1> QED BY <1>1, <1>2, InitTypes, PaceInit, PTL DEF Spec

\* While all polls go by one rate, the gate lets in nobody before those whose turn
\* it was, for any number of users and polls: a poll that writes what it worked out
\* long ago may turn the counter back, but with the clock it came from, and who
\* polls next makes up for it (_advance_done, status).
THEOREM TurnsAreKept == Spec => []TurnIsKept
<1>1. LoadTypes /\ PaceInv /\ TurnInv /\ [Next]_vars => LoadTypes' /\ PaceInv' /\ TurnInv'
  BY TypesStep, PaceStep, TurnStep
<1>2. LoadTypes /\ TurnInv => TurnIsKept
  <2> SUFFICES ASSUME LoadTypes, TurnInv, ~gate.raced, Cardinality(gate.rates) <= 1
               PROVE  ~gate.overtaken
    BY DEF TurnIsKept
  <2>1. IsFiniteSet(gate.rates) /\ gate.rates \subseteq Nat
    BY DEF LoadTypes, RoomTypeOK, TurnInv
  <2>2. \E r \in Nat : gate.rates \subseteq {r}
    <3>1. Cardinality(gate.rates) = 0 \/ Cardinality(gate.rates) = 1
      BY <2>1, FS_CardinalityType
    <3>2. gate.rates = {} \/ \E r : gate.rates = {r}
      BY <2>1, <3>1, FS_EmptySet, FS_Singleton
    <3>3. 0 \in Nat
      OBVIOUS
    <3> QED BY <2>1, <3>2, <3>3
  <2> QED BY <2>2 DEF TurnInv, AllInTurn
<1> QED BY <1>1, <1>2, InitTypes, PaceInit, TurnInit, PTL DEF Spec

=============================================================================
