--------------------------- MODULE LoadDeskProofs ---------------------------
(***************************************************************************)
(* What write-api promises to the users of any load test: who is told      *)
(* QUEUED has a message in the queue and the seat, unless Redis failed or  *)
(* the key expired, and who leaves a hold that no user knows of.           *)
(***************************************************************************)
EXTENDS LoadTestProofs

USE DEF roomVars, deskVars, clientVars, ticketVars, scriptVars

-----------------------------------------------------------------------------
(* The inductive invariant                                                 *)

CallRecords == [step : CallSteps, seat : Seats, ref : BOOLEAN]

DeskTypes ==
    /\ DOMAIN call \subseteq Calls /\ call \in [DOMAIN call -> CallRecords]
    /\ holder \in [Seats -> Calls \cup {Nobody}]
    /\ phase \in [Clients -> Phases]
    /\ tries \in [Clients -> Nat]
    /\ next \in Nat \ {0}

\* The users of the burst test that are under way have a seat to ask for.
SeatsKnown ==
    \A c \in Bursters : phase[c] \notin {"idle", "over", "cancelled"} => SeatFor[c] \in Seats

\* A user that waits for an answer has sent its last commit.
TriesSent == \A c \in Clients : phase[c] \in {"wait", "renew"} => Try(c) \in DOMAIN call

Waits(h) == phase[Client(h)] = "wait" /\ Try(Client(h)) = h

\* A commit that went on with its key is the holder as long as no key of its seat
\* expires, and so is one about to release it; what a user knows to be QUEUED is.
HoldsKept ==
    /\ \A h \in DOMAIN call :
         /\ call[h].step \in {"held", "queued", "releasing"} =>
               \/ holder[call[h].seat] = h \/ call[h].seat \in lapsed
               \/ h \in keyless /\ call[h].step # "releasing"
         /\ call[h].step = "queued" => h \in sent
    /\ \A h \in accepted : h \in DOMAIN call /\ call[h].step = "queued"

\* A commit somebody waits for, knows of or gave up; any other has been refused.
CallsKnown ==
    /\ \A h \in DOMAIN call : \/ h \in accepted \cup dropped
                              \/ Waits(h)
                              \/ call[h].step \in {"taken", "required", "unavailable", "error"}
    /\ \A s \in Seats : holder[s] # Nobody =>
         /\ holder[s] \in DOMAIN call /\ call[holder[s]].seat = s
         /\ \/ call[holder[s]].step \in {"held", "queued", "releasing", "lost"}
            \/ call[holder[s]].step = "error" /\ holder[s] \in stuck

DeskInv == DeskTypes /\ SeatsKnown /\ TriesSent /\ HoldsKept /\ CallsKnown

LEMMA DeskInvInit == Init => DeskInv
<1> SUFFICES ASSUME Init PROVE DeskInv
  OBVIOUS
<1>1. /\ call = [h \in {} |-> 0] /\ holder = [s \in Seats |-> Nobody] /\ accepted = {}
      /\ tries = [c \in Clients |-> 0] /\ next = 1
  BY Zenon DEF Init, DeskInit, ClientInit, TicketInit
<1>2. /\ phase \in [Clients -> {"idle", "poll", "cancelled"}]
      /\ \A c \in Clients : phase[c] = "poll" => c \in Phased
  BY Zenon DEF Init, ClientInit
<1>3. DOMAIN call = {} /\ \A s \in Seats : holder[s] = Nobody
  BY <1>1
<1>4. DeskTypes
  <2>1. DOMAIN call \subseteq Calls /\ call \in [DOMAIN call -> CallRecords]
    BY <1>1
  <2>2. holder \in [Seats -> Calls \cup {Nobody}] /\ tries \in [Clients -> Nat] /\ next \in Nat \ {0}
    BY <1>1
  <2>3. phase \in [Clients -> Phases]
    BY <1>2 DEF Phases
  <2> QED BY <2>1, <2>2, <2>3 DEF DeskTypes
<1>5. SeatsKnown
  BY <1>2, BurstAssumption DEF SeatsKnown
<1>6. TriesSent
  BY <1>2 DEF TriesSent
<1> QED BY <1>1, <1>3, <1>4, <1>5, <1>6 DEF DeskInv, HoldsKept, CallsKnown

-----------------------------------------------------------------------------
(* What a user does about its commits                                      *)

\* It sends its next one, and no longer waits for the one before.
Sends(c) ==
    \E seat \in Seats, withRef \in BOOLEAN :
        /\ Post(<<c, tries[c] + 1>>, seat, withRef)
        /\ tries' = [tries EXCEPT ![c] = @ + 1]
        /\ phase' = [phase EXCEPT ![c] = "wait"] /\ phase[c] \notin {"idle", "over", "cancelled"}
        /\ accepted' = accepted
        /\ dropped \subseteq dropped'
        /\ phase[c] = "wait" => Try(c) \in dropped'

\* It goes on, with the answer or without waiting for it.
Turns(c, p) ==
    /\ UNCHANGED <<deskVars, tries>>
    /\ p # "wait" /\ phase' = [phase EXCEPT ![c] = p]
    /\ p = "renew" => phase[c] = "wait"
    /\ c \in Bursters /\ phase[c] \in {"idle", "over", "cancelled"} =>
         p = "over" \/ SeatFor[c] # Nobody
    /\ accepted' = accepted \/ (/\ phase[c] = "wait" /\ call[Try(c)].step = "queued"
                                /\ accepted' = accepted \cup {Try(c)})
    /\ dropped \subseteq dropped'
    /\ phase[c] = "wait" =>
         \/ Try(c) \in accepted' \cup dropped'
         \/ call[Try(c)].step \in {"taken", "required", "unavailable", "error"}

Stays == UNCHANGED <<deskVars, tries, phase, accepted, dropped>>

LEMMA ClientActs ==
    ASSUME DeskInv, NEW c \in Clients, Burst(c) \/ Phase(c) \/ Buy(c)
    PROVE  Sends(c) \/ (\E p \in Phases : Turns(c, p)) \/ Stays
<1> USE DEF Turn
<1>0. /\ phase \in [Clients -> Phases] /\ (phase[c] = "wait" => phase = [phase EXCEPT ![c] = "wait"])
      /\ TriesSent /\ DeskTypes
  BY DEF DeskInv, DeskTypes
<1>1. ASSUME Again(c), UNCHANGED <<deskVars, tries, accepted>>, dropped \subseteq dropped',
             phase[c] \in {"poll again", "wait", "enter again"},
             phase[c] = "wait" =>
               \/ Try(c) \in dropped'
               \/ call[Try(c)].step \in {"taken", "required", "unavailable", "error"}
      PROVE  \E p \in Phases : Turns(c, p)
  <2>1. phase' = [phase EXCEPT ![c] = "commit"] \/ phase' = [phase EXCEPT ![c] = "over"]
    BY <1>1 DEF Again
  <2> QED BY <1>1, <2>1 DEF Turns, Phases
<1>2. ASSUME phase[c] = "wait", Heard(c)
      PROVE  call[Try(c)].step \in {"queued", "taken", "required", "unavailable", "error"}
  BY <1>2 DEF Heard, Answers
<1>3. CASE Poll(c)
  BY <1>3 DEF Poll, Stays
<1>4. CASE Told(c)
  BY <1>1, <1>4 DEF Told, Turns, Stays, Phases
<1>5. CASE GiveUp(c)
  BY <1>1, <1>5 DEF GiveUp, Turns, Phases
<1>6. CASE NoAnswer(c)
  BY <1>1, <1>6 DEF NoAnswer, Turns, Phases
<1>7. CASE Burst(c)
  <2>0. c \in Bursters
    BY <1>7 DEF Burst
  <2>1. CASE Start(c)
    BY <2>1 DEF Start, Turns, Phases
  <2>2. CASE Enter(c)
    BY <2>2 DEF Enter, Turns, Phases
  <2>3. CASE Commit(c)
    <3>1. SeatFor[c] \in Seats
      BY <2>0, <2>3 DEF Commit, DeskInv, SeatsKnown
    <3> QED BY <2>3, <3>1 DEF Commit, Sends
  <2>4. CASE Answered(c)
    BY <1>1, <1>2, <2>4 DEF Answered, Turns, Phases
  <2>5. CASE EnterAgain(c)
    BY <1>1, <2>5 DEF EnterAgain, Turns, Phases
  <2> QED BY <1>3, <1>4, <1>5, <1>6, <1>7, <2>1, <2>2, <2>3, <2>4, <2>5 DEF Burst
<1>8. CASE Phase(c)
  <2>0. c \notin Bursters
    BY <1>8, BurstAssumption DEF Phase
  <2>1. CASE PhasedStart(c)
    BY <2>0, <2>1 DEF PhasedStart, Turns, Phases
  <2>2. CASE PhasedEnter(c)
    BY <2>2 DEF PhasedEnter, Turns, Phases
  <2>3. CASE SecondPhase(c)
    BY <2>3 DEF SecondPhase, Turns, Phases
  <2>4. CASE PhasedCommit(c)
    <3>1. SeatFor[c] = Nobody \/ SeatFor[c] \in Seats
      BY BurstAssumption
    <3> QED BY <2>4, <3>1 DEF PhasedCommit, Sends, Turns, Phases
  <2>5. CASE PhasedAnswered(c)
    BY <1>1, <1>2, <2>5 DEF PhasedAnswered, Turns, Phases
  <2> QED BY <1>3, <1>4, <1>5, <1>6, <1>8, <2>1, <2>2, <2>3, <2>4, <2>5 DEF Phase
<1>9. CASE Buy(c)
  <2>0. c \notin Bursters
    BY <1>9, BurstAssumption DEF Buy
  <2>1. ASSUME phase[c] \in {"wait", "renew"} PROVE call[Try(c)].seat \in Seats
    <3>1. Try(c) \in DOMAIN call
      BY <1>0, <2>1 DEF TriesSent
    <3> QED BY <1>0, <3>1 DEF DeskTypes, CallRecords
  <2>2. CASE TicketStart(c) \/ TicketEnter(c) \/ TicketTold(c)
    BY <2>0, <2>2 DEF TicketStart, TicketEnter, TicketTold, Turns, Stays, Phases
  <2>3. CASE TakeTicket(c, Share(c))
    BY <2>3 DEF TakeTicket, Turns, Phases
  <2>4. CASE AllocSeat(c)
    <3>1. FreeSeats[next] \in Seats
      <4>1. next \in 1..Len(FreeSeats)
        BY <1>0, <2>4, TicketAssumption DEF AllocSeat, DeskTypes
      <4> QED BY <4>1, TicketAssumption
    <3> QED BY <2>4, <3>1 DEF AllocSeat, Sends
  <2>5. CASE TicketAnswered(c)
    BY <1>2, <2>5 DEF TicketAnswered, Done, Turns, Phases
  <2>6. CASE Renewed(c)
    BY <2>1, <2>6 DEF Renewed, Resend, Wants, Done, Sends, Turns, Phases
  <2>7. CASE TicketNoAnswer(c)
    BY <1>0, <2>1, <2>7 DEF TicketNoAnswer, Resend, Wants, Done, Sends, Turns, Phases
  <2> QED BY <1>3, <1>5, <1>9, <2>2, <2>3, <2>4, <2>5, <2>6, <2>7 DEF Buy
<1> QED BY <1>7, <1>8, <1>9

-----------------------------------------------------------------------------
(* Every step keeps the invariant                                          *)

LEMMA SendsKeeps ==
    ASSUME DeskInv, NEW c \in Clients, Sends(c), next' \in Nat \ {0}
    PROVE  DeskInv'
<1>0. PICK h : h = <<c, tries[c] + 1>>
  OBVIOUS
<1>1. PICK seat \in Seats, withRef \in BOOLEAN : Post(h, seat, withRef)
  BY <1>0 DEF Sends
<1>2. /\ tries' = [tries EXCEPT ![c] = @ + 1] /\ phase' = [phase EXCEPT ![c] = "wait"]
      /\ phase[c] \notin {"idle", "over", "cancelled"}
      /\ accepted' = accepted /\ dropped \subseteq dropped'
      /\ phase[c] = "wait" => Try(c) \in dropped'
  BY DEF Sends
<1>3. DeskTypes /\ SeatsKnown /\ TriesSent /\ HoldsKept /\ CallsKnown
  BY DEF DeskInv
<1>4. /\ h \in Calls \ DOMAIN call /\ DOMAIN call' = DOMAIN call \cup {h}
      /\ call'[h] = [step |-> "sent", seat |-> seat, ref |-> withRef]
      /\ \A i \in DOMAIN call : call'[i] = call[i]
      /\ call' \in [DOMAIN call' -> CallRecords]
      /\ UNCHANGED <<holder, sent, keyless, stuck, lapsed>>
  BY <1>1, <1>3 DEF Post, DeskTypes, CallRecords, CallSteps
<1>5. phase'[c] = "wait" /\ tries'[c] = tries[c] + 1 /\ Try(c)' = h
  BY <1>0, <1>2, <1>3 DEF DeskTypes, Try
<1>6. \A d \in Clients \ {c} : phase'[d] = phase[d] /\ Try(d)' = Try(d)
  BY <1>2, <1>3 DEF DeskTypes, Try
<1>7. DeskTypes'
  <2>1. tries' \in [Clients -> Nat] /\ phase' \in [Clients -> Phases]
    <3>1. tries \in [Clients -> Nat] /\ phase \in [Clients -> Phases]
      BY <1>3 DEF DeskTypes
    <3>2. tries[c] \in Nat
      BY <3>1
    <3>3. tries[c] + 1 \in Nat /\ "wait" \in Phases
      BY <3>2 DEF Phases
    <3> QED BY <1>2, <3>1, <3>3
  <2> QED BY <1>3, <1>4, <2>1 DEF DeskTypes
<1>8. SeatsKnown'
  BY <1>2, <1>3, <1>6, BurstAssumption DEF SeatsKnown
<1>9. TriesSent'
  BY <1>3, <1>4, <1>5, <1>6 DEF TriesSent
<1>10. HoldsKept'
  <2>1. call'[h].step = "sent"
    BY <1>4
  <2> QED BY <1>2, <1>3, <1>4, <2>1 DEF HoldsKept
<1>11. CallsKnown'
  <2>1. ASSUME NEW i \in DOMAIN call', i # h
        PROVE  i \in accepted' \cup dropped' \/ Waits(i)'
                 \/ call'[i].step \in {"taken", "required", "unavailable", "error"}
    <3>1. i \in DOMAIN call /\ call'[i] = call[i] /\ Client(i) \in Clients
      BY <1>3, <1>4, <2>1 DEF DeskTypes, Calls, Client
    <3>2. CASE Waits(i) /\ Client(i) = c
      BY <1>2, <3>2 DEF Waits
    <3>3. CASE Waits(i) /\ Client(i) # c
      BY <1>6, <3>1, <3>3 DEF Waits
    <3> QED BY <1>2, <1>3, <3>1, <3>2, <3>3 DEF CallsKnown
  <2>2. Waits(h)'
    BY <1>0, <1>5 DEF Waits, Client
  <2>3. \A s \in Seats : holder'[s] # Nobody =>
            /\ holder'[s] \in DOMAIN call' /\ call'[holder'[s]].seat = s
            /\ \/ call'[holder'[s]].step \in {"held", "queued", "releasing", "lost"}
               \/ call'[holder'[s]].step = "error" /\ holder'[s] \in stuck'
    BY <1>3, <1>4 DEF CallsKnown
  <2> QED BY <2>1, <2>2, <2>3 DEF CallsKnown
<1> QED BY <1>7, <1>8, <1>9, <1>10, <1>11 DEF DeskInv

LEMMA TurnsKeeps ==
    ASSUME DeskInv, NEW c \in Clients, NEW p \in Phases, Turns(c, p), next' \in Nat \ {0}
    PROVE  DeskInv'
<1>1. /\ UNCHANGED <<deskVars, tries>> /\ p # "wait" /\ phase' = [phase EXCEPT ![c] = p]
      /\ p = "renew" => phase[c] = "wait"
      /\ c \in Bursters /\ phase[c] \in {"idle", "over", "cancelled"} =>
           p = "over" \/ SeatFor[c] # Nobody
      /\ accepted' = accepted \/ (/\ phase[c] = "wait" /\ call[Try(c)].step = "queued"
                                  /\ accepted' = accepted \cup {Try(c)})
      /\ dropped \subseteq dropped'
      /\ phase[c] = "wait" =>
           \/ Try(c) \in accepted' \cup dropped'
           \/ call[Try(c)].step \in {"taken", "required", "unavailable", "error"}
  BY DEF Turns
<1>2. DeskTypes /\ SeatsKnown /\ TriesSent /\ HoldsKept /\ CallsKnown
  BY DEF DeskInv
<1>3. phase'[c] = p /\ \A d \in Clients \ {c} : phase'[d] = phase[d]
  BY <1>1, <1>2 DEF DeskTypes
<1>4. \A d \in Clients : Try(d)' = Try(d)
  BY <1>1 DEF Try
<1>5. DeskTypes'
  BY <1>1, <1>2 DEF DeskTypes
<1>6. SeatsKnown'
  BY <1>1, <1>2, <1>3, BurstAssumption DEF SeatsKnown
<1>7. TriesSent'
  BY <1>1, <1>2, <1>3, <1>4 DEF TriesSent
<1>8. HoldsKept'
  BY <1>1, <1>2 DEF HoldsKept, TriesSent
<1>9. CallsKnown'
  <2>1. ASSUME NEW i \in DOMAIN call
        PROVE  i \in accepted' \cup dropped' \/ Waits(i)'
                 \/ call[i].step \in {"taken", "required", "unavailable", "error"}
    <3>1. Client(i) \in Clients
      BY <1>2 DEF DeskTypes, Calls, Client
    <3>2. CASE Waits(i) /\ Client(i) = c
      BY <1>1, <3>2 DEF Waits
    <3>3. CASE Waits(i) /\ Client(i) # c
      BY <1>3, <1>4, <3>1, <3>3 DEF Waits
    <3> QED BY <1>1, <1>2, <3>2, <3>3 DEF CallsKnown
  <2> QED BY <1>1, <1>2, <2>1 DEF CallsKnown
<1> QED BY <1>5, <1>6, <1>7, <1>8, <1>9 DEF DeskInv

\* write-api goes on with a commit nobody else works on.
ServeSteps(h) ==
    CheckPermit(h) \/ CheckAgain(h) \/ Hold(h) \/ Send(h) \/ Release(h) \/ RedisFails(h) \/ CallDies(h)

\* What that is to the seat: nothing, the end of the commit included; its key set, or
\* thought to be set; its message sent, or its key about to be deleted, or deleted.
Serves(h, x) ==
    LET seat == call[h].seat
    IN  \/ /\ holder' = holder /\ x \notin {"held", "queued", "releasing"}
           /\ call[h].step = "held" => x = "lost" \/ (x = "error" /\ holder[seat] # h)
           /\ call[h].step = "releasing" => x = "lost" \/ (x = "error" /\ h \in stuck')
        \/ /\ call[h].step = "passed" /\ x = "held" /\ holder[seat] = Nobody
           /\ holder' = [holder EXCEPT ![seat] = h]
        \/ /\ call[h].step = "passed" /\ x = "held" /\ holder' = holder /\ h \in keyless'
        \/ /\ call[h].step = "held" /\ holder' = holder
           /\ \/ x = "queued" /\ h \in sent'
              \/ x = "releasing" /\ holder[seat] = h
        \/ /\ call[h].step = "releasing" /\ x = "error"
           /\ holder' = [holder EXCEPT ![seat] = Nobody]

LEMMA ServeActs ==
    ASSUME NEW h \in DOMAIN call, ServeSteps(h)
    PROVE  /\ sent \subseteq sent' /\ keyless \subseteq keyless' /\ stuck \subseteq stuck'
           /\ lapsed' = lapsed
           /\ call[h].step \in {"sent", "asking", "passed", "held", "releasing"}
           /\ \E x \in CallSteps : To(h, x) /\ Serves(h, x)
<1>1. CASE CheckPermit(h) \/ CheckAgain(h)
  BY <1>1 DEF CheckPermit, CheckAgain, In, CallSteps, Answers, Serves
<1>2. CASE Hold(h)
  BY <1>2 DEF Hold, In, Wants, CallSteps, Answers, Serves
<1>3. CASE Send(h)
  <2>1. /\ call[h].step = "held" /\ UNCHANGED <<holder, keyless, stuck, lapsed>>
        /\ sent \subseteq sent'
        /\ \/ h \in sent' /\ To(h, "queued")
           \/ holder[call[h].seat] = h /\ To(h, "releasing")
           \/ holder[call[h].seat] # h /\ To(h, "error")
    BY <1>3 DEF Send, In, Wants
  <2>2. {"queued", "releasing", "error"} \subseteq CallSteps
    BY DEF CallSteps, Answers
  <2>3. CASE h \in sent' /\ To(h, "queued")
    BY <2>1, <2>2, <2>3 DEF Serves
  <2>4. CASE holder[call[h].seat] = h /\ To(h, "releasing")
    BY <2>1, <2>2, <2>4 DEF Serves
  <2>5. CASE holder[call[h].seat] # h /\ To(h, "error")
    BY <2>1, <2>2, <2>5 DEF Serves
  <2> QED BY <2>1, <2>3, <2>4, <2>5
<1>4. CASE Release(h)
  BY <1>4 DEF Release, In, Wants, CallSteps, Answers, Serves
<1>5. CASE RedisFails(h)
  BY <1>5 DEF RedisFails, In, Wants, CallSteps, Answers, Serves
<1>6. CASE CallDies(h)
  BY <1>6 DEF CallDies, In, CallSteps, Answers, Serves
<1> QED BY <1>1, <1>2, <1>3, <1>4, <1>5, <1>6 DEF ServeSteps

LEMMA ServeKeeps ==
    ASSUME DeskInv, NEW h \in DOMAIN call, ServeSteps(h), UNCHANGED <<clientVars, ticketVars>>
    PROVE  DeskInv'
<1>1. DeskTypes /\ SeatsKnown /\ TriesSent /\ HoldsKept /\ CallsKnown
  BY DEF DeskInv
<1>2. call[h] \in CallRecords /\ h \in Calls /\ Nobody # h
  BY <1>1, DeskAssumption DEF DeskTypes
<1> DEFINE own == call[h].seat
<1>3. /\ sent \subseteq sent' /\ keyless \subseteq keyless' /\ stuck \subseteq stuck'
      /\ lapsed' = lapsed /\ call[h].step \in {"sent", "asking", "passed", "held", "releasing"}
  BY ServeActs
<1>4. PICK x \in CallSteps : To(h, x) /\ Serves(h, x)
  BY ServeActs
<1>5. /\ DOMAIN call' = DOMAIN call /\ call'[h].step = x /\ call'[h].seat = own /\ own \in Seats
      /\ \A i \in DOMAIN call \ {h} : call'[i] = call[i]
      /\ call' \in [DOMAIN call -> CallRecords]
  BY <1>1, <1>2, <1>4 DEF To, DeskTypes, CallRecords
<1>6. DeskTypes'
  <2>1. holder' \in [Seats -> Calls \cup {Nobody}]
    BY <1>1, <1>2, <1>4 DEF DeskTypes, Serves
  <2> QED BY <1>1, <1>5, <2>1 DEF DeskTypes
<1>7. SeatsKnown' /\ TriesSent'
  BY <1>1, <1>5 DEF SeatsKnown, TriesSent, Try
<1>8. \A s \in Seats \ {own} : holder'[s] = holder[s]
  BY <1>1, <1>4 DEF DeskTypes, Serves
<1>9. HoldsKept'
  <2>1. ASSUME NEW i \in DOMAIN call, i # h, call[i].step \in {"held", "queued", "releasing"},
               holder[call[i].seat] = i
        PROVE  holder'[call[i].seat] = i \/ call[i].seat \in lapsed
    <3>1. call[i].seat \in Seats /\ i # Nobody
      BY <1>1, DeskAssumption DEF DeskTypes, CallRecords
    <3>2. CASE call[i].seat # own
      BY <1>8, <2>1, <3>1, <3>2
    <3>3. CASE call[i].seat = own
      <4>1. call[h].step = "releasing" => own \in lapsed
        BY <1>1, <2>1, <3>3 DEF HoldsKept
      <4> QED BY <1>4, <2>1, <3>1, <3>3, <4>1 DEF Serves
    <3> QED BY <3>2, <3>3
  <2>2. ASSUME NEW i \in DOMAIN call, i # h, call[i].step \in {"held", "queued", "releasing"}
        PROVE  \/ holder'[call[i].seat] = i \/ call[i].seat \in lapsed
               \/ i \in keyless /\ call[i].step # "releasing"
    BY <1>1, <2>1, <2>2 DEF HoldsKept
  <2>3. x \in {"held", "queued", "releasing"} =>
             \/ holder'[own] = h \/ own \in lapsed
             \/ h \in keyless' /\ x # "releasing"
    <3>1. call[h].step = "held" => holder[own] = h \/ own \in lapsed \/ h \in keyless
      BY <1>1 DEF HoldsKept
    <3>2. holder' = [holder EXCEPT ![own] = h] => holder'[own] = h
      BY <1>1, <1>5 DEF DeskTypes
    <3> QED BY <1>3, <1>4, <3>1, <3>2 DEF Serves
  <2>4. x = "queued" => h \in sent'
    BY <1>4 DEF Serves
  <2>5. \A i \in accepted : i # h
    BY <1>1, <1>3 DEF HoldsKept
  <2> QED BY <1>1, <1>3, <1>5, <2>2, <2>3, <2>4, <2>5 DEF HoldsKept
<1>10. CallsKnown'
  <2>1. \A i \in DOMAIN call : Waits(i)' <=> Waits(i)
    BY DEF Waits, Try
  <2>2. call[h].step \notin {"taken", "required", "unavailable", "error"}
    BY <1>3
  <2>3. \A i \in DOMAIN call' : i \in accepted' \cup dropped' \/ Waits(i)'
            \/ call'[i].step \in {"taken", "required", "unavailable", "error"}
    BY <1>1, <1>5, <2>1, <2>2 DEF CallsKnown
  <2>4. ASSUME NEW s \in Seats, holder'[s] # Nobody
        PROVE  /\ holder'[s] \in DOMAIN call' /\ call'[holder'[s]].seat = s
               /\ \/ call'[holder'[s]].step \in {"held", "queued", "releasing", "lost"}
                  \/ call'[holder'[s]].step = "error" /\ holder'[s] \in stuck'
    <3>1. CASE holder'[s] = holder[s] /\ holder[s] # h
      BY <1>1, <1>3, <1>5, <2>4, <3>1 DEF CallsKnown
    <3>2. CASE holder'[s] = holder[s] /\ holder[s] = h
      <4>1. s = own /\ call[h].step \in {"held", "releasing"}
        BY <1>1, <1>3, <2>4, <3>2 DEF CallsKnown
      <4>2. holder' # [holder EXCEPT ![own] = Nobody]
        BY <1>1, <1>5, <2>4, <4>1 DEF DeskTypes
      <4> QED BY <1>4, <1>5, <3>2, <4>1, <4>2 DEF Serves
    <3>3. CASE holder'[s] # holder[s]
      <4>1. s = own
        BY <1>8, <3>3
      <4>2. holder' # holder /\ holder' # [holder EXCEPT ![own] = Nobody]
        BY <1>1, <1>5, <2>4, <3>3, <4>1 DEF DeskTypes
      <4>3. x = "held" /\ holder' = [holder EXCEPT ![own] = h]
        BY <1>4, <4>2 DEF Serves
      <4> QED BY <1>1, <1>5, <4>1, <4>3 DEF DeskTypes
    <3> QED BY <3>1, <3>2, <3>3
  <2> QED BY <2>3, <2>4 DEF CallsKnown
<1> QED BY <1>6, <1>7, <1>9, <1>10 DEF DeskInv

\* A key expires: its seat is among those where one did.
LEMMA ExpiryKeeps ==
    ASSUME DeskInv, NEW s \in Seats, KeyExpires(s), UNCHANGED <<clientVars, ticketVars>>
    PROVE  DeskInv'
<1>1. DeskTypes /\ SeatsKnown /\ TriesSent /\ HoldsKept /\ CallsKnown
  BY DEF DeskInv
<1>2. /\ holder' = [holder EXCEPT ![s] = Nobody] /\ lapsed' = lapsed \cup {s}
      /\ UNCHANGED <<call, sent, keyless, stuck>>
  BY DEF KeyExpires
<1>3. DeskTypes' /\ \A z \in Seats : holder'[z] = IF z = s THEN Nobody ELSE holder[z]
  BY <1>1, <1>2 DEF DeskTypes
<1>4. SeatsKnown' /\ TriesSent'
  BY <1>1, <1>2 DEF SeatsKnown, TriesSent, Try
<1>5. HoldsKept'
  <2>1. \A h \in DOMAIN call : call[h].seat \in Seats
    BY <1>1 DEF DeskTypes, CallRecords
  <2> QED BY <1>1, <1>2, <1>3, <2>1 DEF HoldsKept
<1>6. CallsKnown'
  <2>1. \A h : Waits(h)' <=> Waits(h)
    BY <1>2 DEF Waits, Try
  <2> QED BY <1>1, <1>2, <1>3, <2>1 DEF CallsKnown
<1> QED BY <1>3, <1>4, <1>5, <1>6 DEF DeskInv

LEMMA InterruptKeeps ==
    ASSUME DeskInv, Interrupt
    PROVE  DeskInv'
<1>1. DeskTypes /\ SeatsKnown /\ TriesSent /\ HoldsKept /\ CallsKnown
  BY DEF DeskInv
<1>2. /\ UNCHANGED <<deskVars, ticketVars, tries, accepted>>
      /\ phase' = [c \in Clients |-> IF c \in Users /\ phase[c] \notin Ended
                                     THEN "cancelled" ELSE phase[c]]
      /\ dropped' = dropped \cup {Try(c) : c \in {d \in Users : phase[d] = "wait"}}
  BY DEF Interrupt
<1>3. \A c \in Clients : /\ Try(c)' = Try(c)
                         /\ phase'[c] = phase[c] \/ phase'[c] = "cancelled"
                         /\ phase'[c] # phase[c] => c \in Users
  BY <1>2 DEF Try
<1>4. DeskTypes'
  BY <1>1, <1>2 DEF DeskTypes, Phases
<1>5. SeatsKnown' /\ TriesSent' /\ HoldsKept'
  BY <1>1, <1>2, <1>3, BurstAssumption DEF SeatsKnown, TriesSent, HoldsKept
<1>6. CallsKnown'
  <2>1. ASSUME NEW h \in DOMAIN call, Waits(h), ~Waits(h)' PROVE h \in dropped'
    <3>1. Client(h) \in Clients
      BY <1>1 DEF DeskTypes, Calls, Client
    <3>2. phase[Client(h)] = "wait" /\ Client(h) \in Users /\ Try(Client(h)) = h
      BY <1>3, <2>1, <3>1 DEF Waits
    <3> QED BY <1>2, <3>2
  <2> QED BY <1>1, <1>2, <2>1 DEF CallsKnown
<1> QED BY <1>4, <1>5, <1>6 DEF DeskInv

LEMMA DeskInvStep ==
    ASSUME DeskInv, [Next]_vars
    PROVE  DeskInv'
<1>1. ASSUME UNCHANGED <<deskVars, tries, phase, accepted, dropped>>, next' \in Nat \ {0}
      PROVE  DeskInv'
  <2>1. \A c : Try(c)' = Try(c)
    BY <1>1 DEF Try
  <2>2. \A h : Waits(h)' <=> Waits(h)
    BY <1>1, <2>1 DEF Waits
  <2> QED BY <1>1, <2>1, <2>2 DEF DeskInv, DeskTypes, SeatsKnown, TriesSent, HoldsKept, CallsKnown
<1>2. next \in Nat \ {0}
  BY DEF DeskInv, DeskTypes
<1>3. ASSUME NEW c \in Clients, Burst(c) \/ Phase(c) \/ Buy(c) PROVE DeskInv'
  <2>1. next' \in Nat \ {0}
    <3>1. CASE Burst(c) \/ Phase(c)
      BY <1>2, <3>1 DEF Burst, Phase, Rest
    <3>2. CASE Buy(c)
      <4>1. next' = next \/ next' = next + 1
        BY <3>2 DEF Buy, TicketStart, TicketEnter, TicketTold, TakeTicket, AllocSeat,
                    TicketAnswered, Renewed, TicketNoAnswer
      <4> QED BY <1>2, <4>1
    <3> QED BY <1>3, <3>1, <3>2
  <2> QED BY <1>1, <1>3, <2>1, ClientActs, SendsKeeps, TurnsKeeps DEF Stays
<1>4. ASSUME NEW h \in DOMAIN call, Serve(h) \/ ServeFails(h) \/ PodDies(h) PROVE DeskInv'
  BY <1>4, ServeKeeps DEF Serve, ServeFails, PodDies, ServeSteps
<1>5. ASSUME NEW p \in DOMAIN polls, Gate(p) \/ GateFails(p) PROVE DeskInv'
  BY <1>1, <1>2, <1>5 DEF Gate, GateFails
<1>6. CASE Tick \/ ScriptStep \/ Order \/ Expires \/ Monitor \/ UNCHANGED vars
  BY <1>1, <1>2, <1>6 DEF Tick, ScriptStep, PrepareReset, PrepareControl, UsersEnd, Drain, Restore,
     Quiet, Order, Expires, Monitor, vars
<1>7. ASSUME NEW s \in Seats, HoldExpires(s) PROVE DeskInv'
  BY <1>7, ExpiryKeeps DEF HoldExpires
<1> QED BY <1>3, <1>4, <1>5, <1>6, <1>7, InterruptKeeps DEF Next

-----------------------------------------------------------------------------
\* Whoever was told QUEUED has its message in the queue and its seat on hold, for
\* any users, seats and scripts, and whatever timeouts, retries, interrupts, stopped
\* pods and failing releases do to their other commits; where Redis failed when its
\* own key was to be set, or a key of the seat expired, it has the message only
\* (commit_concert_booking, hold_seats, _SafeRedisPipeline.execute, _one).
THEOREM QueuedIsKept == Spec => []AcceptedIsHeld
<1>1. DeskInv => AcceptedIsHeld
  BY DEF DeskInv, HoldsKept, AcceptedIsHeld, Wants
<1>2. DeskInv /\ [Next]_vars => DeskInv'
  BY DeskInvStep
<1> QED BY <1>1, <1>2, DeskInvInit, PTL DEF Spec

\* A seat on hold that no client knows of was asked for by a commit whose answer
\* somebody did not wait for, or whose message was refused while Redis failed too,
\* which the client heard as 500: a commit refused in any other way leaves no hold,
\* whatever keys expire meanwhile (hold_seats, release_seats).
THEOREM HoldsAreKnown == Spec => []HoldIsKnown
<1>1. DeskInv => HoldIsKnown
  BY DEF DeskInv, CallsKnown, HoldIsKnown, Waits
<1>2. DeskInv /\ [Next]_vars => DeskInv'
  BY DeskInvStep
<1> QED BY <1>1, <1>2, DeskInvInit, PTL DEF Spec

-----------------------------------------------------------------------------
(* The end of a script                                                     *)

Given(ctl) == ctl.mode = "AUTO" /\ ctl.enabled

HandedInv ==
    /\ plan \in {"burst", "phased", "tickets"} /\ orders \in Nat
    /\ script = "restore write" /\ orders = 0 => Given(edit[Script])
    /\ script = "over" /\ plan # "phased" /\ stopped \subseteq {"run"} /\ ~kept /\ orders = 0 =>
          Given(control)

LEMMA HandedStep ==
    ASSUME LoadTypes, HandedInv, [Next]_vars
    PROVE  HandedInv'
<1>1. ASSUME UNCHANGED <<script, stopped, orders, edit, plan, kept>>,
             control' = control \/ script # "over"
      PROVE  HandedInv'
  BY <1>1 DEF HandedInv
<1>2. ASSUME script' \notin {"restore write", "over"}, UNCHANGED <<orders, plan>>
      PROVE  HandedInv'
  BY <1>2 DEF HandedInv
<1>3. After \notin {"restore write"} /\ (After = "over" => plan = "phased")
  BY DEF After, HandedInv
<1>4. CASE ScriptStep
  <2>1. CASE PrepareReset \/ PrepareControl \/ Drain
    <3>1. CASE script' = script
      BY <1>1, <2>1, <3>1 DEF PrepareReset, PrepareControl, Drain, Quiet, Step
    <3>2. CASE script' # script
      BY <1>2, <2>1, <3>2 DEF PrepareReset, PrepareControl, Drain, Quiet, Step
    <3> QED BY <3>1, <3>2
  <2>2. CASE UsersEnd
    BY <1>3, <2>2 DEF UsersEnd, Step, Quiet, HandedInv
  <2>3. CASE script = "restore" /\ Restore
    <3>1. /\ script' = "restore write" /\ orders' = orders
          /\ edit' = [edit EXCEPT ![Script] = [mode |-> "AUTO", enabled |-> TRUE, rate |-> control.rate]]
      BY <2>3 DEF Restore, Step, Edit, Quiet
    <3>2. edit'[Script] = [mode |-> "AUTO", enabled |-> TRUE, rate |-> control.rate]
      BY <3>1 DEF LoadTypes
    <3>3. edit'[Script].mode = "AUTO" /\ edit'[Script].enabled
      BY <3>2
    <3>4. plan' = plan
      BY <2>3 DEF Restore, Quiet
    <3> QED BY <3>1, <3>3, <3>4 DEF HandedInv, Given
  <2>4. CASE script = "restore write" /\ Restore
    BY <2>4 DEF Restore, Step, Quiet, HandedInv, WriteControl
  <2> QED BY <1>4, <2>1, <2>2, <2>3, <2>4 DEF ScriptStep, Restore
<1>5. CASE Interrupt
  <2>1. CASE script = "run"
    BY <1>3, <1>5, <2>1 DEF Interrupt, Step, HandedInv
  <2>2. CASE script # "run"
    <3>1. script' = "over" /\ script \in stopped' /\ UNCHANGED <<plan, orders>>
      BY <1>5, <2>2 DEF Interrupt, Step
    <3> QED BY <2>2, <3>1 DEF HandedInv
  <2> QED BY <2>1, <2>2
<1>6. CASE Order
  <2>1. orders' = orders + 1 /\ plan' = plan
    BY Zenon, <1>6 DEF Order
  <2>2. orders' # 0 /\ orders' \in Nat
    <3>1. orders \in Nat
      BY DEF HandedInv
    <3> QED BY <2>1, <3>1
  <2>3. plan' \in {"burst", "phased", "tickets"}
    BY <2>1 DEF HandedInv
  <2> QED BY Zenon, <2>2, <2>3 DEF HandedInv
<1>7. ASSUME UNCHANGED scriptVars, UNCHANGED control PROVE HandedInv'
  BY <1>7 DEF HandedInv
<1>8. ASSUME NEW p \in DOMAIN polls, Gate(p) \/ GateFails(p) PROVE HandedInv'
  BY <1>7, <1>8 DEF Gate, GateFails, ReadClock, WriteClock, PollFails
<1>9. ASSUME NEW h \in DOMAIN call, Serve(h) \/ ServeFails(h) \/ PodDies(h) PROVE HandedInv'
  <2>1. UNCHANGED control
    BY <1>9 DEF Serve, ServeFails, PodDies, CheckPermit, CheckAgain, Ask, Read, Hold, Send, Release,
                RedisFails, CallDies
  <2> QED BY <1>7, <1>9, <2>1 DEF Serve, ServeFails, PodDies
<1>10. ASSUME NEW c \in Clients, Burst(c) \/ Phase(c) \/ Buy(c)
       PROVE  HandedInv'
  <2>1. CASE Burst(c)
    BY <1>7, <2>1 DEF Burst, Rest, Start, Enter, Poll, Told, GiveUp, Commit, Answered,
                      EnterAgain, NoAnswer, NewRef, LostRef, Ask, Read
  <2>2. CASE Phase(c)
    BY <1>7, <2>2 DEF Phase, Rest, PhasedStart, PhasedEnter, SecondPhase, Poll, Told, GiveUp,
                      PhasedCommit, PhasedAnswered, NoAnswer, NewRef, LostRef, Ask, Read
  <2>3. CASE Buy(c)
    BY <1>7, <2>3 DEF Buy, TicketStart, TicketEnter, TicketTold, TakeTicket, AllocSeat,
                      TicketAnswered, Renewed, TicketNoAnswer, Poll, GiveUp, NewRef, LostRef, Ask, Read
  <2> QED BY <1>10, <2>1, <2>2, <2>3
<1>11. CASE Tick \/ Expires \/ Monitor \/ UNCHANGED vars
  BY <1>7, <1>11 DEF Tick, Expires, Monitor, RefExpires, PermitExpires, Observe, vars
<1>12. ASSUME NEW s \in Seats, HoldExpires(s) PROVE HandedInv'
  BY <1>7, <1>12 DEF HoldExpires, KeyExpires
<1> QED BY <1>4, <1>5, <1>6, <1>8, <1>9, <1>10, <1>11, <1>12 DEF Next

\* A script that ended without an error of its last call, having been stopped while
\* its users ran or not at all, has put the control back to AUTO and open, while no
\* operator gave an order (the finally of the burst test, the end of the ticket
\* test). One that was stopped in any other step need not have.
THEOREM RoomGivenBack == Spec => []RoomIsHandedBack
<1>1. Init => LoadTypes /\ HandedInv
  <2>1. Init => script \notin {"restore write", "over"} /\ orders \in Nat
    <3>1. FirstSteps \subseteq {"run", "reset"}
      BY DEF FirstSteps
    <3>2. Init => script \in FirstSteps
      BY Zenon DEF Init
    <3>3. Init => orders = 0
      BY Zenon DEF Init
    <3>4. FirstSteps \cap {"restore write", "over"} = {}
      BY <3>1
    <3> QED BY Zenon, <3>2, <3>3, <3>4, 0 \in Nat
  <2>2. Init => plan \in {"burst", "phased", "tickets"}
    BY Zenon DEF Init
  <2> QED BY <2>1, <2>2, InitTypes DEF HandedInv
<1>2. LoadTypes /\ HandedInv /\ [Next]_vars => LoadTypes' /\ HandedInv'
  BY TypesStep, HandedStep
<1>3. HandedInv => RoomIsHandedBack
  <2> SUFFICES ASSUME HandedInv, script = "over", plan # "phased", stopped \subseteq {"run"},
                      ~kept, orders = 0
               PROVE  control.mode = "AUTO" /\ control.enabled
    BY DEF RoomIsHandedBack
  <2>1. Given(control)
    BY Zenon DEF HandedInv
  <2> QED BY ONLY Zenon, <2>1 DEF Given
<1> QED BY <1>1, <1>2, <1>3, PTL DEF Spec

-----------------------------------------------------------------------------
(* Seats that only one user asks for                                       *)

\* Who sends commits for the seat it was given when the script began: the users
\* of the burst test while it runs, and the browsers, which are there always.
Askers == Phased \cup (IF plan = "burst" THEN Bursters ELSE {})

\* Client c takes part, or has.
Comes(c) == phase[c] # "cancelled" \/ \E h \in DOMAIN call : Client(h) = c

\* The users that take part were given different seats, and the seats that were
\* found free are none of theirs and found once.
SeatsApart ==
    /\ \A c, d \in Askers : c # d /\ Comes(c) /\ Comes(d) /\ SeatFor[c] = SeatFor[d] =>
                              SeatFor[c] = Nobody
    /\ plan = "tickets" => \A c \in Askers : Comes(c) =>
                              \A n \in 1..Len(FreeSeats) : FreeSeats[n] # SeatFor[c]
    /\ \A m, n \in 1..Len(FreeSeats) : FreeSeats[m] = FreeSeats[n] => m = n

\* Where the seat of a commit comes from, and that no two clients want one.
Assigned(h) == Client(h) \in Askers /\ Wants(h) = SeatFor[Client(h)]
Bought(h) == /\ Client(h) \in Buyers /\ plan = "tickets"
             /\ \E n \in 1..Len(FreeSeats) : n < next /\ Wants(h) = FreeSeats[n]

CallsApart ==
    /\ \A h \in DOMAIN call : Assigned(h) \/ Bought(h)
    /\ \A h, i \in DOMAIN call : Wants(h) = Wants(i) => Client(h) = Client(i)

\* A commit whose user goes on to try again: it did not wait, or heard of a failure.
Refused == {"required", "unavailable", "error"}
Gone(h) == h \in dropped \/ call[h].step \in Refused

\* What lets a commit h find its seat taken by i of the same user.
Met(h, i) == {h, i} \cap dropped # {} \/ i \in stuck

\* A client sends one commit after the other, and the same again only when the
\* last one is gone.
InSequence ==
    /\ \A h \in DOMAIN call : h[2] <= tries[Client(h)] /\ Try(Client(h)) \in DOMAIN call
    /\ \A h, i \in DOMAIN call :
         Client(h) = Client(i) /\ Wants(h) = Wants(i) /\ h[2] < i[2] => Gone(h)
    /\ \A c \in Clients : Try(c) \in DOMAIN call =>
         phase[c] \in {"wait", "over", "cancelled", "buy", "seat"} \/ Gone(Try(c))

ApartInv == SeatsApart /\ CallsApart /\ InSequence /\ TakenIsOwn

\* Client c sends a commit for its own seat, for the next one, or the last again.
Asks(c) ==
    \E seat \in Seats, withRef \in BOOLEAN :
        /\ Post(<<c, tries[c] + 1>>, seat, withRef)
        /\ tries' = [tries EXCEPT ![c] = @ + 1]
        /\ \/ c \in Askers /\ seat = SeatFor[c] /\ phase[c] = "commit" /\ next' = next
           \/ /\ c \in Buyers /\ plan = "tickets"
              /\ next \in 1..Len(FreeSeats) /\ seat = FreeSeats[next] /\ next' = next + 1
           \/ /\ c \in Buyers /\ plan = "tickets" /\ next' = next
              /\ Try(c) \in DOMAIN call /\ seat = Wants(Try(c))
              /\ phase[c] = "renew" \/ Try(c) \in dropped'
        /\ \E p \in Phases : phase' = [phase EXCEPT ![c] = p] /\ p = "wait"

\* Client c goes on; after a commit that is not gone it sends no more, or not for
\* the same seat.
Moves(c) ==
    /\ UNCHANGED <<deskVars, tries, next>>
    /\ \E p \in Phases :
         /\ phase' = [phase EXCEPT ![c] = p]
         /\ \/ p \in {"wait", "over", "buy", "seat"}
            \/ phase[c] \notin {"wait", "over", "buy", "seat"}
            \/ phase[c] = "wait" /\ Gone(Try(c))'

LEMMA ClientApart ==
    ASSUME DeskInv, NEW c \in Clients, Burst(c) \/ Phase(c) \/ Buy(c)
    PROVE  /\ phase[c] # "cancelled" /\ UNCHANGED plan /\ dropped \subseteq dropped'
           /\ Asks(c) \/ Moves(c)
<1> USE DEF Turn
<1>0. /\ phase \in [Clients -> Phases] /\ TriesSent /\ DeskTypes
      /\ phase = [phase EXCEPT ![c] = phase[c]] /\ phase[c] \in Phases
  BY DEF DeskInv, DeskTypes
<1>1. ASSUME Again(c), UNCHANGED <<deskVars, tries, next>>,
             phase[c] \in {"poll again", "wait", "enter again"},
             phase[c] = "wait" => Gone(Try(c))'
      PROVE  Moves(c)
  <2>1. phase' = [phase EXCEPT ![c] = "commit"] \/ phase' = [phase EXCEPT ![c] = "over"]
    BY <1>1 DEF Again
  <2> QED BY <1>1, <2>1 DEF Moves, Phases
<1>2. ASSUME phase[c] = "wait", Heard(c), UNCHANGED <<deskVars, tries>>,
             call[Try(c)].step \notin {"queued", "taken"}
      PROVE  Gone(Try(c))'
  BY <1>2 DEF Heard, Answers, Gone, Refused, Try
<1>3. ASSUME phase[c] = "wait", UNCHANGED <<deskVars, tries>>, dropped' = dropped \cup {Try(c)}
      PROVE  Gone(Try(c))'
  BY <1>3 DEF Gone, Try
<1>4. CASE Poll(c) /\ UNCHANGED <<next, plan>>
  <2>1. UNCHANGED <<phase, deskVars, tries, next, plan, dropped>> /\ phase[c] \in {"poll", "poll again"}
    BY <1>4 DEF Poll
  <2> QED BY <1>0, <2>1 DEF Moves
<1>5. CASE (Burst(c) \/ Phase(c)) /\ Told(c)
  <2>1. UNCHANGED <<deskVars, tries, next, plan, dropped>> /\ phase[c] \in {"poll", "poll again"}
    BY <1>5 DEF Told, Burst, Phase, Rest
  <2>2. CASE UNCHANGED phase
    BY <1>0, <2>1, <2>2 DEF Moves
  <2>3. CASE phase' = [phase EXCEPT ![c] = "commit"]
    BY <2>1, <2>3 DEF Moves, Phases
  <2>4. CASE phase[c] # "poll" /\ Again(c)
    BY <1>1, <2>1, <2>4
  <2> QED BY <1>5, <2>1, <2>2, <2>3, <2>4 DEF Told
<1>6. CASE GiveUp(c) /\ UNCHANGED <<next, plan>>
  <2>1. UNCHANGED <<deskVars, tries, next, plan, dropped>> /\ phase[c] \in {"poll", "poll again"}
    BY <1>6 DEF GiveUp
  <2>2. CASE phase' = [phase EXCEPT ![c] = "over"]
    BY <2>1, <2>2 DEF Moves, Phases
  <2>3. CASE phase[c] # "poll" /\ Again(c)
    BY <1>1, <2>1, <2>3
  <2> QED BY <1>6, <2>1, <2>2, <2>3 DEF GiveUp
<1>7. CASE (Burst(c) \/ Phase(c)) /\ NoAnswer(c)
  <2>1. /\ UNCHANGED <<deskVars, tries, next, plan>> /\ dropped' = dropped \cup {Try(c)}
        /\ phase[c] = "wait"
    BY <1>7 DEF NoAnswer, Burst, Phase, Rest
  <2>2. CASE phase' = [phase EXCEPT ![c] = "over"]
    BY <2>1, <2>2 DEF Moves, Phases
  <2>3. CASE Again(c)
    BY <1>1, <1>3, <2>1, <2>3
  <2> QED BY <1>7, <2>1, <2>2, <2>3 DEF NoAnswer
<1>8. CASE Burst(c)
  <2>0. c \in Bursters /\ plan = "burst" /\ UNCHANGED <<plan, next>> /\ c \in Askers
    BY <1>8 DEF Burst, Rest, Askers
  <2>1. CASE Start(c)
    BY <2>0, <2>1 DEF Start, Moves, Phases
  <2>2. CASE Enter(c)
    BY <2>0, <2>2 DEF Enter, Moves, Phases
  <2>3. CASE Commit(c)
    <3>1. SeatFor[c] \in Seats
      BY <2>0, <2>3 DEF Commit, DeskInv, SeatsKnown
    <3>2. phase' = [phase EXCEPT ![c] = "wait"] /\ "wait" \in Phases
      BY <2>3 DEF Commit, Phases
    <3> QED BY <2>0, <2>3, <3>1, <3>2 DEF Commit, Asks
  <2>4. CASE Answered(c)
    <3>1. UNCHANGED <<deskVars, tries, dropped>> /\ phase[c] = "wait" /\ Heard(c)
      BY <2>4 DEF Answered
    <3>2. CASE call[Try(c)].step \in {"queued", "taken"}
      BY <2>0, <2>4, <3>1, <3>2 DEF Answered, Moves, Phases
    <3>3. CASE call[Try(c)].step \notin {"queued", "taken"}
      <4>1. Gone(Try(c))'
        BY <1>2, <3>1, <3>3
      <4>2. phase' = [phase EXCEPT ![c] = "enter again"] \/ Again(c)
        BY <2>4, <3>3 DEF Answered
      <4>3. CASE phase' = [phase EXCEPT ![c] = "enter again"]
        BY <2>0, <3>1, <4>1, <4>3 DEF Moves, Phases
      <4> QED BY <1>1, <2>0, <3>1, <4>1, <4>2, <4>3
    <3> QED BY <2>0, <3>1, <3>2, <3>3
  <2>5. CASE EnterAgain(c)
    <3>1. UNCHANGED <<deskVars, tries, dropped>> /\ phase[c] = "enter again"
      BY <2>5 DEF EnterAgain
    <3>2. CASE phase' = [phase EXCEPT ![c] = "poll again"]
      BY <2>0, <3>1, <3>2 DEF Moves, Phases
    <3>3. CASE Again(c)
      BY <1>1, <2>0, <3>1, <3>3
    <3> QED BY <2>0, <2>5, <3>1, <3>2, <3>3 DEF EnterAgain
  <2> QED BY <1>4, <1>5, <1>6, <1>7, <1>8, <2>0, <2>1, <2>2, <2>3, <2>4, <2>5 DEF Burst
<1>9. CASE Phase(c)
  <2>0. c \in Askers /\ UNCHANGED <<plan, next>>
    BY <1>9 DEF Phase, Rest, Askers
  <2>1. CASE PhasedStart(c)
    BY <2>0, <2>1 DEF PhasedStart, Moves, Phases
  <2>2. CASE PhasedEnter(c)
    BY <2>0, <2>2 DEF PhasedEnter, Moves, Phases
  <2>3. CASE SecondPhase(c)
    BY <2>0, <2>3 DEF SecondPhase, Moves, Phases
  <2>4. CASE PhasedCommit(c) /\ SeatFor[c] = Nobody
    BY <2>0, <2>4 DEF PhasedCommit, Moves, Phases
  <2>5. CASE PhasedCommit(c) /\ SeatFor[c] # Nobody
    <3>1. SeatFor[c] \in Seats
      BY <2>5, BurstAssumption
    <3>2. phase' = [phase EXCEPT ![c] = "wait"] /\ "wait" \in Phases
      BY <2>5 DEF PhasedCommit, Phases
    <3> QED BY <2>0, <2>5, <3>1, <3>2 DEF PhasedCommit, Asks
  <2>6. CASE PhasedAnswered(c)
    <3>1. UNCHANGED <<deskVars, tries, dropped>> /\ phase[c] = "wait" /\ Heard(c)
      BY <2>6 DEF PhasedAnswered
    <3>2. CASE call[Try(c)].step \in {"queued", "taken"}
      BY <2>0, <2>6, <3>1, <3>2 DEF PhasedAnswered, Moves, Phases
    <3>3. CASE call[Try(c)].step \notin {"queued", "taken"}
      <4>1. Gone(Try(c))'
        BY <1>2, <3>1, <3>3
      <4>2. Again(c)
        BY <2>6, <3>3 DEF PhasedAnswered
      <4> QED BY <1>1, <2>0, <3>1, <4>1, <4>2
    <3> QED BY <2>0, <3>1, <3>2, <3>3
  <2> QED BY <1>4, <1>5, <1>6, <1>7, <1>9, <2>0, <2>1, <2>2, <2>3, <2>4, <2>5, <2>6 DEF Phase
<1>10. CASE Buy(c)
  <2>0. c \in Buyers /\ plan = "tickets" /\ UNCHANGED plan
    BY <1>10 DEF Buy
  <2>1. ASSUME phase[c] \in {"wait", "renew"}
        PROVE  Try(c) \in DOMAIN call /\ Wants(Try(c)) \in Seats
    <3>1. Try(c) \in DOMAIN call
      BY <1>0, <2>1 DEF TriesSent
    <3> QED BY <1>0, <3>1 DEF DeskTypes, CallRecords, Wants
  <2>2. CASE TicketStart(c) \/ TicketEnter(c) \/ TicketTold(c)
    <3>1. /\ UNCHANGED <<deskVars, tries, next, dropped>>
          /\ phase[c] \in {"idle", "enter", "poll"}
          /\ \/ UNCHANGED phase
             \/ \E p \in {"enter", "poll", "over", "buy"} : phase' = [phase EXCEPT ![c] = p]
      BY <2>2 DEF TicketStart, TicketEnter, TicketTold
    <3> QED BY <1>0, <2>0, <3>1 DEF Moves, Phases
  <2>3. CASE TakeTicket(c, Share(c))
    <3>1. /\ UNCHANGED <<deskVars, tries, next, dropped>> /\ phase[c] = "buy"
          /\ \E p \in {"seat", "over"} : phase' = [phase EXCEPT ![c] = p]
      BY <2>3 DEF TakeTicket
    <3> QED BY <2>0, <3>1 DEF Moves, Phases
  <2>4. CASE AllocSeat(c)
    <3>1. next \in 1..Len(FreeSeats)
      BY <1>0, <2>4, TicketAssumption DEF AllocSeat, DeskTypes
    <3>2. FreeSeats[next] \in Seats
      BY <3>1, TicketAssumption
    <3>3. phase' = [phase EXCEPT ![c] = "wait"] /\ "wait" \in Phases
      BY <2>4 DEF AllocSeat, Phases
    <3> QED BY <2>0, <2>4, <3>1, <3>2, <3>3 DEF AllocSeat, Asks
  <2>5. CASE TicketAnswered(c)
    <3>1. UNCHANGED <<deskVars, tries, next, dropped>> /\ phase[c] = "wait" /\ Heard(c)
      BY <2>5 DEF TicketAnswered
    <3>2. \/ phase' = [phase EXCEPT ![c] = "buy"]
          \/ phase' = [phase EXCEPT ![c] = "renew"] /\ call[Try(c)].step = "required"
      BY <2>5 DEF TicketAnswered, Done
    <3> QED BY <1>2, <2>0, <3>1, <3>2 DEF Moves, Phases
  <2>6. CASE Renewed(c)
    <3>1. UNCHANGED <<next, dropped>> /\ phase[c] = "renew"
      BY <2>6 DEF Renewed
    <3>2. CASE Resend(c) /\ phase' = [phase EXCEPT ![c] = "wait"]
      <4>1. "wait" \in Phases
        BY DEF Phases
      <4> QED BY <2>0, <2>1, <3>1, <3>2, <4>1 DEF Resend, Asks
    <3>3. CASE UNCHANGED <<tries, deskVars>> /\ Done(c)
      BY <2>0, <3>1, <3>3 DEF Done, Moves, Phases
    <3> QED BY <2>0, <2>6, <3>1, <3>2, <3>3 DEF Renewed
  <2>7. CASE TicketNoAnswer(c)
    <3>1. UNCHANGED next /\ phase[c] = "wait" /\ dropped' = dropped \cup {Try(c)}
      BY <2>7 DEF TicketNoAnswer
    <3>2. CASE Resend(c) /\ UNCHANGED phase
      <4>1. "wait" \in Phases /\ phase' = [phase EXCEPT ![c] = "wait"]
        BY <1>0, <3>1, <3>2 DEF Phases
      <4> QED BY <2>0, <2>1, <3>1, <3>2, <4>1 DEF Resend, Asks
    <3>3. CASE UNCHANGED <<tries, deskVars>> /\ Done(c)
      BY <2>0, <3>1, <3>3 DEF Done, Moves, Phases
    <3> QED BY <2>0, <2>7, <3>1, <3>2, <3>3 DEF TicketNoAnswer
  <2>8. CASE (Poll(c) \/ GiveUp(c)) /\ UNCHANGED ticketVars
    BY <1>4, <1>6, <2>0, <2>8
  <2> QED BY <1>10, <2>2, <2>3, <2>4, <2>5, <2>6, <2>7, <2>8 DEF Buy
<1> QED BY <1>8, <1>9, <1>10

LEMMA CallNames ==
    ASSUME DeskTypes
    PROVE  /\ \A h \in DOMAIN call : /\ Client(h) \in Clients /\ h[2] \in Nat
                                     /\ h = <<Client(h), h[2]>> /\ Wants(h) \in Seats
           /\ \A c \in Clients : tries[c] \in Nat
<1>1. \A h \in Calls : Client(h) \in Clients /\ h[2] \in Nat /\ h = <<Client(h), h[2]>>
  <2>1. MaxTries \in Nat
    BY RoomAssumption
  <2> QED BY <2>1 DEF Calls, Client
<1>2. \A h \in DOMAIN call : h \in Calls /\ call[h] \in CallRecords
  BY DEF DeskTypes
<1>3. \A h \in DOMAIN call : Wants(h) \in Seats
  BY <1>2 DEF CallRecords, Wants
<1> QED BY <1>1, <1>2, <1>3 DEF DeskTypes

\* A seat a client asks for is nobody else's, and was its own before only when the
\* commit before is gone.
LEMMA AsksApart ==
    ASSUME DeskInv, ApartInv, NEW c \in Clients, phase[c] # "cancelled", UNCHANGED plan,
           dropped \subseteq dropped', Asks(c)
    PROVE  ApartInv'
<1>0. PICK h : h = <<c, tries[c] + 1>>
  OBVIOUS
<1>1. PICK seat \in Seats, withRef \in BOOLEAN :
        /\ Post(h, seat, withRef)
        /\ tries' = [tries EXCEPT ![c] = @ + 1]
        /\ \/ c \in Askers /\ seat = SeatFor[c] /\ phase[c] = "commit" /\ next' = next
           \/ /\ c \in Buyers /\ plan = "tickets"
              /\ next \in 1..Len(FreeSeats) /\ seat = FreeSeats[next] /\ next' = next + 1
           \/ /\ c \in Buyers /\ plan = "tickets" /\ next' = next
              /\ Try(c) \in DOMAIN call /\ seat = Wants(Try(c))
              /\ phase[c] = "renew" \/ Try(c) \in dropped'
        /\ phase' = [phase EXCEPT ![c] = "wait"]
  BY <1>0 DEF Asks
<1>2. DeskTypes /\ SeatsApart /\ CallsApart /\ InSequence /\ TakenIsOwn /\ next \in Nat
  BY DEF DeskInv, ApartInv, DeskTypes
<1>3. /\ h \in Calls \ DOMAIN call /\ DOMAIN call' = DOMAIN call \cup {h}
      /\ call'[h] = [step |-> "sent", seat |-> seat, ref |-> withRef]
      /\ \A i \in DOMAIN call : call'[i] = call[i]
  BY <1>1, <1>2 DEF Post, DeskTypes
<1>4. /\ phase'[c] = "wait" /\ tries'[c] = tries[c] + 1 /\ Try(c)' = h /\ tries[c] \in Nat
      /\ \A d \in Clients \ {c} : phase'[d] = phase[d] /\ tries'[d] = tries[d] /\ Try(d)' = Try(d)
  BY <1>0, <1>1, <1>2 DEF DeskTypes, Try
<1>5. Client(h) = c /\ h[2] = tries[c] + 1 /\ Wants(h)' = seat
  BY <1>0, <1>3 DEF Client, Wants
<1>6. \A i \in DOMAIN call : /\ Client(i) \in Clients /\ i[2] \in Nat /\ Wants(i)' = Wants(i)
                             /\ (Gone(i) => Gone(i)')
  BY <1>2, <1>3, CallNames DEF Wants, Gone
<1>7. Askers' = Askers /\ next <= next' /\ next' \in Nat
      /\ Askers \cap Buyers = {}
  BY <1>1, <1>2, BurstAssumption DEF Askers
<1>8. \A d \in Clients : Comes(d)' => Comes(d)
  BY <1>3, <1>4, <1>5 DEF Comes
<1>9. Comes(c) /\ seat # Nobody
  BY DeskAssumption DEF Comes
<1>10. \A i \in DOMAIN call : Comes(Client(i))
  BY DEF Comes
<1>11. SeatsApart'
  <2>1. Askers \subseteq Clients
    BY BurstAssumption DEF Askers
  <2> QED BY <1>2, <1>7, <1>8, <2>1 DEF SeatsApart
<1>12. \A i \in DOMAIN call : Wants(i) = seat => Client(i) = c
  <2> SUFFICES ASSUME NEW i \in DOMAIN call, Wants(i) = seat, Client(i) # c PROVE FALSE
    OBVIOUS
  <2>1. Assigned(i) \/ Bought(i)
    BY <1>2 DEF CallsApart
  <2>2. CASE c \in Askers /\ seat = SeatFor[c]
    BY <1>2, <1>9, <1>10, <2>1, <2>2 DEF SeatsApart, Assigned, Bought
  <2>3. CASE plan = "tickets" /\ next \in 1..Len(FreeSeats) /\ seat = FreeSeats[next]
    <3>1. CASE Assigned(i)
      BY <1>2, <1>10, <2>3, <3>1 DEF SeatsApart, Assigned
    <3>2. CASE Bought(i)
      BY <1>2, <2>3, <3>2 DEF SeatsApart, Bought
    <3> QED BY <2>1, <3>1, <3>2
  <2>4. CASE Try(c) \in DOMAIN call /\ seat = Wants(Try(c))
    <3>1. Client(Try(c)) = c
      BY DEF Try, Client
    <3> QED BY <1>2, <2>4, <3>1 DEF CallsApart
  <2> QED BY <1>1, <2>2, <2>3, <2>4
<1>13. CallsApart'
  <2>1. ASSUME NEW i \in DOMAIN call PROVE Assigned(i)' \/ Bought(i)'
    <3>1. Assigned(i) => Assigned(i)'
      BY <1>6, <1>7 DEF Assigned
    <3>2. Bought(i) => Bought(i)'
      BY <1>2, <1>6, <1>7 DEF Bought
    <3> QED BY <1>2, <3>1, <3>2 DEF CallsApart
  <2>2. Assigned(h)' \/ Bought(h)'
    <3>1. CASE c \in Askers /\ seat = SeatFor[c]
      BY <1>5, <1>7, <3>1 DEF Assigned
    <3>2. CASE /\ c \in Buyers /\ plan = "tickets"
               /\ next \in 1..Len(FreeSeats) /\ seat = FreeSeats[next] /\ next' = next + 1
      BY <1>2, <1>5, <3>2 DEF Bought
    <3>3. CASE /\ c \in Buyers /\ plan = "tickets" /\ next' = next
               /\ Try(c) \in DOMAIN call /\ seat = Wants(Try(c))
      <4>1. Client(Try(c)) = c
        BY DEF Try, Client
      <4>2. Bought(Try(c))
        BY <1>2, <1>7, <3>3, <4>1 DEF CallsApart, Assigned
      <4> QED BY <1>5, <3>3, <4>1, <4>2 DEF Bought
    <3> QED BY <1>1, <3>1, <3>2, <3>3
  <2>3. \A i, j \in DOMAIN call' : Wants(i)' = Wants(j)' => Client(i) = Client(j)
    BY <1>2, <1>3, <1>5, <1>6, <1>12 DEF CallsApart
  <2> QED BY <1>3, <2>1, <2>2, <2>3 DEF CallsApart, Client
<1>14. \A i \in DOMAIN call : Wants(i) = seat => Gone(i)'
  <2> SUFFICES ASSUME NEW i \in DOMAIN call, Wants(i) = seat PROVE Gone(i)'
    OBVIOUS
  <2>0. PICK last : last = Try(c)
    OBVIOUS
  <2>1. Client(i) = c /\ Try(c) \in DOMAIN call /\ i[2] <= tries[c]
        /\ Client(Try(c)) = c /\ Try(c)[2] = tries[c]
    BY <1>2, <1>12 DEF InSequence, Try, Client
  <2>2. Wants(last) = seat /\ Gone(last)'
    <3>1. CASE c \in Askers /\ seat = SeatFor[c] /\ phase[c] = "commit"
      <4>1. Assigned(Try(c))
        BY <1>2, <1>7, <2>1, <3>1 DEF CallsApart, Bought
      <4>2. Gone(Try(c))
        BY <1>2, <2>1, <3>1 DEF InSequence
      <4> QED BY <1>6, <2>0, <2>1, <3>1, <4>1, <4>2 DEF Assigned
    <3>2. CASE /\ c \in Buyers /\ plan = "tickets"
               /\ next \in 1..Len(FreeSeats) /\ seat = FreeSeats[next]
      <4>1. Bought(i)
        BY <1>2, <1>7, <2>1, <3>2 DEF CallsApart, Assigned
      <4> QED BY <1>2, <3>2, <4>1 DEF SeatsApart, Bought
    <3>3. CASE seat = Wants(Try(c)) /\ (phase[c] = "renew" \/ Try(c) \in dropped')
      <4>1. phase[c] = "renew" => Gone(Try(c))
        BY <1>2, <2>1 DEF InSequence
      <4> QED BY <1>6, <2>0, <2>1, <3>3, <4>1 DEF Gone
    <3> QED BY <1>1, <3>1, <3>2, <3>3
  <2>3. CASE i = last
    BY <2>2, <2>3
  <2>4. CASE i # last
    <3>1. i[2] < tries[c]
      <4>1. i = <<Client(i), i[2]>>
        BY <1>2, CallNames
      <4>2. i[2] # tries[c]
        BY <2>0, <2>1, <2>4, <4>1 DEF Try
      <4> QED BY <1>4, <1>6, <2>1, <4>2
    <3>2. Gone(i)
      BY <1>2, <2>0, <2>1, <2>2, <3>1 DEF InSequence
    <3> QED BY <1>6, <3>2
  <2> QED BY <2>3, <2>4
<1>15. InSequence'
  <2>1. \A i \in DOMAIN call' : i[2] <= tries'[Client(i)] /\ Try(Client(i))' \in DOMAIN call'
    <3>1. ASSUME NEW i \in DOMAIN call
          PROVE  i[2] <= tries'[Client(i)] /\ Try(Client(i))' \in DOMAIN call'
      <4>1. i[2] <= tries[Client(i)] /\ Try(Client(i)) \in DOMAIN call
        BY <1>2 DEF InSequence
      <4>2. CASE Client(i) = c
        BY <1>3, <1>4, <1>6, <4>1, <4>2
      <4>3. CASE Client(i) # c
        BY <1>3, <1>4, <1>6, <4>1, <4>3
      <4> QED BY <4>2, <4>3
    <3> QED BY <1>3, <1>4, <1>5, <3>1
  <2>2. ASSUME NEW i \in DOMAIN call', NEW j \in DOMAIN call',
               Client(i) = Client(j), Wants(i)' = Wants(j)', i[2] < j[2]
        PROVE  Gone(i)'
    <3>1. CASE i = h
      <4>1. j \in DOMAIN call
        BY <1>3, <1>4, <1>5, <2>2, <3>1
      <4>2. j[2] <= tries[c] /\ j[2] \in Nat
        BY <1>2, <1>5, <1>6, <2>2, <3>1, <4>1 DEF InSequence
      <4> QED BY <1>4, <1>5, <2>2, <3>1, <4>2
    <3>2. CASE i # h /\ j = h
      BY <1>3, <1>5, <1>6, <1>14, <2>2, <3>2
    <3>3. CASE i # h /\ j # h
      BY <1>2, <1>3, <1>6, <2>2, <3>3 DEF InSequence
    <3> QED BY <3>1, <3>2, <3>3
  <2>3. ASSUME NEW d \in Clients, Try(d)' \in DOMAIN call'
        PROVE  phase'[d] \in {"wait", "over", "cancelled", "buy", "seat"} \/ Gone(Try(d))'
    <3>1. CASE d = c
      BY <1>4, <3>1
    <3>2. CASE d # c
      <4>1. Try(d)' = Try(d) /\ phase'[d] = phase[d] /\ Try(d) # h
        <5>1. Client(Try(d)) = d
          BY DEF Try, Client
        <5> QED BY <1>4, <1>5, <3>2, <5>1
      <4>2. Try(d) \in DOMAIN call
        BY <1>3, <2>3, <4>1
      <4>3. phase[d] \in {"wait", "over", "cancelled", "buy", "seat"} \/ Gone(Try(d))
        BY <1>2, <4>2 DEF InSequence
      <4>4. Gone(Try(d)) => Gone(Try(d))'
        BY <1>3, <4>1, <4>2 DEF Gone
      <4> QED BY <4>1, <4>3, <4>4
    <3> QED BY <3>1, <3>2
  <2> QED BY <2>1, <2>2, <2>3 DEF InSequence, Client
<1>16. TakenIsOwn'
  <2> SUFFICES ASSUME NEW i \in DOMAIN call', In(i, "taken")'
               PROVE  \E j \in DOMAIN call' \ {i} : /\ Client(j) = Client(i) /\ Wants(j)' = Wants(i)'
                                                   /\ Met(i, j)'
    BY DEF TakenIsOwn, Met, Client
  <2>1. i \in DOMAIN call /\ In(i, "taken")
    BY <1>3 DEF In
  <2>2. PICK j \in DOMAIN call \ {i} : /\ Client(j) = Client(i) /\ Wants(j) = Wants(i)
                                      /\ Met(i, j)
    BY <1>2, <2>1 DEF TakenIsOwn, Met
  <2>3. dropped \subseteq dropped' /\ stuck' = stuck
    BY <1>1 DEF Post
  <2>4. Met(i, j)'
    BY <2>2, <2>3 DEF Met
  <2> QED BY <1>3, <1>6, <2>1, <2>2, <2>4
<1> QED BY <1>11, <1>13, <1>15, <1>16 DEF ApartInv

\* No commit is sent, no seat found, and nobody comes back; a commit is gone for
\* good, and who may send the same again has lost the last.
LEMMA OthersApart ==
    ASSUME DeskTypes, ApartInv, UNCHANGED <<plan, next, tries>>, dropped \subseteq dropped',
           stuck \subseteq stuck',
           \A c \in Clients : phase[c] = "cancelled" => phase'[c] = "cancelled",
           DOMAIN call' = DOMAIN call,
           \A h \in DOMAIN call : /\ call'[h].seat = call[h].seat
                                  /\ call[h].step \in Refused => call'[h].step \in Refused
                                  /\ In(h, "taken")' => In(h, "taken") \/
                                       \E i \in DOMAIN call \ {h} :
                                          Wants(i) = Wants(h) /\ Met(h, i),
           \A c \in Clients : Try(c) \in DOMAIN call =>
              \/ phase'[c] \in {"wait", "over", "cancelled", "buy", "seat"}
              \/ phase[c] \notin {"wait", "over", "cancelled", "buy", "seat"}
              \/ Gone(Try(c))'
    PROVE  ApartInv'
<1>1. SeatsApart /\ CallsApart /\ InSequence /\ TakenIsOwn
  BY DEF ApartInv
<1>2. Askers' = Askers /\ Askers \subseteq Clients /\ \A c \in Clients : Try(c)' = Try(c)
  BY BurstAssumption DEF Askers, Try
<1>3. \A h \in DOMAIN call : /\ Client(h) \in Clients /\ Wants(h)' = Wants(h)
                             /\ (Gone(h) => Gone(h)')
  BY CallNames DEF Wants, Gone
<1>4. \A c \in Clients : Comes(c)' => Comes(c)
  BY DEF Comes
<1>5. SeatsApart'
  BY <1>1, <1>2, <1>4 DEF SeatsApart
<1>6. CallsApart'
  <2>1. \A h \in DOMAIN call : (Assigned(h) => Assigned(h)') /\ (Bought(h) => Bought(h)')
    BY <1>2, <1>3 DEF Assigned, Bought
  <2> QED BY <1>1, <1>3, <2>1 DEF CallsApart
<1>7. InSequence'
  <2>1. \A h \in DOMAIN call : h[2] <= tries'[Client(h)] /\ Try(Client(h))' \in DOMAIN call
    BY <1>1, <1>2, <1>3 DEF InSequence
  <2>2. \A h, i \in DOMAIN call :
          Client(h) = Client(i) /\ Wants(h)' = Wants(i)' /\ h[2] < i[2] => Gone(h)'
    BY <1>1, <1>3 DEF InSequence
  <2>3. ASSUME NEW c \in Clients, Try(c) \in DOMAIN call
        PROVE  phase'[c] \in {"wait", "over", "cancelled", "buy", "seat"} \/ Gone(Try(c))'
    <3>1. phase[c] \in {"wait", "over", "cancelled", "buy", "seat"} \/ Gone(Try(c))
      BY <1>1, <2>3 DEF InSequence
    <3>2. Gone(Try(c)) => Gone(Try(c))'
      BY <1>2, <1>3, <2>3 DEF Gone
    <3> QED BY <2>3, <3>1, <3>2
  <2> QED BY <1>2, <2>1, <2>2, <2>3 DEF InSequence, Client
<1>8. TakenIsOwn'
  <2> SUFFICES ASSUME NEW h \in DOMAIN call, In(h, "taken")'
               PROVE  \E i \in DOMAIN call \ {h} : /\ Client(i) = Client(h) /\ Wants(i)' = Wants(h)'
                                                  /\ Met(h, i)'
    BY DEF TakenIsOwn, Met, Client
  <2>0. \A i : Met(h, i) => Met(h, i)'
    BY DEF Met
  <2>1. CASE In(h, "taken")
    BY <1>1, <1>3, <2>0, <2>1 DEF TakenIsOwn, Met
  <2>2. CASE ~In(h, "taken")
    <3>1. PICK i \in DOMAIN call \ {h} : Wants(i) = Wants(h) /\ Met(h, i)
      BY <2>2
    <3> QED BY <1>1, <1>3, <2>0, <3>1 DEF CallsApart
  <2> QED BY <2>1, <2>2
<1> QED BY <1>5, <1>6, <1>7, <1>8 DEF ApartInv

LEMMA MovesApart ==
    ASSUME DeskInv, ApartInv, NEW c \in Clients, phase[c] # "cancelled", UNCHANGED plan,
           dropped \subseteq dropped', Moves(c)
    PROVE  ApartInv'
<1>1. PICK p \in Phases :
        /\ phase' = [phase EXCEPT ![c] = p]
        /\ \/ p \in {"wait", "over", "buy", "seat"}
           \/ phase[c] \notin {"wait", "over", "buy", "seat"}
           \/ phase[c] = "wait" /\ Gone(Try(c))'
  BY DEF Moves
<1>2. UNCHANGED <<call, tries, next, stuck>> /\ DeskTypes
  BY DEF Moves, DeskInv
<1>3. phase'[c] = p /\ \A d \in Clients \ {c} : phase'[d] = phase[d]
  BY <1>1, <1>2 DEF DeskTypes
<1>4. \A h : In(h, "taken")' => In(h, "taken")
  BY <1>2 DEF In
<1>5. \A d \in Clients : \/ phase'[d] \in {"wait", "over", "cancelled", "buy", "seat"}
                         \/ phase[d] \notin {"wait", "over", "cancelled", "buy", "seat"}
                         \/ Gone(Try(d))'
  BY <1>1, <1>3
<1> QED BY <1>2, <1>3, <1>4, <1>5, OthersApart

\* A commit that finds its seat taken finds one of its own user there.
LEMMA ServeApart ==
    ASSUME DeskInv, ApartInv, NEW h \in DOMAIN call, ServeSteps(h),
           UNCHANGED <<plan, clientVars, ticketVars>>
    PROVE  ApartInv'
<1>1. DeskTypes /\ CallsKnown /\ InSequence /\ CallsApart
  BY DEF DeskInv, ApartInv
<1>0. /\ call[h].step \in {"sent", "asking", "passed", "held", "releasing"} /\ stuck \subseteq stuck'
      /\ \E x \in CallSteps :
            To(h, x) /\ (x = "taken" => call[h].step = "passed" /\ holder[Wants(h)] # Nobody)
  <2>1. CASE Hold(h)
    BY <2>1 DEF Hold, In, CallSteps, Answers
  <2>2. CASE CheckPermit(h) \/ CheckAgain(h) \/ Send(h)
    BY <2>2 DEF CheckPermit, CheckAgain, Send, In, CallSteps, Answers
  <2>3. CASE Release(h) \/ RedisFails(h) \/ CallDies(h)
    BY <2>3 DEF Release, RedisFails, CallDies, In, CallSteps, Answers
  <2> QED BY <2>1, <2>2, <2>3 DEF ServeSteps
<1>2. PICK x \in CallSteps :
        To(h, x) /\ (x = "taken" => call[h].step = "passed" /\ holder[Wants(h)] # Nobody)
  BY <1>0
<1>3. call[h] \in CallRecords
  BY <1>1 DEF DeskTypes
<1>4. /\ DOMAIN call' = DOMAIN call /\ call'[h].step = x /\ call'[h].seat = call[h].seat
      /\ \A i \in DOMAIN call \ {h} : call'[i] = call[i]
  BY <1>2, <1>3 DEF To, CallRecords
<1>5. call[h].step \notin Refused /\ call[h].step # "taken"
  BY <1>0 DEF Refused
<1>6. ASSUME x = "taken"
      PROVE  \E i \in DOMAIN call \ {h} : Wants(i) = Wants(h) /\ Met(h, i)
  <2>1. PICK i : i = holder[Wants(h)]
    OBVIOUS
  <2>2. /\ i \in DOMAIN call /\ Wants(i) = Wants(h)
        /\ \/ call[i].step \in {"held", "queued", "releasing", "lost"}
           \/ call[i].step = "error" /\ i \in stuck
    <3>1. Wants(h) \in Seats
      BY <1>3 DEF Wants, CallRecords
    <3> QED BY <1>1, <1>2, <1>6, <2>1, <3>1 DEF CallsKnown, Wants
  <2>3. Client(i) = Client(h)
    BY <1>1, <2>2 DEF CallsApart
  <2>4. i # h
    BY <1>2, <1>6, <2>2
  <2>5. h[2] < i[2] \/ i[2] < h[2]
    <3>1. h = <<Client(h), h[2]>> /\ i = <<Client(i), i[2]>> /\ h[2] \in Nat /\ i[2] \in Nat
      BY <1>1, <2>2, CallNames
    <3>2. h[2] # i[2]
      BY <2>3, <2>4, <3>1
    <3> QED BY <3>1, <3>2
  <2>6. Gone(h) \/ Gone(i)
    BY <1>1, <2>2, <2>3, <2>5 DEF InSequence
  <2> QED BY <1>5, <2>2, <2>4, <2>6 DEF Gone, Refused, Met
<1>7. \A i \in DOMAIN call : /\ call'[i].seat = call[i].seat
                             /\ call[i].step \in Refused => call'[i].step \in Refused
                             /\ In(i, "taken")' => In(i, "taken") \/
                                   \E j \in DOMAIN call \ {i} :
                                      Wants(j) = Wants(i) /\ Met(i, j)
  BY <1>4, <1>5, <1>6 DEF In
<1>8. \A c \in Clients : \/ phase'[c] \in {"wait", "over", "cancelled", "buy", "seat"}
                         \/ phase[c] \notin {"wait", "over", "cancelled", "buy", "seat"}
  OBVIOUS
<1> QED BY <1>0, <1>1, <1>4, <1>7, <1>8, OthersApart

LEMMA ApartStep ==
    ASSUME DeskInv, ApartInv, [Next]_vars
    PROVE  ApartInv'
<1>0. DeskTypes /\ \A c \in Clients : Try(c) = <<c, tries[c]>>
  BY DEF DeskInv, Try
<1>1. ASSUME UNCHANGED <<call, plan, tries, phase, dropped, stuck, next>>
      PROVE  ApartInv'
  <2>1. \A h : In(h, "taken")' => In(h, "taken")
    BY <1>1 DEF In
  <2> QED BY <1>0, <1>1, <2>1, OthersApart
<1>2. ASSUME NEW c \in Clients, Burst(c) \/ Phase(c) \/ Buy(c) PROVE ApartInv'
  BY <1>2, ClientApart, AsksApart, MovesApart
<1>3. ASSUME NEW h \in DOMAIN call, Serve(h) \/ ServeFails(h) \/ PodDies(h) PROVE ApartInv'
  BY <1>3, ServeApart DEF Serve, ServeFails, PodDies, ServeSteps
<1>4. ASSUME NEW p \in DOMAIN polls, Gate(p) \/ GateFails(p) PROVE ApartInv'
  BY <1>1, <1>4 DEF Gate, GateFails
<1>5. CASE Interrupt
  <2>1. /\ UNCHANGED <<call, plan, tries, next, stuck>> /\ dropped \subseteq dropped'
        /\ \A c \in Clients : phase'[c] \in {phase[c], "cancelled"}
    BY <1>5 DEF Interrupt
  <2>2. \A h : In(h, "taken")' => In(h, "taken")
    BY <2>1 DEF In
  <2>3. \A c \in Clients : \/ phase'[c] \in {"wait", "over", "cancelled", "buy", "seat"}
                           \/ phase[c] \notin {"wait", "over", "cancelled", "buy", "seat"}
    BY <2>1
  <2>4. \A c \in Clients : phase[c] = "cancelled" => phase'[c] = "cancelled"
    BY <2>1
  <2> QED BY <1>0, <2>1, <2>2, <2>3, <2>4, OthersApart
<1>6. CASE Tick \/ ScriptStep \/ Order \/ Expires \/ Monitor \/ UNCHANGED vars
  BY <1>1, <1>6 DEF Tick, ScriptStep, PrepareReset, PrepareControl, UsersEnd, Drain, Restore,
     Quiet, Order, Expires, Monitor, vars
<1>7. ASSUME NEW s \in Seats, HoldExpires(s) PROVE ApartInv'
  BY <1>1, <1>7 DEF HoldExpires, KeyExpires
<1> QED BY <1>2, <1>3, <1>4, <1>5, <1>6, <1>7 DEF Next

\* When the users of a script, and the browsers beside them, are given different
\* seats, a commit finds its seat taken only by another commit of the same user,
\* who did not wait for one of the two, or was told 500 while the release of the
\* other failed; for any number of users and tickets and through every timeout,
\* retry, renewed permit, expired key, Redis error, dead pod and interrupt.
THEOREM TakenByOneself == Spec /\ SeatsApart => []TakenIsOwn
<1>1. Init /\ SeatsApart => ApartInv
  <2> SUFFICES ASSUME Init, SeatsApart PROVE CallsApart /\ InSequence /\ TakenIsOwn
    BY DEF ApartInv
  <2>1. DOMAIN call = {}
    BY DEF Init, DeskInit
  <2> QED BY <2>1 DEF CallsApart, InSequence, TakenIsOwn
<1>2. DeskInv /\ ApartInv /\ [Next]_vars => DeskInv' /\ ApartInv'
  BY DeskInvStep, ApartStep
<1>3. ApartInv => TakenIsOwn
  BY DEF ApartInv
<1> QED BY <1>1, <1>2, <1>3, DeskInvInit, PTL DEF Spec

-----------------------------------------------------------------------------
(* The counters of a script                                                *)

Number(U, f, P) == Cardinality({d \in U : f[d] \in P})

\* A user that moves is counted where it comes and not where it was.
LEMMA OneMoves ==
    ASSUME NEW U, IsFiniteSet(U), NEW f, NEW g, NEW c, \A d \in U \ {c} : g[d] = f[d],
           NEW P
    PROVE  /\ Number(U, f, P) \in Nat /\ Number(U, g, P) \in Nat
           /\ (c \in U => (f[c] \in P <=> g[c] \in P)) => Number(U, g, P) = Number(U, f, P)
           /\ c \in U /\ f[c] \notin P /\ g[c] \in P => Number(U, g, P) = Number(U, f, P) + 1
           /\ c \in U /\ f[c] \in P /\ g[c] \notin P => Number(U, f, P) = Number(U, g, P) + 1
<1> DEFINE F == {d \in U : f[d] \in P}
           G == {d \in U : g[d] \in P}
<1>1. IsFiniteSet(F) /\ IsFiniteSet(G) /\ Cardinality(F) \in Nat /\ Cardinality(G) \in Nat
  <2>1. F \subseteq U /\ G \subseteq U
    OBVIOUS
  <2> QED BY <2>1, FS_Subset, FS_CardinalityType
<1>2. (c \in U => (f[c] \in P <=> g[c] \in P)) => G = F
  OBVIOUS
<1>3. ASSUME c \in U, f[c] \notin P, g[c] \in P PROVE Cardinality(G) = Cardinality(F) + 1
  <2>1. G = F \cup {c} /\ c \notin F
    BY <1>3
  <2> HIDE DEF F, G
  <2> QED BY <1>1, <2>1, FS_AddElement
<1>4. ASSUME c \in U, f[c] \in P, g[c] \notin P PROVE Cardinality(F) = Cardinality(G) + 1
  <2>1. F = G \cup {c} /\ c \notin G
    BY <1>4
  <2> HIDE DEF F, G
  <2> QED BY <1>1, <2>1, FS_AddElement
<1> QED BY <1>1, <1>2, <1>3, <1>4 DEF Number

LEMMA UsersFinite == IsFiniteSet(Users) /\ Users \subseteq Clients
<1>1. Users \subseteq Clients
  BY BurstAssumption DEF Users
<1> QED BY <1>1, FS_Subset, BurstAssumption

LEMMA UserMoves ==
    ASSUME DeskTypes, NEW c \in Clients, NEW p \in Phases, phase' = [phase EXCEPT ![c] = p],
           UNCHANGED plan, NEW CONSTANT P
    PROVE  /\ UsersAt(P) \in Nat /\ UsersAt(P)' \in Nat
           /\ (c \in Users => (phase[c] \in P <=> p \in P)) => UsersAt(P)' = UsersAt(P)
           /\ c \in Users /\ phase[c] \notin P /\ p \in P => UsersAt(P)' = UsersAt(P) + 1
           /\ c \in Users /\ phase[c] \in P /\ p \notin P => UsersAt(P) = UsersAt(P)' + 1
<1>0. phase'[c] = p /\ (\A d \in Clients \ {c} : phase'[d] = phase[d]) /\ Users' = Users
  BY DEF DeskTypes, Users
<1>1. \A d \in Users \ {c} : phase'[d] = phase[d]
  BY <1>0, UsersFinite
<1>2. UsersAt(P) = Number(Users, phase, P) /\ UsersAt(P)' = Number(Users, phase', P)
  BY <1>0 DEF UsersAt, Number
<1> DEFINE f == phase  g == phase'
<1>3. phase[c] = f[c] /\ p = g[c] /\ \A d \in Users \ {c} : g[d] = f[d]
  BY <1>0, <1>1
<1> HIDE DEF f, g
<1>4. /\ Number(Users, f, P) \in Nat /\ Number(Users, g, P) \in Nat
      /\ (c \in Users => (f[c] \in P <=> g[c] \in P)) => Number(Users, g, P) = Number(Users, f, P)
      /\ c \in Users /\ f[c] \notin P /\ g[c] \in P =>
           Number(Users, g, P) = Number(Users, f, P) + 1
      /\ c \in Users /\ f[c] \in P /\ g[c] \notin P =>
           Number(Users, f, P) = Number(Users, g, P) + 1
  BY <1>3, UsersFinite, OneMoves
<1>5. UsersAt(P) = Number(Users, f, P) /\ UsersAt(P)' = Number(Users, g, P)
  BY <1>2 DEF f, g
<1> QED BY <1>3, <1>4, <1>5

Tallied == tally \in [Counters -> Nat]

LEMMA Counted ==
    ASSUME Tallied, NEW c, NEW S, Count(c, S)
    PROVE  /\ Tallied'
           /\ \A k \in Counters : tally'[k] = IF c \in Users /\ k \in S THEN tally[k] + 1
                                              ELSE tally[k]
BY DEF Tallied, Count

LEMMA CountsNothing ==
    ASSUME Tallied, NEW c, UNCHANGED tally
    PROVE  Count(c, {})
BY DEF Tallied, Count

\* Between its permit and the end of its commits.
Trying == {"commit", "wait", "enter again", "poll again"}

UsersInv ==
    /\ Tallied
    /\ plan # "tickets" =>
         /\ UsersAt({"over"}) = tally["skipped"] + tally["enter_fail"]
                                 + tally["admitted_fail"] + Ends
         /\ UsersAt(Trying) + Ends <= tally["admitted_ok"]

\* Client c goes on to p and counts S, unless it is a browser.
Counts(c) ==
    \E p \in Phases, S \in SUBSET Counters :
      /\ phase' = [phase EXCEPT ![c] = p] /\ Count(c, S) /\ phase[c] # "over"
      /\ \/ p # "over" /\ S \subseteq {"enter_ok"} /\ (p \in Trying => phase[c] \in Trying)
         \/ p = "commit" /\ S = {"admitted_ok"}
         \/ p = "over" /\ S \in {{"skipped"}, {"enter_fail"}, {"admitted_fail"}}
                       /\ phase[c] \notin Trying
         \/ p = "over" /\ S \in {{"commit_queued_ok"}, {"commit_fail"}} /\ phase[c] \in Trying

LEMMA ClientCounts ==
    ASSUME DeskTypes, Tallied, NEW c \in Clients, Burst(c) \/ Phase(c)
    PROVE  Counts(c) /\ UNCHANGED plan
<1> USE DEF Turn, Trying
<1> SUFFICES Counts(c)
  BY DEF Burst, Phase, Rest
<1>0. /\ phase \in [Clients -> Phases] /\ phase = [phase EXCEPT ![c] = phase[c]]
      /\ phase[c] \in Phases
  BY DEF DeskTypes
<1>1. {{}, {"enter_ok"}, {"admitted_ok"}, {"skipped"}, {"enter_fail"}, {"admitted_fail"},
       {"commit_queued_ok"}, {"commit_fail"}} \subseteq SUBSET Counters
  BY DEF Counters
<1>2. UNCHANGED tally => Count(c, {})
  BY CountsNothing
<1>10. {"commit", "wait", "enter again", "poll again", "over", "enter", "entered", "poll"}
          \subseteq Phases
  BY DEF Phases
<1>11. ASSUME NEW p \in Phases, phase' = [phase EXCEPT ![c] = p], Count(c, {}),
              phase[c] # "over", p # "over", p \in Trying => phase[c] \in Trying
       PROVE  Counts(c)
  <2>1. {} \in SUBSET Counters /\ {} \subseteq {"enter_ok"}
    OBVIOUS
  <2> HIDE DEF Trying
  <2> QED BY <1>11, <2>1 DEF Counts
<1>3. ASSUME Again(c), phase[c] \in Trying PROVE Counts(c)
  BY <1>1, <1>3, <1>10 DEF Again, Counts
<1>4. CASE Poll(c)
  BY <1>0, <1>1, <1>10, <1>2, <1>4 DEF Poll, Counts
<1>5. CASE Told(c)
  <2>1. CASE Count(c, {}) /\ UNCHANGED phase
    BY <1>0, <1>1, <1>10, <1>5, <2>1 DEF Told, Counts
  <2>2. CASE phase[c] = "poll" /\ phase' = [phase EXCEPT ![c] = "commit"] /\ Count(c, {"admitted_ok"})
    BY <1>0, <1>1, <1>10, <2>2 DEF Counts
  <2> QED BY <1>0, <1>3, <1>5, <2>1, <2>2 DEF Told
<1>6. CASE GiveUp(c)
  <2>1. CASE phase[c] = "poll" /\ phase' = [phase EXCEPT ![c] = "over"] /\ Count(c, {"admitted_fail"})
    BY <1>0, <1>1, <1>10, <2>1 DEF Counts
  <2> QED BY <1>0, <1>3, <1>6, <2>1 DEF GiveUp
<1>7. CASE NoAnswer(c)
  <2>1. CASE phase[c] = "wait" /\ phase' = [phase EXCEPT ![c] = "over"] /\ Count(c, {"commit_fail"})
    BY <1>0, <1>1, <1>10, <2>1 DEF Counts
  <2> QED BY <1>0, <1>3, <1>7, <2>1 DEF NoAnswer
<1>8. CASE Burst(c)
  <2>1. CASE Start(c)
    <3>1. phase[c] = "idle" /\ \/ phase' = [phase EXCEPT ![c] = "over"] /\ Count(c, {"skipped"})
                               \/ phase' = [phase EXCEPT ![c] = "enter"] /\ Count(c, {})
      BY <2>1 DEF Start
    <3>2. CASE phase' = [phase EXCEPT ![c] = "over"] /\ Count(c, {"skipped"})
      BY <1>1, <1>10, <3>1, <3>2 DEF Counts
    <3>3. CASE phase' = [phase EXCEPT ![c] = "enter"] /\ Count(c, {})
      BY <1>10, <1>11, <3>1, <3>3
    <3> QED BY <3>1, <3>2, <3>3
  <2>2. CASE Enter(c)
    BY <1>0, <1>1, <1>10, <2>2 DEF Enter, Counts
  <2>3. CASE Commit(c)
    <3>1. phase[c] = "commit" /\ phase' = [phase EXCEPT ![c] = "wait"] /\ Count(c, {})
      BY <1>2, <2>3 DEF Commit
    <3> QED BY <1>10, <1>11, <3>1
  <2>4. CASE Answered(c)
    <3>1. phase[c] = "wait" /\ \/ Again(c)
                               \/ phase' = [phase EXCEPT ![c] = "over"] /\ Count(c, {"commit_queued_ok"})
                               \/ phase' = [phase EXCEPT ![c] = "over"] /\ Count(c, {"commit_fail"})
                               \/ phase' = [phase EXCEPT ![c] = "enter again"] /\ Count(c, {})
      BY <2>4 DEF Answered
    <3>2. CASE Again(c)
      BY <1>3, <3>1, <3>2
    <3>3. CASE phase' = [phase EXCEPT ![c] = "over"] /\ Count(c, {"commit_queued_ok"})
      BY <1>1, <1>10, <3>1, <3>3 DEF Counts
    <3>4. CASE phase' = [phase EXCEPT ![c] = "over"] /\ Count(c, {"commit_fail"})
      BY <1>1, <1>10, <3>1, <3>4 DEF Counts
    <3>5. CASE phase' = [phase EXCEPT ![c] = "enter again"] /\ Count(c, {})
      BY <1>10, <1>11, <3>1, <3>5
    <3> QED BY <3>1, <3>2, <3>3, <3>4, <3>5
  <2>5. CASE EnterAgain(c)
    <3>1. phase[c] = "enter again" /\ \/ Again(c)
                                      \/ phase' = [phase EXCEPT ![c] = "poll again"] /\ Count(c, {})
      BY <2>5 DEF EnterAgain
    <3>2. CASE Again(c)
      BY <1>3, <3>1, <3>2
    <3>3. CASE phase' = [phase EXCEPT ![c] = "poll again"] /\ Count(c, {})
      BY <1>10, <1>11, <3>1, <3>3
    <3> QED BY <3>1, <3>2, <3>3
  <2> QED BY <1>0, <1>4, <1>5, <1>6, <1>7, <1>8, <2>1, <2>2, <2>3, <2>4, <2>5 DEF Burst
<1>9. CASE Phase(c)
  <2>1. CASE PhasedStart(c)
    <3>1. phase[c] = "idle" /\ phase' = [phase EXCEPT ![c] = "enter"] /\ Count(c, {})
      BY <1>2, <2>1 DEF PhasedStart
    <3> QED BY <1>10, <1>11, <3>1
  <2>2. CASE PhasedEnter(c)
    BY <1>0, <1>1, <1>10, <2>2 DEF PhasedEnter, Counts
  <2>3. CASE SecondPhase(c)
    <3>1. phase[c] = "entered" /\ phase' = [phase EXCEPT ![c] = "poll"] /\ Count(c, {})
      BY <1>2, <2>3 DEF SecondPhase
    <3> QED BY <1>10, <1>11, <3>1
  <2>4. CASE PhasedCommit(c)
    <3>1. phase[c] = "commit" /\ \/ phase' = [phase EXCEPT ![c] = "over"] /\ Count(c, {"commit_fail"})
                                 \/ phase' = [phase EXCEPT ![c] = "wait"] /\ Count(c, {})
      BY <1>2, <2>4 DEF PhasedCommit
    <3>2. CASE phase' = [phase EXCEPT ![c] = "over"] /\ Count(c, {"commit_fail"})
      BY <1>1, <1>10, <3>1, <3>2 DEF Counts
    <3>3. CASE phase' = [phase EXCEPT ![c] = "wait"] /\ Count(c, {})
      BY <1>10, <1>11, <3>1, <3>3
    <3> QED BY <3>1, <3>2, <3>3
  <2>5. CASE PhasedAnswered(c)
    <3>1. phase[c] = "wait" /\ \/ Again(c)
                               \/ phase' = [phase EXCEPT ![c] = "over"] /\ Count(c, {"commit_queued_ok"})
                               \/ phase' = [phase EXCEPT ![c] = "over"] /\ Count(c, {"commit_fail"})
      BY <2>5 DEF PhasedAnswered
    <3> QED BY <1>0, <1>1, <1>10, <1>3, <3>1 DEF Counts
  <2> QED BY <1>0, <1>4, <1>5, <1>6, <1>7, <1>9, <2>1, <2>2, <2>3, <2>4, <2>5 DEF Phase
<1> QED BY <1>8, <1>9

LEMMA CountsKeeps ==
    ASSUME DeskTypes, UsersInv, NEW c \in Clients, Counts(c), UNCHANGED plan, plan # "tickets"
    PROVE  UsersInv'
<1>1. PICK p \in Phases, S \in SUBSET Counters :
      /\ phase' = [phase EXCEPT ![c] = p] /\ Count(c, S) /\ phase[c] # "over"
      /\ \/ p # "over" /\ S \subseteq {"enter_ok"} /\ (p \in Trying => phase[c] \in Trying)
         \/ p = "commit" /\ S = {"admitted_ok"}
         \/ p = "over" /\ S \in {{"skipped"}, {"enter_fail"}, {"admitted_fail"}}
                       /\ phase[c] \notin Trying
         \/ p = "over" /\ S \in {{"commit_queued_ok"}, {"commit_fail"}} /\ phase[c] \in Trying
  BY DEF Counts
<1>2. phase'[c] = p /\ (\A d \in Clients \ {c} : phase'[d] = phase[d]) /\ Users' = Users
  BY <1>1 DEF DeskTypes, Users
<1>3. /\ Tallied /\ Tallied'
      /\ \A k \in Counters : tally'[k] = IF c \in Users /\ k \in S THEN tally[k] + 1 ELSE tally[k]
  BY <1>1, Counted DEF UsersInv
<1>4. Counters = {"skipped", "enter_ok", "enter_fail", "admitted_ok", "admitted_fail",
                  "commit_queued_ok", "commit_fail"}
  BY DEF Counters
<1>5. \A k \in Counters : tally[k] \in Nat
  BY <1>3 DEF Tallied
<1>6. ASSUME NEW CONSTANT P
      PROVE  /\ UsersAt(P) \in Nat /\ UsersAt(P)' \in Nat
             /\ (c \in Users => (phase[c] \in P <=> p \in P)) => UsersAt(P)' = UsersAt(P)
             /\ c \in Users /\ phase[c] \notin P /\ p \in P => UsersAt(P)' = UsersAt(P) + 1
             /\ c \in Users /\ phase[c] \in P /\ p \notin P => UsersAt(P) = UsersAt(P)' + 1
  BY <1>1, UserMoves
<1>7. CASE c \notin Users
  <2>1. UsersAt({"over"})' = UsersAt({"over"}) /\ UsersAt(Trying)' = UsersAt(Trying)
    BY <1>6, <1>7
  <2>2. \A k \in Counters : tally'[k] = tally[k]
    BY <1>3, <1>7
  <2> QED BY <1>3, <1>4, <2>1, <2>2 DEF UsersInv, Ends, Trying
<1>8. CASE c \in Users
  <2> DEFINE o == UsersAt({"over"})  o1 == UsersAt({"over"})'
             t == UsersAt(Trying)    t1 == UsersAt(Trying)'
  <2>0. o \in Nat /\ o1 \in Nat /\ t \in Nat /\ t1 \in Nat /\ Trying' = Trying
    BY <1>6 DEF Trying
  <2>1. /\ o = tally["skipped"] + tally["enter_fail"] + tally["admitted_fail"] + Ends
        /\ t + Ends <= tally["admitted_ok"]
        /\ Ends = tally["commit_queued_ok"] + tally["commit_fail"]
        /\ Ends' = tally'["commit_queued_ok"] + tally'["commit_fail"]
    BY DEF UsersInv, Ends
  <2>2. CASE p # "over" /\ S \subseteq {"enter_ok"} /\ (p \in Trying => phase[c] \in Trying)
    <3>1. o1 = o /\ t1 <= t
      BY <1>1, <1>6, <1>8, <2>0, <2>2
    <3>2. \A k \in Counters \ {"enter_ok"} : tally'[k] = tally[k]
      BY <1>3, <2>2
    <3> HIDE DEF o, o1, t, t1
    <3>3. /\ o1 = tally'["skipped"] + tally'["enter_fail"] + tally'["admitted_fail"] + Ends'
          /\ t1 + Ends' <= tally'["admitted_ok"]
      BY <1>4, <1>5, <2>0, <2>1, <3>1, <3>2
    <3> QED BY <1>3, <2>0, <3>3 DEF UsersInv, o1, t1
  <2>3. CASE p = "commit" /\ S = {"admitted_ok"}
    <3>0. "commit" \in Trying /\ "over" # "commit"
      BY DEF Trying
    <3>1. o1 = o /\ t1 <= t + 1
      BY <1>1, <1>6, <1>8, <2>0, <2>3, <3>0
    <3>2. (\A k \in Counters \ {"admitted_ok"} : tally'[k] = tally[k])
          /\ tally'["admitted_ok"] = tally["admitted_ok"] + 1
      BY <1>3, <1>4, <1>8, <2>3
    <3> HIDE DEF o, o1, t, t1
    <3>3. /\ o1 = tally'["skipped"] + tally'["enter_fail"] + tally'["admitted_fail"] + Ends'
          /\ t1 + Ends' <= tally'["admitted_ok"]
      BY <1>4, <1>5, <2>0, <2>1, <3>1, <3>2
    <3> QED BY <1>3, <2>0, <3>3 DEF UsersInv, o1, t1
  <2>4. CASE /\ p = "over" /\ S \in {{"skipped"}, {"enter_fail"}, {"admitted_fail"}}
             /\ phase[c] \notin Trying
    <3>1. o1 = o + 1 /\ t1 = t
      BY <1>1, <1>6, <1>8, <2>0, <2>4 DEF Trying
    <3>2. /\ tally'["skipped"] + tally'["enter_fail"] + tally'["admitted_fail"] =
               tally["skipped"] + tally["enter_fail"] + tally["admitted_fail"] + 1
          /\ \A k \in {"admitted_ok", "commit_queued_ok", "commit_fail"} : tally'[k] = tally[k]
      BY <1>3, <1>4, <1>5, <1>8, <2>4
    <3> HIDE DEF o, o1, t, t1
    <3>3. /\ o1 = tally'["skipped"] + tally'["enter_fail"] + tally'["admitted_fail"] + Ends'
          /\ t1 + Ends' <= tally'["admitted_ok"]
      BY <1>4, <1>5, <2>0, <2>1, <3>1, <3>2
    <3> QED BY <1>3, <2>0, <3>3 DEF UsersInv, o1, t1
  <2>5. CASE p = "over" /\ S \in {{"commit_queued_ok"}, {"commit_fail"}} /\ phase[c] \in Trying
    <3>1. o1 = o + 1 /\ t = t1 + 1
      BY <1>1, <1>6, <1>8, <2>0, <2>5 DEF Trying
    <3>2. /\ Ends' = Ends + 1
          /\ \A k \in {"admitted_ok", "skipped", "enter_fail", "admitted_fail"} : tally'[k] = tally[k]
      BY <1>3, <1>4, <1>5, <1>8, <2>1, <2>5
    <3> HIDE DEF o, o1, t, t1
    <3>3. /\ o1 = tally'["skipped"] + tally'["enter_fail"] + tally'["admitted_fail"] + Ends'
          /\ t1 + Ends' <= tally'["admitted_ok"]
      BY <1>4, <1>5, <2>0, <2>1, <3>1, <3>2
    <3> QED BY <1>3, <2>0, <3>3 DEF UsersInv, o1, t1
  <2> QED BY <1>1, <2>2, <2>3, <2>4, <2>5
<1> QED BY <1>7, <1>8

\* A ticket that is taken and not counted yet.
Underway == {"seat", "wait", "renew"}

TicketInv ==
    /\ Tallied /\ left \in Int /\ Tickets \in Int
    /\ plan = "tickets" =>
         /\ script \notin {"read", "write"}
         /\ \A c \in Buyers : phase[c] \notin {"commit", "enter again", "poll again"}
         /\ Ends + UsersAt(Underway) <= Tickets - left
         /\ script \in {"reset", "run"} \/ "interrupt" \notin may =>
              Ends + UsersAt(Underway) = Tickets - left
         /\ UsersAt({"poll"}) + tally["admitted_ok"] + tally["admitted_fail"] <= tally["enter_ok"]

\* Buyer c goes on to p and counts S.
Buys(c) ==
    \E p \in Phases, S \in SUBSET Counters :
      /\ phase' = [phase EXCEPT ![c] = p] /\ Count(c, S)
      /\ p \notin {"commit", "enter again", "poll again"}
      /\ \/ /\ left' = left /\ (phase[c] \in Underway <=> p \in Underway)
            /\ \/ S = {} /\ (p = "poll" => phase[c] = "poll")
               \/ S = {"enter_ok"} /\ p = "poll"
               \/ S = {"enter_fail"} /\ p = "over"
               \/ S \in {{"admitted_ok"}, {"admitted_fail"}} /\ phase[c] = "poll" /\ p # "poll"
         \/ phase[c] = "buy" /\ p = "seat" /\ S = {} /\ left' = left - 1
         \/ /\ phase[c] \in Underway /\ p = "buy" /\ left' = left
            /\ S \in {{"commit_queued_ok"}, {"commit_fail"}}

LEMMA BuyerCounts ==
    ASSUME DeskTypes, TicketInv, NEW c \in Clients, Buy(c)
    PROVE  Buys(c) /\ UNCHANGED plan /\ plan = "tickets"
<1> USE DEF Turn, Underway
<1>0. /\ phase \in [Clients -> Phases] /\ phase = [phase EXCEPT ![c] = phase[c]]
      /\ phase[c] \in Phases \ {"commit", "enter again", "poll again"}
      /\ UNCHANGED plan /\ plan = "tickets" /\ Tallied
  BY DEF DeskTypes, Buy, TicketInv
<1>1. /\ {{}, {"enter_ok"}, {"admitted_ok"}, {"enter_fail"}, {"admitted_fail"},
          {"commit_queued_ok"}, {"commit_fail"}} \subseteq SUBSET Counters
      /\ {"enter", "poll", "buy", "seat", "wait", "renew", "over"}
           \subseteq Phases \ {"commit", "enter again", "poll again"}
  BY DEF Counters, Phases
<1>2. UNCHANGED tally => Count(c, {})
  BY <1>0, CountsNothing
<1>3. CASE TicketStart(c)
  BY <1>0, <1>1, <1>2, <1>3 DEF TicketStart, Buys
<1>4. CASE TicketEnter(c)
  <2>1. /\ phase[c] = "enter" /\ left' = left
        /\ \/ phase' = [phase EXCEPT ![c] = "poll"] /\ Count(c, {"enter_ok"})
           \/ UNCHANGED phase /\ Count(c, {})
           \/ phase' = [phase EXCEPT ![c] = "over"] /\ Count(c, {"enter_fail"})
    BY <1>4 DEF TicketEnter
  <2> QED BY <1>0, <1>1, <2>1 DEF Buys
<1>5. CASE TicketTold(c)
  <2>1. /\ phase[c] = "poll" /\ left' = left
        /\ \/ UNCHANGED phase /\ Count(c, {})
           \/ phase' = [phase EXCEPT ![c] = "buy"] /\ Count(c, {"admitted_ok"})
    BY <1>5 DEF TicketTold
  <2> QED BY <1>0, <1>1, <2>1 DEF Buys
<1>6. CASE TakeTicket(c, Share(c))
  <2>1. /\ phase[c] = "buy" /\ Count(c, {})
        /\ \/ phase' = [phase EXCEPT ![c] = "seat"] /\ left' = left - 1
           \/ phase' = [phase EXCEPT ![c] = "over"] /\ left' = left
    BY <1>2, <1>6 DEF TakeTicket
  <2> QED BY <1>0, <1>1, <2>1 DEF Buys
<1>7. CASE AllocSeat(c)
  <2>1. /\ phase[c] = "seat" /\ Count(c, {}) /\ left' = left
        /\ phase' = [phase EXCEPT ![c] = "wait"]
    BY <1>2, <1>7 DEF AllocSeat
  <2> QED BY <1>0, <1>1, <2>1 DEF Buys
<1>8. CASE TicketAnswered(c)
  <2>1. /\ phase[c] = "wait" /\ left' = left
        /\ \/ phase' = [phase EXCEPT ![c] = "buy"] /\ Count(c, {"commit_queued_ok"})
           \/ phase' = [phase EXCEPT ![c] = "buy"] /\ Count(c, {"commit_fail"})
           \/ phase' = [phase EXCEPT ![c] = "renew"] /\ Count(c, {})
    BY <1>8 DEF TicketAnswered, Done
  <2> QED BY <1>0, <1>1, <2>1 DEF Buys
<1>9. CASE Renewed(c)
  <2>1. /\ phase[c] = "renew" /\ left' = left
        /\ \/ phase' = [phase EXCEPT ![c] = "buy"] /\ Count(c, {"commit_fail"})
           \/ phase' = [phase EXCEPT ![c] = "wait"] /\ Count(c, {})
    BY <1>9 DEF Renewed, Done
  <2> QED BY <1>0, <1>1, <2>1 DEF Buys
<1>10. CASE TicketNoAnswer(c)
  <2>1. /\ phase[c] = "wait" /\ left' = left
        /\ \/ phase' = [phase EXCEPT ![c] = "buy"] /\ Count(c, {"commit_fail"})
           \/ UNCHANGED phase /\ Count(c, {})
    BY <1>10 DEF TicketNoAnswer, Done
  <2> QED BY <1>0, <1>1, <2>1 DEF Buys
<1>11. CASE Poll(c) /\ UNCHANGED ticketVars
  <2>1. UNCHANGED phase /\ Count(c, {}) /\ left' = left
    BY <1>2, <1>11 DEF Poll
  <2> QED BY <1>0, <1>1, <2>1 DEF Buys
<1>12. CASE GiveUp(c) /\ UNCHANGED ticketVars
  <2>1. /\ phase[c] = "poll" /\ left' = left
        /\ phase' = [phase EXCEPT ![c] = "over"] /\ Count(c, {"admitted_fail"})
    BY <1>0, <1>12 DEF GiveUp
  <2> QED BY <1>0, <1>1, <2>1 DEF Buys
<1> QED BY <1>0, <1>3, <1>4, <1>5, <1>6, <1>7, <1>8, <1>9, <1>10, <1>11, <1>12 DEF Buy

LEMMA BuysKeeps ==
    ASSUME DeskTypes, TicketInv, NEW c \in Clients, c \in Users, Buys(c),
           UNCHANGED <<plan, script, may>>,
           plan = "tickets"
    PROVE  TicketInv'
<1>1. PICK p \in Phases, S \in SUBSET Counters :
      /\ phase' = [phase EXCEPT ![c] = p] /\ Count(c, S)
      /\ p \notin {"commit", "enter again", "poll again"}
      /\ \/ /\ left' = left /\ (phase[c] \in Underway <=> p \in Underway)
            /\ \/ S = {} /\ (p = "poll" => phase[c] = "poll")
               \/ S = {"enter_ok"} /\ p = "poll"
               \/ S = {"enter_fail"} /\ p = "over"
               \/ S \in {{"admitted_ok"}, {"admitted_fail"}} /\ phase[c] = "poll" /\ p # "poll"
         \/ phase[c] = "buy" /\ p = "seat" /\ S = {} /\ left' = left - 1
         \/ /\ phase[c] \in Underway /\ p = "buy" /\ left' = left
            /\ S \in {{"commit_queued_ok"}, {"commit_fail"}}
  BY DEF Buys
<1>2. c \in Clients /\ phase'[c] = p /\ \A d \in Clients \ {c} : phase'[d] = phase[d]
  BY <1>1, UsersFinite DEF DeskTypes
<1>3. /\ Tallied /\ Tallied'
      /\ \A k \in Counters : tally'[k] = IF k \in S THEN tally[k] + 1 ELSE tally[k]
  BY <1>1, Counted DEF TicketInv
<1>4. Counters = {"skipped", "enter_ok", "enter_fail", "admitted_ok", "admitted_fail",
                  "commit_queued_ok", "commit_fail"}
  BY DEF Counters
<1>5. \A k \in Counters : tally[k] \in Nat
  BY <1>3 DEF Tallied
<1> DEFINE under == UsersAt(Underway)  under1 == UsersAt(Underway)'
           line == UsersAt({"poll"})   line1 == UsersAt({"poll"})'
           ended == Ends               ended1 == Ends'
           told == tally["admitted_ok"] + tally["admitted_fail"]
           told1 == tally'["admitted_ok"] + tally'["admitted_fail"]
           entered == tally["enter_ok"]  entered1 == tally'["enter_ok"]
           whole == script \in {"reset", "run"} \/ "interrupt" \notin may
<1>6. /\ under \in Nat /\ under1 \in Nat
      /\ (phase[c] \in Underway <=> p \in Underway) => under1 = under
      /\ phase[c] \notin Underway /\ p \in Underway => under1 = under + 1
      /\ phase[c] \in Underway /\ p \notin Underway => under = under1 + 1
  BY <1>1, <1>2, UserMoves DEF Underway
<1>7. /\ line \in Nat /\ line1 \in Nat
      /\ (phase[c] = "poll" <=> p = "poll") => line1 = line
      /\ phase[c] # "poll" /\ p = "poll" => line1 = line + 1
      /\ phase[c] = "poll" /\ p # "poll" => line = line1 + 1
  BY <1>1, <1>2, UserMoves
<1>8. /\ left \in Int /\ Tickets \in Int
      /\ ended + under <= Tickets - left
      /\ whole => ended + under = Tickets - left
      /\ line + told <= entered
  <2>1. line + tally["admitted_ok"] + tally["admitted_fail"] <= tally["enter_ok"]
    BY DEF TicketInv
  <2>2. line + told <= entered
    BY <1>4, <1>5, <1>7, <2>1
  <2> QED BY <2>2 DEF TicketInv
<1>9. \A k \in Counters : tally'[k] \in Nat
  BY <1>3 DEF Tallied
<1>10. ended \in Nat /\ ended1 \in Nat /\ told \in Nat /\ told1 \in Nat
       /\ entered \in Nat /\ entered1 \in Nat
  BY <1>4, <1>5, <1>9 DEF Ends
<1>11. /\ S \subseteq {"enter_ok", "enter_fail", "admitted_ok", "admitted_fail"} => ended1 = ended
       /\ S \in {{"commit_queued_ok"}, {"commit_fail"}} => ended1 = ended + 1
       /\ S \subseteq {"enter_ok", "enter_fail", "commit_queued_ok", "commit_fail"} => told1 = told
       /\ S \in {{"admitted_ok"}, {"admitted_fail"}} => told1 = told + 1
       /\ entered <= entered1
       /\ S = {"enter_ok"} => entered1 = entered + 1
  BY <1>3, <1>4, <1>5 DEF Ends
<1> HIDE DEF under, under1, line, line1, ended, ended1, told, told1, entered, entered1, whole
<1>12. line1 + told1 <= entered1
  <2>1. CASE S = {} /\ (p = "poll" => phase[c] = "poll")
    BY <1>7, <1>8, <1>10, <1>11, <2>1
  <2>2. CASE S = {"enter_ok"} /\ p = "poll"
    BY <1>7, <1>8, <1>10, <1>11, <2>2
  <2>3. CASE S = {"enter_fail"} /\ p = "over"
    BY <1>7, <1>8, <1>10, <1>11, <2>3
  <2>4. CASE S \in {{"admitted_ok"}, {"admitted_fail"}} /\ phase[c] = "poll" /\ p # "poll"
    <3>1. line = line1 + 1 /\ told1 = told + 1 /\ entered <= entered1
      BY <1>7, <1>11, <2>4
    <3> QED BY <1>7, <1>8, <1>10, <3>1
  <2>5. CASE phase[c] \in Underway /\ p = "buy" /\ S \in {{"commit_queued_ok"}, {"commit_fail"}}
    <3>1. line = line1 /\ told1 = told /\ entered <= entered1
      BY <1>7, <1>11, <2>5 DEF Underway
    <3> QED BY <1>7, <1>8, <1>10, <3>1
  <2> QED BY <1>1, <2>1, <2>2, <2>3, <2>4, <2>5
<1>13. \/ ended1 + under1 = ended + under /\ left' = left
       \/ ended1 + under1 = ended + under + 1 /\ left' = left - 1
  <2>1. CASE left' = left /\ (phase[c] \in Underway <=> p \in Underway)
             /\ S \subseteq {"enter_ok", "enter_fail", "admitted_ok", "admitted_fail"}
    <3>1. under1 = under /\ ended1 = ended
      BY <1>6, <1>11, <2>1
    <3> QED BY <2>1, <3>1
  <2>2. CASE phase[c] = "buy" /\ p = "seat" /\ S = {} /\ left' = left - 1
    <3>1. under1 = under + 1 /\ ended1 = ended
      BY <1>6, <1>11, <2>2 DEF Underway
    <3> QED BY <1>6, <1>10, <2>2, <3>1
  <2>3. CASE /\ phase[c] \in Underway /\ p = "buy" /\ left' = left
             /\ S \in {{"commit_queued_ok"}, {"commit_fail"}}
    <3>1. under = under1 + 1 /\ ended1 = ended + 1
      BY <1>6, <1>11, <2>3 DEF Underway
    <3> QED BY <1>6, <1>10, <2>3, <3>1
  <2> QED BY <1>1, <2>1, <2>2, <2>3
<1>14. left' \in Int
  BY <1>8, <1>13
<1>15. ended1 + under1 <= Tickets - left' /\ (whole => ended1 + under1 = Tickets - left')
  BY <1>6, <1>8, <1>10, <1>13
<1>16. \A d \in Buyers : phase'[d] \notin {"commit", "enter again", "poll again"}
  <2>1. \A d \in Buyers : phase[d] \notin {"commit", "enter again", "poll again"}
    BY DEF TicketInv
  <2> QED BY <1>1, <1>2, <2>1, BurstAssumption
<1>17. line1 + tally'["admitted_ok"] + tally'["admitted_fail"] <= tally'["enter_ok"]
  BY <1>4, <1>7, <1>9, <1>12 DEF told1, entered1
<1>18. (script \in {"reset", "run"} \/ "interrupt" \notin may)' <=> whole
  BY DEF whole
<1>19. Ends' + UsersAt(Underway)' <= Tickets - left'
       /\ (whole => Ends' + UsersAt(Underway)' = Tickets - left')
  BY <1>15 DEF ended1, under1
<1>20. script' \notin {"read", "write"} /\ Tickets \in Int
  BY DEF TicketInv
<1> HIDE DEF whole
<1> QED BY <1>3, <1>14, <1>16, <1>17, <1>18, <1>19, <1>20 DEF TicketInv, Underway, line1

LEMMA CountersInit == Init => UsersInv /\ TicketInv
<1> SUFFICES ASSUME Init PROVE UsersInv /\ TicketInv
  OBVIOUS
<1>1. /\ tally = [k \in Counters |-> 0] /\ left = Tickets /\ script \in FirstSteps
      /\ phase \in [Clients -> {"idle", "poll", "cancelled"}]
      /\ \A c \in Clients : phase[c] = "poll" => c \in Phased
  BY Zenon DEF Init, ClientInit, TicketInit
<1>2. Tallied /\ \A k \in Counters : tally[k] = 0
  BY <1>1 DEF Tallied
<1>3. Ends = 0 /\ \A k \in {"skipped", "enter_ok", "enter_fail", "admitted_ok", "admitted_fail"} :
                    tally[k] = 0
  BY <1>2 DEF Ends, Counters
<1>4. ASSUME NEW CONSTANT P, {"idle", "poll", "cancelled"} \cap P = {} PROVE UsersAt(P) = 0
  <2>1. {c \in Users : phase[c] \in P} = {}
    BY <1>1, <1>4, UsersFinite
  <2> QED BY <2>1, FS_EmptySet DEF UsersAt
<1>5. UsersAt({"over"}) = 0 /\ UsersAt(Trying) = 0 /\ UsersAt(Underway) = 0
  BY <1>4 DEF Trying, Underway
<1>6. plan = "tickets" => UsersAt({"poll"}) = 0
  <2>1. plan = "tickets" => {c \in Users : phase[c] \in {"poll"}} = {}
    BY <1>1, BurstAssumption DEF Users
  <2> QED BY <2>1, FS_EmptySet DEF UsersAt
<1>7. Tickets \in Int
  BY TicketAssumption
<1>8. UsersInv
  BY <1>2, <1>3, <1>5 DEF UsersInv
<1>9. TicketInv
  <2>1. plan = "tickets" => script \notin {"read", "write"}
    BY <1>1 DEF FirstSteps
  <2>2. \A c \in Buyers : phase[c] \notin {"commit", "enter again", "poll again"}
    BY <1>1, BurstAssumption
  <2>3. /\ left \in Int
        /\ Ends + UsersAt(Underway) = Tickets - left
        /\ Ends + UsersAt(Underway) <= Tickets - left
    BY <1>1, <1>3, <1>5, <1>7
  <2>4. plan = "tickets" =>
          UsersAt({"poll"}) + tally["admitted_ok"] + tally["admitted_fail"] <= tally["enter_ok"]
    BY <1>3, <1>6
  <2> QED BY <1>2, <1>7, <2>1, <2>2, <2>3, <2>4 DEF TicketInv
<1> QED BY <1>8, <1>9

\* Nobody is counted and nobody moves; the script does not begin anew.
LEMMA ScriptCounts ==
    ASSUME UsersInv, TicketInv, UNCHANGED <<tally, left, plan, may, phase>>,
           plan = "tickets" => script' \notin {"read", "write"},
           script' \in {"reset", "run"} => plan # "tickets" \/ script \in {"reset", "run"}
    PROVE  UsersInv' /\ TicketInv'
<1>1. \A P : UsersAt(P)' = UsersAt(P)
  BY DEF UsersAt, Users
<1>2. UsersAt({"over"})' = UsersAt({"over"}) /\ UsersAt({"poll"})' = UsersAt({"poll"})
      /\ UsersAt(Trying)' = UsersAt(Trying) /\ UsersAt(Underway)' = UsersAt(Underway)
  BY DEF UsersAt, Users, Trying, Underway
<1>3. Tallied' /\ Ends' = Ends
  BY DEF UsersInv, Tallied, Ends
<1>4. UsersInv'
  BY <1>2, <1>3 DEF UsersInv
<1>5. TicketInv'
  BY <1>2, <1>3 DEF TicketInv
<1> QED BY <1>4, <1>5

\* Ctrl-C: the users that are over stay it, the others are nowhere, and the
\* tickets of those under way are not counted.
LEMMA InterruptCounts ==
    ASSUME DeskTypes, UsersInv, TicketInv, Interrupt
    PROVE  UsersInv' /\ TicketInv'
<1>1. /\ UNCHANGED <<tally, left, plan, may>> /\ "interrupt" \in may /\ script' \in {After, "over"}
      /\ phase' = [c \in Clients |-> IF c \in Users /\ phase[c] \notin Ended
                                      THEN "cancelled" ELSE phase[c]]
  BY DEF Interrupt, Step
<1>2. \A c \in Users : phase'[c] = IF phase[c] \in Ended THEN phase[c] ELSE "cancelled"
  BY <1>1, UsersFinite
<1>3. Users' = Users /\ \A c \in Clients \ Users : phase'[c] = phase[c]
  BY <1>1 DEF Users
<1>4. UsersAt({"over"})' = UsersAt({"over"})
  <2>1. {c \in Users : phase'[c] \in {"over"}} = {c \in Users : phase[c] \in {"over"}}
    BY <1>2 DEF Ended
  <2> QED BY <1>3, <2>1 DEF UsersAt
<1>5. ASSUME NEW CONSTANT P, "cancelled" \notin P
      PROVE  UsersAt(P) \in Nat /\ UsersAt(P)' \in Nat /\ UsersAt(P)' <= UsersAt(P)
  <2> DEFINE F == {c \in Users : phase[c] \in P}  G == {c \in Users : phase'[c] \in P}
  <2>1. G \subseteq F /\ F \subseteq Users
    BY <1>2, <1>5
  <2>2. UsersAt(P) = Cardinality(F) /\ UsersAt(P)' = Cardinality(G)
    BY <1>3 DEF UsersAt
  <2> HIDE DEF F, G
  <2>3. IsFiniteSet(F)
    BY <2>1, UsersFinite, FS_Subset
  <2>4. IsFiniteSet(G) /\ Cardinality(G) <= Cardinality(F)
    BY <2>1, <2>3, FS_Subset
  <2> QED BY <2>2, <2>3, <2>4, FS_CardinalityType
<1>6. Trying' = Trying /\ Underway' = Underway
  BY DEF Trying, Underway
<1>7. /\ UsersAt(Trying) \in Nat /\ UsersAt(Trying)' \in Nat /\ UsersAt(Trying)' <= UsersAt(Trying)
      /\ UsersAt(Underway) \in Nat /\ UsersAt(Underway)' \in Nat
      /\ UsersAt(Underway)' <= UsersAt(Underway)
      /\ UsersAt({"poll"}) \in Nat /\ UsersAt({"poll"})' \in Nat
      /\ UsersAt({"poll"})' <= UsersAt({"poll"})
  BY <1>5 DEF Trying, Underway
<1>8. Tallied /\ Tallied' /\ Ends' = Ends
  BY <1>1 DEF UsersInv, Tallied, Ends
<1>9. Ends \in Nat /\ \A k \in {"enter_ok", "admitted_ok", "admitted_fail"} : tally[k] \in Nat
  BY <1>8 DEF Tallied, Ends, Counters
<1>10. UsersInv'
  <2>1. plan # "tickets" => UsersAt(Trying)' + Ends <= tally["admitted_ok"]
    BY <1>7, <1>9 DEF UsersInv
  <2> QED BY <1>1, <1>4, <1>6, <1>8, <2>1 DEF UsersInv
<1>11. TicketInv'
  <2>1. left \in Int /\ Tickets \in Int
    BY DEF TicketInv
  <2>2. plan = "tickets" => script' \in {"drain", "over"}
    BY <1>1 DEF After
  <2>3. plan = "tickets" =>
          /\ Ends + UsersAt(Underway)' <= Tickets - left
          /\ UsersAt({"poll"})' + tally["admitted_ok"] + tally["admitted_fail"] <= tally["enter_ok"]
    <3>1. plan = "tickets" =>
            /\ Ends + UsersAt(Underway) <= Tickets - left
            /\ UsersAt({"poll"}) + tally["admitted_ok"] + tally["admitted_fail"] <= tally["enter_ok"]
      BY DEF TicketInv
    <3> QED BY <1>7, <1>9, <2>1, <3>1
  <2>4. plan = "tickets" =>
          \A c \in Buyers : phase'[c] \notin {"commit", "enter again", "poll again"}
    BY <1>2 DEF TicketInv, Users
  <2> QED BY <1>1, <1>6, <1>8, <2>1, <2>2, <2>3, <2>4 DEF TicketInv
<1> QED BY <1>10, <1>11

\* A user of the burst test or a browser; a browser beside the ticket test is none
\* of its users.
LEMMA WalkCounts ==
    ASSUME DeskTypes, UsersInv, TicketInv, NEW c \in Clients, Burst(c) \/ Phase(c)
    PROVE  UsersInv' /\ TicketInv'
<1>1. Counts(c) /\ UNCHANGED <<plan, script, may, left>>
  BY ClientCounts DEF UsersInv, Burst, Phase, Rest
<1>2. PICK p \in Phases, S \in SUBSET Counters : phase' = [phase EXCEPT ![c] = p] /\ Count(c, S)
  BY <1>1 DEF Counts
<1>3. Tallied /\ Tallied' /\ Tickets \in Int /\ left' \in Int
  BY <1>1, <1>2, Counted DEF UsersInv, TicketInv
<1>4. CASE plan # "tickets"
  BY <1>1, <1>3, <1>4, CountsKeeps DEF TicketInv
<1>5. CASE plan = "tickets"
  <2>1. c \notin Users /\ Users = Buyers
    BY <1>5, BurstAssumption DEF Burst, Phase, Users
  <2>2. UsersAt({"poll"})' = UsersAt({"poll"}) /\ UsersAt(Underway)' = UsersAt(Underway)
    BY <1>1, <1>2, <2>1, UserMoves DEF Underway
  <2>3. tally' = tally
    BY <1>2, <1>3, <2>1 DEF Count, Tallied
  <2>4. \A d \in Buyers : phase'[d] = phase[d]
    BY <1>2, <2>1, BurstAssumption DEF DeskTypes
  <2>5. TicketInv'
    BY <1>1, <1>3, <2>2, <2>3, <2>4 DEF TicketInv, Ends
  <2> QED BY <1>1, <1>3, <1>5, <2>5 DEF UsersInv
<1> QED BY <1>4, <1>5

LEMMA CountersStep ==
    ASSUME DeskInv, UsersInv, TicketInv, [Next]_vars
    PROVE  UsersInv' /\ TicketInv'
<1>0. DeskTypes
  BY DEF DeskInv
<1>8. ASSUME UNCHANGED <<tally, left, plan, may, phase, script>> PROVE UsersInv' /\ TicketInv'
  <2>1. plan = "tickets" => script' \notin {"read", "write"}
    BY <1>8 DEF TicketInv
  <2>2. script' \in {"reset", "run"} => script \in {"reset", "run"}
    BY <1>8
  <2> QED BY <1>8, <2>1, <2>2, ScriptCounts
<1>1. ASSUME NEW c \in Clients, Burst(c) \/ Phase(c) PROVE UsersInv' /\ TicketInv'
  BY <1>0, <1>1, WalkCounts
<1>2. ASSUME NEW c \in Clients, Buy(c) PROVE UsersInv' /\ TicketInv'
  <2>1. Buys(c) /\ UNCHANGED <<plan, script, may>> /\ plan = "tickets" /\ c \in Users
    BY <1>0, <1>2, BuyerCounts DEF Buy, Users
  <2>2. TicketInv'
    BY <1>0, <2>1, BuysKeeps
  <2> QED BY <2>1, <2>2 DEF UsersInv, TicketInv
<1>3. ASSUME NEW p \in DOMAIN polls, Gate(p) \/ GateFails(p) PROVE UsersInv' /\ TicketInv'
  <2>1. UNCHANGED <<tally, left, plan, may, phase, script>>
    BY <1>3 DEF Gate, GateFails
  <2> QED BY <1>8, <2>1
<1>4. ASSUME NEW h \in DOMAIN call, Serve(h) \/ ServeFails(h) \/ PodDies(h)
      PROVE  UsersInv' /\ TicketInv'
  <2>1. UNCHANGED <<tally, left, plan, may, phase, script>>
    BY <1>4 DEF Serve, ServeFails, PodDies
  <2> QED BY <1>8, <2>1
<1>5. CASE Tick \/ Order \/ Expires \/ Monitor \/ UNCHANGED vars
  <2>1. UNCHANGED <<tally, left, plan, may, phase, script>>
    BY <1>5 DEF Tick, Order, Expires, Monitor, vars
  <2> QED BY <1>8, <2>1
<1>6. CASE Interrupt
  BY <1>0, <1>6, InterruptCounts
<1>7. CASE ScriptStep
  <2>1. UNCHANGED <<tally, left, plan, may, phase>>
    BY <1>7 DEF ScriptStep, PrepareReset, PrepareControl, UsersEnd, Drain, Restore, Quiet
  <2>2. ASSUME script' \notin {"reset", "read", "write", "run"} PROVE UsersInv' /\ TicketInv'
    BY <2>1, <2>2, ScriptCounts
  <2>3. CASE PrepareReset
    <3>1. script = "reset" /\ script' = (IF plan = "burst" THEN "read" ELSE "run")
      BY <2>3 DEF PrepareReset, Step
    <3> QED BY <2>1, <3>1, ScriptCounts
  <2>4. CASE PrepareControl
    <3>1. plan # "tickets"
      BY <2>4 DEF PrepareControl, TicketInv
    <3> QED BY <2>1, <3>1, ScriptCounts
  <2>5. CASE UsersEnd
    <3>1. script' \in {"restore", "drain", "over"}
      BY <2>5 DEF UsersEnd, Step, After
    <3> QED BY <2>2, <3>1
  <2>6. CASE Drain
    <3>1. script' \in {"drain write", "watch", "restore"}
      BY <2>6 DEF Drain, Step
    <3> QED BY <2>2, <3>1
  <2>7. CASE Restore
    <3>1. script' \in {"restore write", "over"}
      BY <2>7 DEF Restore, Step
    <3> QED BY <2>2, <3>1
  <2> QED BY <1>7, <2>3, <2>4, <2>5, <2>6, <2>7 DEF ScriptStep
<1>9. ASSUME NEW s \in Seats, HoldExpires(s) PROVE UsersInv' /\ TicketInv'
  <2>1. UNCHANGED <<tally, left, plan, may, phase, script>>
    BY <1>9 DEF HoldExpires
  <2> QED BY <1>8, <2>1
<1> QED BY <1>1, <1>2, <1>3, <1>4, <1>5, <1>6, <1>7, <1>9 DEF Next

\* Every user of the burst test or of the browsers that is over is in one of the
\* counters, once, and went through the gate before its commit ended, for any
\* number of users, attempts and renewed permits, and after Ctrl-C too.
THEOREM UsersAreCounted == Spec => []UsersAddUp
<1>1. Init => DeskInv /\ UsersInv /\ TicketInv
  BY DeskInvInit, CountersInit
<1>2. DeskInv /\ UsersInv /\ TicketInv /\ [Next]_vars => DeskInv' /\ UsersInv' /\ TicketInv'
  BY DeskInvStep, CountersStep
<1>3. DeskInv /\ UsersInv /\ TicketInv => UsersAddUp
  <2> SUFFICES ASSUME DeskInv, UsersInv PROVE UsersAddUp
    OBVIOUS
  <2>1. UsersAt(Trying) \in Nat
    <3>1. {c \in Users : phase[c] \in Trying} \subseteq Users
      OBVIOUS
    <3> QED BY <3>1, UsersFinite, FS_Subset, FS_CardinalityType DEF UsersAt
  <2>2. tally["admitted_ok"] \in Nat /\ Ends \in Nat
    BY DEF UsersInv, Tallied, Counters, Ends
  <2> QED BY <2>1, <2>2 DEF UsersInv, UsersAddUp
<1> QED BY <1>1, <1>2, <1>3, PTL DEF Spec

\* Each ticket of the ticket test is left, under way with one user, or in one of
\* the two counters, for any number of users and tickets and however often its
\* commit is sent again; Ctrl-C alone makes some disappear.
THEOREM TicketsAreCounted == Spec => []TicketsAddUp
<1>1. Init => DeskInv /\ UsersInv /\ TicketInv
  BY DeskInvInit, CountersInit
<1>2. DeskInv /\ UsersInv /\ TicketInv /\ [Next]_vars => DeskInv' /\ UsersInv' /\ TicketInv'
  BY DeskInvStep, CountersStep
<1>3. DeskInv /\ UsersInv /\ TicketInv => TicketsAddUp
  <2> SUFFICES ASSUME DeskInv, TicketInv, plan = "tickets" PROVE TicketsAddUp
    BY DEF TicketsAddUp
  <2>1. UsersAt({"poll"}) \in Nat
    <3>1. {c \in Users : phase[c] \in {"poll"}} \subseteq Users
      OBVIOUS
    <3> QED BY <3>1, UsersFinite, FS_Subset, FS_CardinalityType DEF UsersAt
  <2>2. \A k \in {"enter_ok", "admitted_ok", "admitted_fail"} : tally[k] \in Nat
    BY DEF TicketInv, Tallied, Counters
  <2>3. tally["admitted_ok"] + tally["admitted_fail"] <= tally["enter_ok"]
    <3>1. UsersAt({"poll"}) + tally["admitted_ok"] + tally["admitted_fail"] <= tally["enter_ok"]
      BY DEF TicketInv
    <3> QED BY <2>1, <2>2, <3>1
  <2> QED BY <2>3 DEF TicketInv, TicketsAddUp, Underway
<1> QED BY <1>1, <1>2, <1>3, PTL DEF Spec

\* The counters of every script add up over its users and its tickets.
THEOREM TallyIsKept == Spec => []TallyAddsUp
<1>1. UsersAddUp /\ TicketsAddUp => TallyAddsUp
  BY DEF TallyAddsUp
<1> QED BY <1>1, UsersAreCounted, TicketsAreCounted, PTL
=============================================================================
