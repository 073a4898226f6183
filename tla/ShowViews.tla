----------------------------- MODULE ShowViews -----------------------------
(***************************************************************************)
(* A concert show under its readers, its writers and the loops that keep   *)
(* its counters together.                                                  *)
(***************************************************************************)
EXTENDS ShowTraffic, ShowReads, ShowSync

vars == <<showVars, trafficVars, readVars, since, syncVars, may>>

\* since follows every step: a request that has not started has all that is
\* sold or taken now, one that runs what has been so ever since it started.
\* What may happen stays what it is.
Observe ==
    /\ may' = may
    /\ since' = [x \in Readers |->
                   CASE rpc'[x] = "idle" -> [sold |-> sold', taken |-> Taken']
                     [] rpc'[x] = "over" -> [sold |-> {}, taken |-> {}]
                     [] OTHER -> [sold |-> since[x].sold \cap sold',
                                  taken |-> since[x].taken \cap Taken']]

\* A show whose caches are empty: some of its seats may be sold, and any of the
\* actors, and any of the faults, may never come.
Init ==
    /\ may \in SUBSET Faults
    /\ tpc \in [Tickets -> {"idle", "done", "over"}] /\ val = [t \in Tickets |-> 0]
    /\ \A t, u \in Tickets :
         tpc[t] = "done" /\ tpc[u] = "done" /\ SeatOf[t] = SeatOf[u] => t = u
    /\ sold = {s \in Seats : \E t \in Tickets : tpc[t] = "done" /\ SeatOf[t] = s}
    /\ held = {} /\ dbRemain = Recount(sold)
    /\ key = [s \in Seats |-> IF s \in sold THEN Sold ELSE Nobody]
    /\ remain \in {dbRemain, Missing} /\ meta = Missing
    /\ snap = NoSnap /\ fresh = {}
    /\ dirty = FALSE /\ astray = FALSE
    /\ ReadInit
    /\ since = [x \in Readers |-> IF rpc[x] = "idle" THEN [sold |-> sold, taken |-> Taken]
                                                     ELSE [sold |-> {}, taken |-> {}]]
    /\ wpc \in [Syncers -> {"sleep", "over"}] /\ copy = [w \in Syncers |-> 0]
    /\ lock = Nobody /\ recount = 0
    /\ spc \in {"idle", "over"} /\ apc \in {"idle", "over"}

ServeTicket(t) == TicketStep(t) /\ UNCHANGED <<readVars, syncVars>> /\ Observe
AskRefund(t) == Refund(t) /\ UNCHANGED <<readVars, syncVars>> /\ Observe
ServeRead(x) == ReadStep(x) /\ UNCHANGED <<trafficVars, syncVars>> /\ Observe
RunLoop(w) == LoopStep(w) /\ UNCHANGED <<trafficVars, readVars>> /\ Observe
Crash(w) == LoopCrash(w) /\ UNCHANGED <<trafficVars, readVars>> /\ Observe
Startup == StartupStep /\ UNCHANGED <<trafficVars, readVars>> /\ Observe
Administer == AdminStep /\ UNCHANGED <<trafficVars, readVars>> /\ Observe
FreeLock == LockExpires /\ UNCHANGED <<trafficVars, readVars>> /\ Observe

\* The TTL of the snapshot or of shows_meta runs out.
Expire ==
    /\ \/ snap.there /\ snap' = NoSnap /\ UNCHANGED meta
       \/ meta # Missing /\ meta' = Missing /\ UNCHANGED snap
    /\ UNCHANGED <<sold, dbRemain, key, held, remain, dirty, fresh, astray, trafficVars,
                   readVars, syncVars>>
    /\ Observe

\* So does that of a seat's key, of the hold set or of the counter. A hold has
\* one from the start; the key of a seat that is sold and the counter get one
\* when the show sells out, and may go at any time here.
KeyExpires ==
    /\ "expiry" \in may
    /\ \/ /\ \E s \in Seats : key[s] # Nobody /\ key' = [key EXCEPT ![s] = Nobody]
          /\ UNCHANGED <<held, remain>>
       \/ /\ held # {} /\ held' = {}
          /\ UNCHANGED <<key, remain>>
       \/ /\ remain # Missing /\ remain' = Missing
          /\ UNCHANGED <<key, held>>
    /\ UNCHANGED <<sold, dbRemain, dirty, snap, fresh, meta, astray, trafficVars,
                   readVars, syncVars>>
    /\ Observe

Next ==
    \/ \E t \in Tickets : ServeTicket(t) \/ AskRefund(t)
    \/ \E x \in Readers : ServeRead(x)
    \/ \E w \in Syncers : RunLoop(w) \/ Crash(w)
    \/ Startup
    \/ Administer
    \/ FreeLock
    \/ Expire
    \/ KeyExpires

Spec == Init /\ [][Next]_vars

\* Requests and handlers that were started go on, the loops never end, and the
\* TTL of the lock runs out.
Fairness ==
    /\ \A t \in Tickets : WF_vars(ServeTicket(t))
    /\ \A w \in Syncers : WF_vars(RunLoop(w))
    /\ WF_vars(FreeLock)

FairSpec == Spec /\ Fairness

TypeOK == ShowTypeOK /\ TrafficTypeOK /\ ReadTypeOK /\ SyncTypeOK /\ may \subseteq Faults

-----------------------------------------------------------------------------

Answers(x) == page[x].confirmed \cup page[x].holds

\* The page of a concert and booking-holds show as taken every seat that was
\* sold when the request came and is sold still: no cached snapshot hides one,
\* nor does a call of Redis that fails; only the query of booking-holds that
\* fails and is passed over (concert_read.py:91-98).
BookedIsShown ==
    \A x \in Readers : rpc[x] = "answer" /\ kind[x] # "show" /\ "query" \notin blind[x]
      => since[x].sold \subseteq Answers(x)

\* booking-holds also shows every seat that has been on hold or sold all along,
\* its key there all the time, though the worker moves it from one to the other
\* meanwhile; unless it has taken the failure of one of its two reads of seats
\* for an empty answer.
TakenIsShown ==
    \A x \in Readers : rpc[x] = "answer" /\ kind[x] = "holds" /\ blind[x] = {}
      => since[x].taken \subseteq Answers(x)

\* A snapshot that was true when it was stored, and no longer shows the seats
\* sold, is about to be deleted by whoever booked or refunded one, unless a DEL
\* has failed.
SnapshotIsOwed ==
    snap.there /\ ~snap.late /\ snap.confirmed # sold
      => \E t \in Tickets : tpc[t] \in {"booked", "tell", "forget"}

\* A marked change of the counter is never forgotten by the loops: the show is
\* marked, about to be, or a loop is about to copy the counter as it is.
MarkIsKept ==
    remain # Missing /\ dbRemain # Least(remain, Total) /\ ~astray
      => \/ dirty
         \/ \E t \in Tickets : tpc[t] \in {"mark", "remark"}
         \/ \E w \in Syncers : \/ wpc[w] = "read"
                               \/ wpc[w] = "write" /\ copy[w] = Least(remain, Total)

\* As long as a pod runs the loop, remain_count ends up as the counter, though
\* the pod that held the lock may have died: or the last write left no mark.
RemainSettles ==
    <>[](\/ dbRemain = Least(remain, Total) \/ remain = Missing \/ astray
         \/ \A w \in Syncers : wpc[w] = "over")
=============================================================================
