---------------------------- MODULE PhasedClient ---------------------------
(***************************************************************************)
(* A user of sqs_load_real_concert55.py: all users take their places in    *)
(* line before the first of them polls, and a commit carries its queue_ref,*)
(* so that write-api may give it a new permit. A browser tab that is open  *)
(* already behaves like one (concert_booking_modal.js).                    *)
(***************************************************************************)
EXTENDS BurstClient

PhasedStart(c) ==
    /\ phase[c] = "idle" /\ Cardinality(Active \cap Phased) < Concurrency
    /\ Turn(c, "enter")
    /\ UNCHANGED <<tries, accepted, dropped, tally, roomVars, deskVars>>

PhasedEnter(c) ==
    /\ phase[c] = "enter"
    /\ \/ NewRef(c) /\ Turn(c, "entered") /\ Count(c, {"enter_ok"})
       \/ /\ LostRef(c) \/ UNCHANGED roomVars
          /\ Turn(c, "over") /\ Count(c, {"enter_fail"})
    /\ UNCHANGED <<tries, accepted, dropped, deskVars>>

\* The second phase begins when the first is over, for everybody.
SecondPhase(c) ==
    /\ phase[c] = "entered"
    /\ \A d \in Phased : phase[d] \notin {"idle", "enter"}
    /\ Turn(c, "poll")
    /\ UNCHANGED <<tries, accepted, dropped, tally, roomVars, deskVars>>

\* Only an admitted user looks for its seat, and may find none.
PhasedCommit(c) ==
    /\ phase[c] = "commit"
    /\ IF SeatFor[c] = Nobody
         THEN Turn(c, "over") /\ Count(c, {"commit_fail"}) /\ UNCHANGED <<tries, deskVars>>
         ELSE /\ tries' = [tries EXCEPT ![c] = @ + 1]
              /\ Post(<<c, tries[c] + 1>>, SeatFor[c], TRUE)
              /\ Turn(c, "wait") /\ Count(c, {})
    /\ UNCHANGED <<accepted, dropped, roomVars>>

\* A 429 is tried again as it is.
PhasedAnswered(c) ==
    /\ phase[c] = "wait" /\ Heard(c)
    /\ LET answer == call[Try(c)].step
       IN  /\ CASE answer = "queued" -> Turn(c, "over") /\ Count(c, {"commit_queued_ok"})
                [] answer = "taken" -> Turn(c, "over") /\ Count(c, {"commit_fail"})
                [] OTHER -> Again(c)
           /\ accepted' = IF answer = "queued" THEN accepted \cup {Try(c)} ELSE accepted
    /\ UNCHANGED <<tries, dropped, roomVars, deskVars>>
=============================================================================
