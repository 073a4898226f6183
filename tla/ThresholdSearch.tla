-------------------------- MODULE ThresholdSearch --------------------------
(***************************************************************************)
(* The search for the load an autoscaled service bears                     *)
(* (scripts/find_threshold.py): bisection between two loads. A round puts  *)
(* the middle load on the service, collects metrics and asks Gemini which  *)
(* half to go on with. The loads are floats there; here the range is such  *)
(* that every middle is a whole number.                                    *)
(***************************************************************************)
EXTENDS ScaledCluster

CONSTANTS
    Searched,           \* the object that scales the service
    Lowest, Highest,    \* --min, --max
    Rounds,             \* --iters
    NoLoad

ASSUME SearchAssumption ==
    /\ Searched \in Hpas \cup {Keda}
    /\ Lowest \in Nat /\ Highest \in Nat /\ Lowest < Highest
    /\ Rounds \in Nat \ {0} /\ NoLoad \notin Nat

VARIABLES search    \* the script

Loads == Lowest..Highest
NoSearch == [at |-> "off", low |-> Lowest, high |-> Highest, round |-> 1,
             safe |-> NoLoad, failure |-> NoLoad,
             refused |-> {},   \* the loads judged too much (of history)
             guessed |-> {},   \* the loads an error was taken for a judgement of
             bore |-> {}]      \* the capacities the service had when it was judged

SearchTypeOK ==
    search \in [at : {"off", "round", "loaded", "over"}, low : Loads, high : Loads,
                round : 1..Rounds, safe : Loads \cup {NoLoad}, failure : Loads \cup {NoLoad},
                refused : SUBSET Loads, guessed : SUBSET Loads, bore : SUBSET Nat]

Middle == (search.low + search.high) \div 2
Tolerance == Max({(Highest - Lowest) \div 20, 5})

Inject ==
    /\ search.at = "round"
    /\ demand' = Middle
    /\ search' = [search EXCEPT !.at = "loaded"]
    /\ UNCHANGED <<git, live, wired, may, touched, meddled, doubt>>

\* Mutant: a load that is too much does not bound the range.
Narrow_KeepsHigh(signal) ==
    CASE signal = "go_higher" -> [search EXCEPT !.safe = Middle, !.low = Middle]
      [] signal = "go_lower"  -> [search EXCEPT !.failure = Middle]
      [] signal = "converged" -> [search EXCEPT !.safe = Middle]

\* The bounds after a signal.
Narrow(signal) ==
    CASE signal = "go_higher" -> [search EXCEPT !.safe = Middle, !.low = Middle]
      [] signal = "go_lower"  -> [search EXCEPT !.failure = Middle, !.high = Middle]
      [] signal = "converged" -> [search EXCEPT !.safe = Middle]

\* The search goes on unless Gemini says it has converged, the range is narrow
\* enough, or the rounds are used up.
GoOn(s, signal) ==
    IF signal = "converged" \/ s.high - s.low <= Tolerance \/ s.round = Rounds
    THEN [s EXCEPT !.at = "over"]
    ELSE [s EXCEPT !.at = "round", !.round = @ + 1]

Right(signal) == IF signal = "go_lower" THEN Middle > Capacity(Searched)
                                        ELSE Middle <= Capacity(Searched)
\* An error of Gemini counts as a load that is borne.
OnError == "go_higher"
Signals == {[is |-> s, error |-> FALSE] : s \in {x \in {"go_higher", "go_lower", "converged"} :
                                                  Right(x)}}
           \cup (IF "dies" \in may THEN {[is |-> OnError, error |-> TRUE]} ELSE {})

Judge ==
    /\ search.at = "loaded"
    /\ \E signal \in Signals :
         search' = [GoOn(Narrow(signal.is), signal.is) EXCEPT
                      !.refused = @ \cup (IF signal.is = "go_lower" THEN {Middle} ELSE {}),
                      !.guessed = @ \cup (IF signal.error THEN {Middle} ELSE {}),
                      !.bore = @ \cup {Capacity(Searched)}]
    /\ demand' = 0
    /\ UNCHANGED <<git, live, wired, may, touched, meddled, doubt>>

SearchStep == Inject \/ Judge

\* What is reported (threshold_estimate), in fifths of a load: the last safe load,
\* and without one (or with 0) four fifths of the last that was too much. pre_scale
\* reads it as the measured safe maximum.
Estimate == IF search.safe \notin {NoLoad, 0} THEN 5 * search.safe
            ELSE IF search.failure # NoLoad THEN 4 * search.failure
            ELSE NoLoad
=============================================================================
