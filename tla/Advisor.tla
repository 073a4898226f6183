------------------------------ MODULE Advisor ------------------------------
(***************************************************************************)
(* The ai-advisor job (services/ai-advisor/run.py). Cron starts it every   *)
(* minute unless one runs. It asks Gemini for recommendations, writes at   *)
(* most three larger sizes to git, and keeps the time of each in a         *)
(* ConfigMap, with the time of its last full run. Times are kept here as   *)
(* the minutes that passed since, Cooldown standing for longer or never.   *)
(***************************************************************************)
EXTENDS ScaledCluster

CONSTANTS
    Keys,        \* the names Gemini gives to objects
    Meant,       \* the object a name is parsed as, or Nothing
    Nothing,
    Full,        \* the entry of the last full run
    Cooldown,    \* _COOLDOWN_MIN
    Interval,    \* NORMAL_INTERVAL_MIN
    Deadline,    \* a bound on the minutes of one job
    MaxPatches,  \* _MAX_PATCHES_RUN
    Attempts     \* calls to a Gemini that is unavailable

ASSUME AdvisorAssumption ==
    /\ Meant \in [Keys -> Targets \cup {Nothing}]
    /\ Nothing \notin Targets /\ Full \notin Keys
    /\ Interval \in Nat \ {0} /\ Cooldown \in Nat /\ Interval < Cooldown
    /\ Deadline \in Nat /\ MaxPatches \in Nat /\ Attempts \in Nat \ {0}

VARIABLES
    names,    \* the names Gemini uses in this behaviour
    notes,    \* the ConfigMap ai-advisor-cooldown
    job,      \* the job
    due,      \* the minute's job has not been started
    fresh,    \* minutes since the job that last committed under each name
    forgot    \* the names whose note was lost

advisorVars == <<names, notes, job, due, fresh, forgot>>

Entries == Keys \cup {Full}
Blank == [e \in Entries |-> Cooldown]
NoRec == [key |-> Nothing, to |-> 0, from |-> 0, guessed |-> FALSE]
NoJob == [at |-> "none", retried |-> FALSE, tries |-> 0, cool |-> Blank, since |-> 0,
          left |-> 0, rec |-> NoRec, seen |-> [min |-> 0, max |-> 0], applied |-> {}]
Places == {"none", "mode", "ask", "load", "pick", "read", "get", "put", "save",
           "stamp", "stamp save"}
Recs == [key : Keys \cup {Nothing}, to : 0..Top, from : 0..Top, guessed : BOOLEAN]
Jobs == [at : Places, retried : BOOLEAN, tries : 0..Attempts,
         cool : [Entries -> 0..Cooldown], since : 0..Deadline, left : 0..MaxPatches,
         rec : Recs, seen : Sizes, applied : SUBSET Keys]

AdvisorTypeOK ==
    /\ names \subseteq Keys /\ notes \in [Entries -> 0..Cooldown] /\ due \in BOOLEAN
    /\ fresh \in [Keys -> 0..(Cooldown + Deadline)] /\ forgot \subseteq Keys
    /\ job \in Jobs

AdvisorInit ==
    /\ notes = Blank /\ job = NoJob /\ due = FALSE
    /\ fresh = [k \in Keys |-> Cooldown + Deadline] /\ forgot = {}

Capped(n) == IF n < Cooldown THEN n ELSE Cooldown
\* What the ConfigMap is read as; every error reads as empty.
Readings == {notes} \cup (IF "unreadable" \in may THEN {Blank} ELSE {})
Goes(at) == [job EXCEPT !.at = at]
Object == Meant[job.rec.key]
\* The next recommendation.
Skips == [job EXCEPT !.at = "pick", !.left = @ - 1, !.rec = NoRec]

StartJob ==
    /\ "cron" \in may /\ due /\ job.at = "none"
    /\ due' = FALSE /\ job' = [NoJob EXCEPT !.at = "mode"]
    /\ UNCHANGED <<names, notes, fresh, forgot, clusterVars>>

\* Mutant: a skipped run counts as a full one.
SkipRun_Stamps(read) == job' = NoJob /\ notes' = [read EXCEPT ![Full] = 0]

\* Off peak the job ends at once when the last full run is recent. A queue that
\* cannot be read counts as no peak.
SkipRun(read) == job' = NoJob /\ UNCHANGED notes
Mode ==
    /\ job.at = "mode"
    /\ \E peak \in {demand > Capacity(Keda), FALSE}, read \in Readings :
         IF ~peak /\ read[Full] < Interval THEN SkipRun(read)
         ELSE job' = Goes("ask") /\ UNCHANGED notes
    /\ UNCHANGED <<names, due, fresh, forgot, clusterVars>>

\* Metrics are collected and Gemini asked; while it is unavailable it is asked
\* again, and in the end taken to recommend nothing.
Ask ==
    /\ job.at = "ask"
    /\ job' = Goes("load")
    /\ UNCHANGED <<names, notes, due, fresh, forgot, clusterVars>>

Unavailable ==
    /\ job.at = "ask"
    /\ job' = [job EXCEPT !.tries = @ + 1,
                          !.at = IF job.tries + 1 = Attempts THEN "stamp" ELSE "ask"]
    /\ UNCHANGED <<names, notes, due, fresh, forgot, clusterVars>>

\* apply_safe_patches takes the time and reads the cooldowns.
Load ==
    /\ job.at = "load"
    /\ \E read \in Readings :
         /\ job' = [job EXCEPT !.at = "pick", !.cool = read, !.since = 0, !.left = MaxPatches]
         /\ forgot' = IF read = notes THEN forgot ELSE Keys
    /\ UNCHANGED <<names, notes, due, fresh, clusterVars>>

\* The next recommendation that meets the conditions; one whose name was
\* patched within the cooldown is skipped.
Pick ==
    /\ job.at = "pick" /\ job.left > 0
    /\ \E k \in names, to \in 1..Top :
         job' = IF job.cool[k] < Cooldown THEN Skips
                ELSE [job EXCEPT !.at = "read", !.rec.key = k, !.rec.to = to]
    /\ UNCHANGED <<names, notes, due, fresh, forgot, clusterVars>>

NoMore ==
    /\ job.at = "pick"
    /\ job' = Goes(IF job.applied # {} THEN "save" ELSE "stamp")
    /\ UNCHANGED <<names, notes, due, fresh, forgot, clusterVars>>

\* The live size, or the one Gemini gave when the cluster does not answer.
Known == Object # Nothing /\ Object # Stable
Froms == (IF Known THEN {[n |-> live[Object].max, guessed |-> FALSE]} ELSE {})
         \cup (IF Known /\ "unreadable" \notin may THEN {}
               ELSE {[n |-> g, guessed |-> TRUE] : g \in 0..Top})
\* Mutant: a smaller size is not refused.
Refused_Never(from, to) == FALSE

\* Never down, and at most twice the size.
Refused(from, to) == to <= from
Clamp(from, to) == Min({to, Max({from + 1, 2 * from})})

Read ==
    /\ job.at = "read"
    /\ \E from \in Froms :
         job' = IF Refused(from.n, job.rec.to) THEN Skips
                ELSE [job EXCEPT !.at = "get", !.rec.to = Clamp(from.n, @),
                                 !.rec.from = from.n, !.rec.guessed = from.guessed]
    /\ UNCHANGED <<names, notes, due, fresh, forgot, clusterVars>>

\* The file and its sha, which stands for the content.
Get ==
    /\ job.at = "get"
    /\ \/ Known /\ job' = [job EXCEPT !.at = "put", !.seen = git[Object]]
       \/ (Known => "unreadable" \in may) /\ job' = Skips
    /\ UNCHANGED <<names, notes, due, fresh, forgot, clusterVars>>

\* The commit of the new size, refused if the file is no longer the one read.
Writes ==
    /\ git[Object] = job.seen
    /\ Commit(Object, job.rec.to, job.rec.guessed \/ job.rec.from # live[Object].max)
    /\ fresh' = [fresh EXCEPT ![job.rec.key] = job.since]
    /\ UNCHANGED <<live, wired, demand, may, touched, meddled>>

Put ==
    /\ job.at = "put"
    /\ \/ /\ Writes
          /\ job' = [Skips EXCEPT !.cool[job.rec.key] = 0, !.applied = @ \cup {job.rec.key}]
       \/ /\ git[Object] = job.seen => "unreadable" \in may
          /\ job' = Skips /\ UNCHANGED <<fresh, clusterVars>>
    /\ UNCHANGED <<names, notes, due, forgot>>

Aged == [e \in Entries |-> Capped(job.cool[e] + job.since)]

\* The cooldowns are written once, after the last patch.
Save ==
    /\ job.at = "save" /\ job' = [Goes("stamp") EXCEPT !.applied = {}]
    /\ \/ notes' = Aged /\ forgot' = forgot \ job.applied
       \/ /\ "unreadable" \in may
          /\ forgot' = forgot \cup job.applied /\ UNCHANGED notes
    /\ UNCHANGED <<names, due, fresh, clusterVars>>

\* _set_last_full_run reads the ConfigMap again, and writes it with the time.
Stamp ==
    /\ job.at = "stamp"
    /\ \E read \in Readings :
         /\ job' = [job EXCEPT !.at = "stamp save", !.cool = read, !.since = 0]
         /\ forgot' = IF read = notes THEN forgot ELSE Keys
    /\ UNCHANGED <<names, notes, due, fresh, clusterVars>>

\* Mutant: the ConfigMap is replaced by the time of the run alone.
StampSave_Bare ==
    /\ job.at = "stamp save" /\ job' = NoJob
    /\ notes' = [Blank EXCEPT ![Full] = 0]
    /\ UNCHANGED <<names, due, fresh, forgot, clusterVars>>

StampSave ==
    /\ job.at = "stamp save" /\ job' = NoJob
    /\ \/ notes' = [Aged EXCEPT ![Full] = 0]
       \/ "unreadable" \in may /\ UNCHANGED notes
    /\ UNCHANGED <<names, due, fresh, forgot, clusterVars>>

\* An error nothing catches, the deadline or an eviction: the job is started
\* once more, or given up. A commit whose answer is lost was made or not.
Ends == job' = IF job.retried THEN NoJob
               ELSE [NoJob EXCEPT !.at = "mode", !.retried = TRUE]
JobDies ==
    /\ "dies" \in may /\ job.at # "none" /\ Ends
    /\ \/ UNCHANGED <<fresh, clusterVars>> /\ forgot' = forgot \cup job.applied
       \/ /\ job.at = "put" /\ Writes
          /\ forgot' = forgot \cup job.applied \cup {job.rec.key}
    /\ UNCHANGED <<names, notes, due>>

\* A minute passes.
Minute ==
    /\ "cron" \in may
    /\ job.since < Deadline
    /\ due' = TRUE
    /\ notes' = [e \in Entries |-> Capped(notes[e] + 1)]
    /\ fresh' = [k \in Keys |-> Min({fresh[k] + 1, Cooldown + Deadline})]
    /\ job' = IF job.at = "none" THEN job ELSE [job EXCEPT !.since = @ + 1]
    /\ UNCHANGED <<names, forgot, clusterVars>>

JobStep == \/ Mode \/ Ask \/ Unavailable \/ Load \/ Pick \/ NoMore \/ Read \/ Get \/ Put
           \/ Save \/ Stamp \/ StampSave
=============================================================================
