--------------------------- MODULE ScalingProofs ----------------------------
(***************************************************************************)
(* Type correctness of Scaling, its two properties of the advisor's        *)
(* commits, which only raise sizes and wait for the cooldown, what the     *)
(* search reports, and what pre_scale leaves when it has warmed up.        *)
(***************************************************************************)
EXTENDS Scaling, FiniteSetTheorems, TLAPS

USE DEF clusterVars, advisorVars, vars

-----------------------------------------------------------------------------
(* The operators the steps are built from                                  *)

LEMMA LeastOf == \A a, b \in Int : Min({a, b}) = IF a <= b THEN a ELSE b
BY DEF Min

LEMMA GreatestOf == \A a, b \in Int : Max({a, b}) = IF a >= b THEN a ELSE b
BY DEF Max

\* A recommendation that is not refused stays one after it is clamped.
LEMMA ClampRaises ==
    ASSUME NEW from \in 0..Top, NEW to \in 0..Top, ~Refused(from, to)
    PROVE  Clamp(from, to) \in 0..Top /\ Clamp(from, to) > from
<1> DEFINE most == Max({from + 1, 2 * from})
<1>1. most \in Int /\ most > from
  BY GreatestOf, ClusterAssumption
<1>2. to \in Int /\ to > from
  BY ClusterAssumption DEF Refused
<1>3. Clamp(from, to) = IF to <= most THEN to ELSE most
  BY <1>1, <1>2, LeastOf DEF Clamp
<1> QED BY <1>1, <1>2, <1>3, ClusterAssumption

LEMMA CapType == \A n \in Nat : Capped(n) \in 0..Cooldown /\ Capped(n) <= n
BY AdvisorAssumption DEF Capped

LEMMA SeqOfSet ==
    ASSUME NEW S, IsFiniteSet(S)
    PROVE  /\ Cardinality(S) \in Nat /\ SetToSeq(S) \in [1..Cardinality(S) -> S]
           /\ \A x \in S : \E i \in 1..Cardinality(S) : SetToSeq(S)[i] = x
<1>1. Cardinality(S) \in Nat /\ ExistsBijection(1..Cardinality(S), S)
  BY FS_CardinalityType
<1>2. PICK f \in [1..Cardinality(S) -> S] : IsInjective(f)
  BY <1>1 DEF ExistsBijection, Bijection, Injection, IsInjective
<1>3. SetToSeq(S) \in [1..Cardinality(S) -> S] /\ IsInjective(SetToSeq(S))
  BY <1>2 DEF SetToSeq
<1>4. SetToSeq(S) \in Injection(1..Cardinality(S), S)
  BY <1>3 DEF Injection
<1>5. Cardinality(1..Cardinality(S)) = Cardinality(S)
  BY <1>1, FS_Interval
<1>6. SetToSeq(S) \in Surjection(1..Cardinality(S), S)
  BY <1>4, <1>5, FS_Injection
<1> QED BY <1>1, <1>3, <1>6 DEF Surjection

-----------------------------------------------------------------------------
(* The advisor                                                             *)

LEMMA CommitType ==
    ASSUME ClusterTypeOK, NEW t \in Targets, NEW max \in 0..Top, NEW doubtful,
           Commit(t, max, doubtful)
    PROVE  git' \in [Targets -> Sizes] /\ doubt' \subseteq Targets
BY DEF ClusterTypeOK, Commit, Sizes

\* What a job knows at each place. It is in the middle of a recommendation from
\* "read" on, and takes none below the size it read.
JobShape ==
    /\ job.at = "mode" => job.tries = 0
    /\ job.at = "ask" => job.tries < Attempts
    /\ job.at \in {"read", "get", "put"} => job.left > 0 /\ job.rec.key \in Keys
    /\ job.at = "put" => Object \in Targets
    /\ job.at \in {"get", "put"} => job.rec.guessed \/ job.rec.to > job.rec.from

AdvisorInv == ClusterTypeOK /\ AdvisorTypeOK /\ JobShape

\* What a job writes to git is one size of one object.
LEMMA WritesType ==
    ASSUME AdvisorInv, job.at = "put", Writes
    PROVE  /\ ClusterTypeOK'
           /\ fresh' \in [Keys -> 0..(Cooldown + Deadline)]
<1>1. Object \in Targets /\ job.rec.to \in 0..Top /\ job.since \in 0..Deadline
  BY DEF AdvisorInv, JobShape, AdvisorTypeOK, Jobs, Recs
<1>2. ClusterTypeOK'
  BY <1>1, CommitType DEF Writes, AdvisorInv, ClusterTypeOK
<1>3. fresh' \in [Keys -> 0..(Cooldown + Deadline)]
  <2>1. job.since \in 0..(Cooldown + Deadline)
    BY <1>1, AdvisorAssumption
  <2> QED BY <2>1 DEF Writes, AdvisorInv, AdvisorTypeOK
<1> QED BY <1>2, <1>3

LEMMA AgedType ==
    ASSUME AdvisorTypeOK
    PROVE  Aged \in [Entries -> 0..Cooldown]
           /\ \A e \in Entries : Aged[e] <= job.cool[e] + job.since
<1>1. job.since \in Nat /\ \A e \in Entries : job.cool[e] \in Nat
  BY AdvisorAssumption DEF AdvisorTypeOK, Jobs
<1> QED BY <1>1, CapType DEF Aged

LEMMA ReadingsType ==
    ASSUME AdvisorTypeOK, NEW read \in Readings
    PROVE  read \in [Entries -> 0..Cooldown]
BY AdvisorAssumption DEF AdvisorTypeOK, Readings, Blank

LEMMA FromsType ==
    ASSUME AdvisorInv, job.rec.key \in Keys, NEW from \in Froms
    PROVE  from.n \in 0..Top /\ from.guessed \in BOOLEAN
<1>1. CASE Known /\ from = [n |-> live[Object].max, guessed |-> FALSE]
  <2>1. Object \in Targets /\ live[Object].max \in 0..Top
    BY <1>1, AdvisorAssumption DEF AdvisorInv, ClusterTypeOK, Known, Object, Sizes
  <2> QED BY <1>1, <2>1
<1>2. CASE \E g \in 0..Top : from = [n |-> g, guessed |-> TRUE]
  BY <1>2
<1> QED BY <1>1, <1>2 DEF Froms

\* Where a job may go without knowing anything.
LEMMA GoesType ==
    ASSUME job \in Jobs, NEW at \in Places
    PROVE  Goes(at) \in Jobs /\ Goes(at).at = at /\ Goes(at).rec = job.rec
           /\ Goes(at).tries = job.tries
BY DEF Goes, Jobs

LEMMA SkipsType ==
    ASSUME job \in Jobs, job.left > 0
    PROVE  /\ Skips \in Jobs /\ Skips.at = "pick"
           /\ Skips.cool = job.cool /\ Skips.applied = job.applied
           /\ Skips.since = job.since
<1>1. NoRec \in Recs /\ "pick" \in Places
  BY AdvisorAssumption, ClusterAssumption DEF NoRec, Recs, Places
<1>2. job.left - 1 \in 0..MaxPatches
  BY AdvisorAssumption DEF Jobs
<1> QED BY <1>1, <1>2 DEF Skips, Jobs

LEMMA ShapeElsewhere ==
    ASSUME job'.at \notin {"mode", "ask", "read", "get", "put"}
    PROVE  JobShape'
BY DEF JobShape

USE DEF AdvisorInv

LEMMA JobKeeps ==
    ASSUME AdvisorInv, JobStep
    PROVE  AdvisorInv'
<1> USE AdvisorAssumption, ClusterAssumption
<1>0. job \in Jobs /\ NoJob \in Jobs /\ NoRec \in Recs
  <2>1. NoRec \in Recs
    BY DEF NoRec, Recs
  <2>2. Blank \in [Entries -> 0..Cooldown] /\ [min |-> 0, max |-> 0] \in Sizes
    BY DEF Blank, Sizes
  <2>3. job \in Jobs
    BY DEF AdvisorTypeOK
  <2>4. NoJob \in Jobs
    BY <2>1, <2>2 DEF Jobs, NoJob, Places
  <2> QED BY <2>1, <2>3, <2>4
<1>1. CASE Mode
  <2>1. CASE job' = Goes("ask")
    <3>1. job' \in Jobs /\ job'.at = "ask" /\ job'.tries = job.tries
      BY <1>0, <2>1, GoesType DEF Places
    <3>2. job.tries = 0
      BY <1>1 DEF Mode, JobShape
    <3>3. JobShape'
      BY <3>1, <3>2 DEF JobShape
    <3> QED BY <3>1, <3>3, <1>1, <1>0 DEF Mode, SkipRun, AdvisorTypeOK, ClusterTypeOK
  <2>2. CASE job' = NoJob
    <3>1. JobShape'
      BY <2>2, ShapeElsewhere DEF NoJob
    <3> QED BY <3>1, <2>2, <1>0, <1>1 DEF Mode, SkipRun, Goes, AdvisorTypeOK, ClusterTypeOK
  <2> QED BY <1>1, <2>1, <2>2 DEF Mode, SkipRun
<1>2. CASE Ask \/ NoMore
  <2>1. job' \in Jobs /\ job'.at \in {"load", "save", "stamp"}
    BY <1>0, <1>2, GoesType DEF Ask, NoMore, Places
  <2> QED BY <2>1, <1>2, ShapeElsewhere DEF Ask, NoMore, AdvisorTypeOK, ClusterTypeOK
<1>3. CASE Unavailable
  <2>1. job.tries + 1 \in 0..Attempts
    BY <1>0, <1>3 DEF Unavailable, JobShape, Jobs
  <2>2. job' \in Jobs /\ job'.tries = job.tries + 1
        /\ job'.at = IF job.tries + 1 = Attempts THEN "stamp" ELSE "ask"
    BY <1>0, <1>3, <2>1 DEF Unavailable, Jobs, Places
  <2>3. JobShape'
    <3>1. CASE job.tries + 1 = Attempts
      BY <2>2, <3>1, ShapeElsewhere
    <3>2. CASE job.tries + 1 # Attempts
      <4>1. job'.at = "ask" /\ job'.tries < Attempts
        BY <2>1, <2>2, <3>2
      <4> QED BY <4>1 DEF JobShape
    <3> QED BY <3>1, <3>2
  <2> QED BY <2>2, <2>3, <1>3 DEF Unavailable, AdvisorTypeOK, ClusterTypeOK
<1>4. CASE Load
  <2>1. job' \in Jobs /\ job'.at = "pick"
    <3>1. PICK read \in Readings :
            job' = [job EXCEPT !.at = "pick", !.cool = read, !.since = 0, !.left = MaxPatches]
      BY <1>4 DEF Load
    <3>2. read \in [Entries -> 0..Cooldown]
      BY ReadingsType
    <3>3. 0 \in 0..Deadline /\ MaxPatches \in 0..MaxPatches
      OBVIOUS
    <3> QED BY <1>0, <3>1, <3>2, <3>3 DEF Jobs, Places
  <2>2. forgot' \subseteq Keys
    BY <1>4 DEF Load, AdvisorTypeOK
  <2> QED BY <2>1, <2>2, <1>4, ShapeElsewhere DEF Load, AdvisorTypeOK, ClusterTypeOK
<1>5. CASE Stamp
  <2>1. job' \in Jobs /\ job'.at = "stamp save"
    <3>1. PICK read \in Readings :
            job' = [job EXCEPT !.at = "stamp save", !.cool = read, !.since = 0]
      BY <1>5 DEF Stamp
    <3>2. read \in [Entries -> 0..Cooldown]
      BY ReadingsType
    <3>3. 0 \in 0..Deadline /\ MaxPatches \in 0..MaxPatches
      OBVIOUS
    <3> QED BY <1>0, <3>1, <3>2, <3>3 DEF Jobs, Places
  <2>2. forgot' \subseteq Keys
    BY <1>5 DEF Stamp, AdvisorTypeOK
  <2> QED BY <2>1, <2>2, <1>5, ShapeElsewhere DEF Stamp, AdvisorTypeOK, ClusterTypeOK
<1>6. CASE Pick
  <2>1. PICK k \in names, to \in 1..Top :
          job' = IF job.cool[k] < Cooldown THEN Skips
                 ELSE [job EXCEPT !.at = "read", !.rec.key = k, !.rec.to = to]
    BY <1>6 DEF Pick
  <2>2. k \in Keys /\ to \in 0..Top /\ job.left > 0 /\ job.rec \in Recs
    BY <1>0, <1>6 DEF AdvisorTypeOK, Pick, Jobs
  <2>3. CASE job' = Skips
    BY <1>0, <1>6, <2>2, <2>3, SkipsType, ShapeElsewhere
       DEF Pick, AdvisorTypeOK, ClusterTypeOK
  <2>4. CASE job' = [job EXCEPT !.at = "read", !.rec.key = k, !.rec.to = to]
    <3>1. [job.rec EXCEPT !.key = k, !.to = to] \in Recs
      BY <2>2 DEF Recs
    <3>2. job' \in Jobs /\ job'.at = "read" /\ job'.left = job.left /\ job'.rec.key = k
      BY <1>0, <2>2, <2>4, <3>1 DEF Jobs, Recs, Places
    <3>3. JobShape'
      BY <2>2, <3>2 DEF JobShape
    <3> QED BY <3>2, <3>3, <1>6 DEF Pick, AdvisorTypeOK, ClusterTypeOK
  <2> QED BY <2>1, <2>3, <2>4
<1>7. CASE Read
  <2>1. PICK from \in Froms :
          job' = IF Refused(from.n, job.rec.to) THEN Skips
                 ELSE [job EXCEPT !.at = "get", !.rec.to = Clamp(from.n, @),
                                  !.rec.from = from.n, !.rec.guessed = from.guessed]
    BY <1>7 DEF Read
  <2>2. /\ job.at = "read" /\ job.left > 0
        /\ job.rec \in Recs /\ job.rec.key \in Keys /\ job.rec.to \in 0..Top
    BY <1>0, <1>7 DEF Read, Jobs, JobShape, Recs
  <2>3. from.n \in 0..Top /\ from.guessed \in BOOLEAN
    BY <2>2, FromsType
  <2>4. CASE Refused(from.n, job.rec.to)
    BY <1>0, <1>7, <2>1, <2>2, <2>4, SkipsType, ShapeElsewhere
       DEF Read, AdvisorTypeOK, ClusterTypeOK
  <2>5. CASE ~Refused(from.n, job.rec.to)
    <3> DEFINE to == Clamp(from.n, job.rec.to)
    <3>1. to \in 0..Top /\ to > from.n
      BY <2>2, <2>3, <2>5, ClampRaises
    <3>2. job' = [job EXCEPT !.at = "get", !.rec.to = to, !.rec.from = from.n,
                             !.rec.guessed = from.guessed]
      BY <1>0, <2>1, <2>5 DEF Jobs, Recs
    <3> HIDE DEF to
    <3>3. [job.rec EXCEPT !.to = to, !.from = from.n, !.guessed = from.guessed] \in Recs
      BY <2>2, <2>3, <3>1 DEF Recs
    <3>4. /\ job' \in Jobs /\ job'.at = "get" /\ job'.left = job.left
          /\ job'.rec.key = job.rec.key /\ job'.rec.to > job'.rec.from
      BY <1>0, <3>1, <3>2, <3>3 DEF Jobs, Recs, Places
    <3>5. JobShape'
      BY <2>2, <3>4 DEF JobShape
    <3> QED BY <3>4, <3>5, <1>7 DEF Read, AdvisorTypeOK, ClusterTypeOK
  <2> QED BY <2>4, <2>5
<1>8. CASE Get
  <2>0. job.at = "get" /\ job.left > 0 /\ job.rec.key \in Keys
        /\ (job.rec.guessed \/ job.rec.to > job.rec.from)
    BY <1>8 DEF Get, JobShape
  <2>1. CASE Known /\ job' = [job EXCEPT !.at = "put", !.seen = git[Object]]
    <3>1. Object \in Targets /\ git[Object] \in Sizes
      BY <2>0, <2>1 DEF Known, Object, ClusterTypeOK
    <3>2. job' \in Jobs /\ job'.at = "put" /\ job'.left = job.left /\ job'.rec = job.rec
      BY <1>0, <2>1, <3>1 DEF Jobs, Places
    <3>3. JobShape'
      BY <2>0, <3>1, <3>2 DEF JobShape, Object
    <3> QED BY <3>2, <3>3, <1>8 DEF Get, AdvisorTypeOK, ClusterTypeOK
  <2>2. CASE job' = Skips
    BY <1>0, <2>0, <1>8, <2>2, SkipsType, ShapeElsewhere
       DEF Get, AdvisorTypeOK, ClusterTypeOK
  <2> QED BY <1>8, <2>1, <2>2 DEF Get
<1>9. CASE Put
  <2>1. job.at = "put" /\ job.left > 0 /\ job.rec.key \in Keys
    BY <1>9 DEF Put, JobShape
  <2>2. job' \in Jobs /\ job'.at = "pick"
    <3>0. Skips \in Jobs /\ Skips.at = "pick"
      BY <1>0, <2>1, SkipsType
    <3>1. CASE job' = Skips
      BY <3>0, <3>1
    <3>2. CASE job' = [Skips EXCEPT !.cool[job.rec.key] = 0, !.applied = @ \cup {job.rec.key}]
      <4> DEFINE cool == [Skips.cool EXCEPT ![job.rec.key] = 0]
      <4>1. cool \in [Entries -> 0..Cooldown]
        <5>1. Skips.cool \in [Entries -> 0..Cooldown] /\ 0 \in 0..Cooldown
          BY <3>0 DEF Jobs
        <5> QED BY <5>1
      <4>2. Skips.applied \cup {job.rec.key} \in SUBSET Keys
        BY <2>1, <3>0 DEF Jobs
      <4>3. job' = [Skips EXCEPT !.cool = cool, !.applied = Skips.applied \cup {job.rec.key}]
        BY <3>0, <3>2 DEF Jobs
      <4> HIDE DEF cool
      <4> QED BY <3>0, <4>1, <4>2, <4>3 DEF Jobs
    <3> QED BY <1>9, <3>1, <3>2 DEF Put
  <2>3. ClusterTypeOK' /\ fresh' \in [Keys -> 0..(Cooldown + Deadline)]
    <3>1. CASE Writes
      BY <2>1, <3>1, WritesType
    <3>2. CASE UNCHANGED <<fresh, clusterVars>>
      BY <3>2 DEF AdvisorTypeOK, ClusterTypeOK
    <3> QED BY <1>9, <3>1, <3>2 DEF Put
  <2> QED BY <2>2, <2>3, <1>9, ShapeElsewhere DEF Put, AdvisorTypeOK
<1>10. CASE Save
  <2>1. job' \in Jobs /\ job'.at = "stamp"
    <3>1. Goes("stamp") \in Jobs /\ Goes("stamp").at = "stamp"
      BY <1>0, GoesType DEF Places
    <3> QED BY <3>1, <1>10 DEF Save, Jobs
  <2>2. notes' \in [Entries -> 0..Cooldown] /\ forgot' \subseteq Keys
    BY <1>0, <1>10, AgedType DEF Save, AdvisorTypeOK, Jobs
  <2> QED BY <2>1, <2>2, <1>10, ShapeElsewhere DEF Save, AdvisorTypeOK, ClusterTypeOK
<1>11. CASE StampSave
  <2>1. job' \in Jobs /\ job'.at = "none"
    BY <1>0, <1>11 DEF StampSave, NoJob
  <2>2. notes' \in [Entries -> 0..Cooldown]
    <3>1. Aged \in [Entries -> 0..Cooldown] /\ 0 \in 0..Cooldown
      BY AgedType
    <3> QED BY <3>1, <1>11 DEF StampSave, AdvisorTypeOK
  <2> QED BY <2>1, <2>2, <1>11, ShapeElsewhere DEF StampSave, AdvisorTypeOK, ClusterTypeOK
<1> QED BY <1>1, <1>2, <1>3, <1>4, <1>5, <1>6, <1>7, <1>8, <1>9, <1>10, <1>11 DEF JobStep
LEMMA ClockKeeps ==
    ASSUME AdvisorInv, StartJob \/ JobDies \/ Minute
    PROVE  AdvisorInv'
<1> USE AdvisorAssumption, ClusterAssumption
<1>0. job \in Jobs /\ NoJob \in Jobs /\ "mode" \in Places
  <2>1. NoRec \in Recs
    BY DEF NoRec, Recs
  <2>2. Blank \in [Entries -> 0..Cooldown] /\ [min |-> 0, max |-> 0] \in Sizes
    BY DEF Blank, Sizes
  <2>3. job \in Jobs
    BY DEF AdvisorTypeOK
  <2>4. NoJob \in Jobs
    BY <2>1, <2>2 DEF Jobs, NoJob, Places
  <2> QED BY <2>3, <2>4 DEF Places
\* A job that starts, or starts again.
<1>1. ASSUME job' = NoJob \/ (job'.tries = 0 /\ job'.at = "mode")
      PROVE  JobShape'
  <2>1. CASE job' = NoJob
    BY <2>1, ShapeElsewhere DEF NoJob
  <2>2. CASE job'.tries = 0 /\ job'.at = "mode"
    BY <2>2 DEF JobShape
  <2> QED BY <1>1, <2>1, <2>2
<1>2. CASE StartJob
  <2>1. job' \in Jobs /\ job'.tries = 0 /\ job'.at = "mode"
    BY <1>0, <1>2 DEF StartJob, Jobs, NoJob
  <2> QED BY <2>1, <1>1, <1>2 DEF StartJob, AdvisorTypeOK, ClusterTypeOK
<1>3. CASE JobDies
  <2>1. job' \in Jobs /\ (job' = NoJob \/ (job'.tries = 0 /\ job'.at = "mode"))
    <3>1. NoJob.tries = 0
      BY DEF NoJob
    <3> QED BY <1>0, <1>3, <3>1 DEF JobDies, Ends, Jobs
  <2>2. ClusterTypeOK' /\ fresh' \in [Keys -> 0..(Cooldown + Deadline)]
    <3>1. CASE job.at = "put" /\ Writes
      BY <3>1, WritesType
    <3>2. CASE UNCHANGED <<fresh, clusterVars>>
      BY <3>2 DEF AdvisorTypeOK, ClusterTypeOK
    <3> QED BY <1>3, <3>1, <3>2 DEF JobDies
  <2>3. forgot' \subseteq Keys
    <3>1. job.applied \subseteq Keys
      BY <1>0 DEF Jobs
    <3>2. job.at = "put" => job.rec.key \in Keys
      BY DEF JobShape
    <3> QED BY <1>3, <3>1, <3>2 DEF JobDies, AdvisorTypeOK
  <2> QED BY <2>1, <2>2, <2>3, <1>1, <1>3 DEF JobDies, AdvisorTypeOK
<1>4. CASE Minute
  <2>1. notes' \in [Entries -> 0..Cooldown]
    <3>1. \A e \in Entries : Capped(notes[e] + 1) \in 0..Cooldown
      BY CapType DEF AdvisorTypeOK
    <3> QED BY <3>1, <1>4 DEF Minute
  <2>2. fresh' \in [Keys -> 0..(Cooldown + Deadline)]
    <3>1. \A k \in Keys : Min({fresh[k] + 1, Cooldown + Deadline}) \in 0..(Cooldown + Deadline)
      <4>1. \A k \in Keys : fresh[k] \in Nat
        BY DEF AdvisorTypeOK
      <4> QED BY <4>1, LeastOf
    <3> QED BY <3>1, <1>4 DEF Minute
  <2>3. job' \in Jobs /\ job'.at = job.at /\ job'.tries = job.tries
        /\ job'.left = job.left /\ job'.rec = job.rec
    <3>1. job.since + 1 \in 0..Deadline
      BY <1>0, <1>4 DEF Minute, Jobs
    <3> QED BY <1>0, <3>1, <1>4 DEF Minute, Jobs
  <2>4. JobShape'
    BY <2>3 DEF JobShape, Object
  <2> QED BY <2>1, <2>2, <2>3, <2>4, <1>4 DEF Minute, AdvisorTypeOK, ClusterTypeOK
<1> QED BY <1>2, <1>3, <1>4

-----------------------------------------------------------------------------
(* The cluster and the scripts                                             *)

LEMMA ClusterKeeps ==
    ASSUME ClusterTypeOK, Argo \/ Customers \/ \E t \in Targets : Push(t)
    PROVE  ClusterTypeOK'
<1> USE ClusterAssumption
<1>1. CASE SelfHeal
  BY <1>1 DEF SelfHeal, ClusterTypeOK, Targets
<1>2. CASE Rollout
  BY <1>2 DEF Rollout, ClusterTypeOK
<1>3. CASE Customers
  BY <1>3 DEF Customers, ClusterTypeOK
<1>4. ASSUME NEW t \in Targets, Push(t)
      PROVE  ClusterTypeOK'
  <2>1. PICK max \in 1..Top : Commit(t, max, TRUE)
    BY <1>4 DEF Push
  <2>2. max \in 0..Top
    OBVIOUS
  <2>3. git' \in [Targets -> Sizes] /\ doubt' \subseteq Targets
    BY <2>1, <2>2, CommitType
  <2> QED BY <2>3, <1>4 DEF Push, ClusterTypeOK
<1> QED BY <1>1, <1>2, <1>3, <1>4 DEF Argo

\* A patch that is tried, made or refused.
LEMMA PatchType ==
    ASSUME ClusterTypeOK, NEW t \in Targets, NEW size \in Sizes,
           Patch(t, size) \/ PatchFails(size)
    PROVE  live' \in [Targets -> Sizes] /\ touched' \subseteq Targets
BY DEF ClusterTypeOK, Patch, PatchFails

LEMMA CallsType ==
    ASSUME NEW kind \in Kinds, NEW S \in SUBSET Targets, IsFiniteSet(S)
    PROVE  Calls(kind, S) \in Seq(Kinds \X Targets)
<1>1. Cardinality(S) \in Nat /\ SetToSeq(S) \in [1..Cardinality(S) -> S]
  BY SeqOfSet
<1>2. \A i \in 1..Cardinality(S) : <<kind, SetToSeq(S)[i]>> \in Kinds \X Targets
  BY <1>1
<1> QED BY <1>1, <1>2 DEF Calls

LEMMA TodoType ==
    ASSUME NEW known \in SUBSET Targets
    PROVE  /\ UpCalls(known) \in Seq(Kinds \X Targets)
           /\ DownCalls(known) \in Seq(Kinds \X Targets)
<1>1. /\ known \cap Hpas \in SUBSET Targets /\ IsFiniteSet(known \cap Hpas)
      /\ known \cap {Keda} \in SUBSET Targets /\ IsFiniteSet(known \cap {Keda})
      /\ known \cap {Stable} \in SUBSET Targets /\ IsFiniteSet(known \cap {Stable})
      /\ {Stable} \in SUBSET Targets /\ IsFiniteSet({Stable})
  BY ClusterAssumption, FS_Intersection, FS_Singleton DEF Targets
<1>2. \A kind \in Kinds :
        /\ Calls(kind, known \cap Hpas) \in Seq(Kinds \X Targets)
        /\ Calls(kind, known \cap {Keda}) \in Seq(Kinds \X Targets)
        /\ Calls(kind, known \cap {Stable}) \in Seq(Kinds \X Targets)
        /\ Calls(kind, {Stable}) \in Seq(Kinds \X Targets)
  BY <1>1, CallsType
<1>3. \A p, q \in Seq(Kinds \X Targets) : p \o q \in Seq(Kinds \X Targets)
  OBVIOUS
<1>4. {"max", "min", "keda", "replicas", "both", "only max"} \subseteq Kinds
  BY DEF Kinds
<1> QED BY <1>2, <1>3, <1>4 DEF UpCalls, DownCalls

LEMMA SizedType ==
    ASSUME NEW kind \in Kinds, NEW old \in Sizes, NEW new \in Sizes
    PROVE  Sized(kind, old, new) \in Sizes
BY DEF Kinds, Sized, Sizes

LEMMA PreKeeps ==
    ASSUME ClusterTypeOK, PreTypeOK, PreStep
    PROVE  ClusterTypeOK' /\ PreTypeOK'
<1> USE ClusterAssumption, PreScaleAssumption
<1>1. CASE Look
  <2>1. Views \subseteq SUBSET Targets
    BY DEF Views, Targets
  <2>2. PICK known \in Views : pre' = [pre EXCEPT !.at = "look", !.known = known]
    BY <1>1 DEF Look
  <2>3. PreTypeOK'
    BY <2>1, <2>2 DEF PreTypeOK, PrePlaces
  <2> QED BY <1>1, <2>3 DEF Look, ClusterTypeOK
<1>2. CASE Plan
  BY <1>2 DEF Plan, PreTypeOK, PrePlaces, ClusterTypeOK
<1>3. CASE ScaleUp
  <2>1. UpCalls(pre.known) \in Seq(Kinds \X Targets)
    BY TodoType DEF PreTypeOK
  <2> QED BY <1>3, <2>1 DEF ScaleUp, PreTypeOK, PrePlaces, ClusterTypeOK
<1>4. CASE Call
  <2> DEFINE kind == Head(pre.todo)[1]
             t == Head(pre.todo)[2]
             size == Sized(kind, live[t], (IF pre.at = "up" THEN pre.plan.up
                                                            ELSE pre.plan.down)[t])
  <2>1. pre.todo \in Seq(Kinds \X Targets) /\ pre.todo # <<>>
    BY <1>4 DEF Call, PreTypeOK
  <2>2. Head(pre.todo) \in Kinds \X Targets /\ Tail(pre.todo) \in Seq(Kinds \X Targets)
    BY <2>1
  <2>3. kind \in Kinds /\ t \in Targets
    BY <2>2
  <2>4. live[t] \in Sizes /\ (IF pre.at = "up" THEN pre.plan.up ELSE pre.plan.down)[t] \in Sizes
    BY <2>3 DEF ClusterTypeOK, PreTypeOK
  <2>5. size \in Sizes
    BY <2>3, <2>4, SizedType
  <2>6. Patch(t, size) \/ PatchFails(size)
    BY <1>4 DEF Call
  <2>7. live' \in [Targets -> Sizes] /\ touched' \subseteq Targets
    BY <2>3, <2>5, <2>6, PatchType
  <2>8. wired' \in BOOLEAN
    BY <1>4 DEF Call, ClusterTypeOK
  <2>9. pre' = [pre EXCEPT !.todo = Tail(@)]
        \/ pre' = [pre EXCEPT !.todo = Tail(@),
                              !.missed = @ \cup (IF Valid(size) THEN {t} ELSE {})]
    BY <1>4 DEF Call
  <2>10. PreTypeOK'
    <3> DEFINE missed == pre.missed \cup (IF Valid(size) THEN {t} ELSE {})
    <3>1. missed \in SUBSET Targets
      BY <2>3 DEF PreTypeOK
    <3>2. pre' = [pre EXCEPT !.todo = Tail(pre.todo)]
          \/ pre' = [pre EXCEPT !.todo = Tail(pre.todo), !.missed = missed]
      BY <2>9 DEF PreTypeOK
    <3> HIDE DEF missed
    <3> QED BY <2>2, <3>1, <3>2 DEF PreTypeOK
  <2> QED BY <2>7, <2>8, <2>10, <1>4 DEF Call, ClusterTypeOK
<1>5. CASE Applied
  BY <1>5 DEF Applied, PreTypeOK, PrePlaces, ClusterTypeOK
<1>6. CASE ScaleDown
  <2>1. \A known \in Views : known \in SUBSET Targets /\ DownCalls(known) \in Seq(Kinds \X Targets)
    BY TodoType DEF Views, Targets
  <2>2. PICK known \in Views :
          pre' = [pre EXCEPT !.at = "down", !.known = known, !.missed = {},
                             !.todo = DownCalls(known)]
    BY <1>6 DEF ScaleDown
  <2>3. PreTypeOK'
    BY <2>1, <2>2 DEF PreTypeOK, PrePlaces
  <2> QED BY <1>6, <2>3 DEF ScaleDown, ClusterTypeOK
<1>7. CASE Quit
  BY <1>7 DEF Quit, PreTypeOK, PrePlaces, ClusterTypeOK
<1> QED BY <1>1, <1>2, <1>3, <1>4, <1>5, <1>6, <1>7 DEF PreStep

LEMMA RaisedType ==
    ASSUME NEW t, NEW max \in 0..Top
    PROVE  Raised(t, max) \in 0..Top
BY LeastOf, ClusterAssumption, MonitorAssumption DEF Raised

LEMMA MonitorKeeps ==
    ASSUME ClusterTypeOK, MonTypeOK, MonitorStep
    PROVE  ClusterTypeOK' /\ MonTypeOK'
<1> USE ClusterAssumption
<1>1. CASE Snapshot
  <2>1. \A t \in Targets : live[t].max \in 0..Top
    BY DEF ClusterTypeOK, Sizes
  <2>2. \A hot \in SUBSET (Hpas \cup {Keda}) :
          {t \in Pressed(hot) : Raised(t, live[t].max) > live[t].max} \subseteq Targets
    BY DEF Pressed, Targets
  <2> QED BY <1>1, <2>1, <2>2 DEF Snapshot, MonTypeOK, ClusterTypeOK
<1>2. ASSUME NEW t \in Targets, MonitorPatch(t)
      PROVE  ClusterTypeOK' /\ MonTypeOK'
  <2> DEFINE size == [live[t] EXCEPT !.max = Raised(t, mon.snap[t])]
  <2>1. size \in Sizes
    BY RaisedType DEF ClusterTypeOK, MonTypeOK, Sizes
  <2>2. Patch(t, size) \/ PatchFails(size)
    BY <1>2 DEF MonitorPatch
  <2>3. live' \in [Targets -> Sizes] /\ touched' \subseteq Targets
    BY <2>1, <2>2, PatchType
  <2> QED BY <2>3, <1>2 DEF MonitorPatch, MonTypeOK, ClusterTypeOK
<1>3. CASE Sleep \/ MonitorEnds
  BY <1>3 DEF Sleep, MonitorEnds, NoWatch, MonTypeOK, ClusterTypeOK
<1> QED BY <1>1, <1>2, <1>3 DEF MonitorStep

LEMMA SearchKeeps ==
    ASSUME ClusterTypeOK, SearchTypeOK, SearchStep
    PROVE  ClusterTypeOK' /\ SearchTypeOK'
<1> USE ClusterAssumption, SearchAssumption
<1>0. Middle \in Loads /\ Middle \in Nat
  BY DEF SearchTypeOK, Loads, Middle
<1>1. CASE Inject
  BY <1>0, <1>1 DEF Inject, SearchTypeOK, ClusterTypeOK
<1>2. CASE Judge
  <2>1. PICK signal \in Signals :
          search' = [GoOn(Narrow(signal.is), signal.is) EXCEPT
                       !.refused = @ \cup (IF signal.is = "go_lower" THEN {Middle} ELSE {}),
                       !.guessed = @ \cup (IF signal.error THEN {Middle} ELSE {}),
                       !.bore = @ \cup {Capacity(Searched)}]
    BY <1>2 DEF Judge
  <2>2. signal.is \in {"go_higher", "go_lower", "converged"} /\ signal.error \in BOOLEAN
    <3>1. CASE \E s \in {"go_higher", "go_lower", "converged"} :
                 signal = [is |-> s, error |-> FALSE]
      BY <3>1
    <3>2. CASE signal = [is |-> "go_higher", error |-> TRUE]
      BY <3>2
    <3> QED BY <3>1, <3>2 DEF Signals, OnError
  <2>3. /\ Narrow(signal.is) \in [at : {"loaded"}, low : Loads, high : Loads,
                round : 1..Rounds, safe : Loads \cup {NoLoad}, failure : Loads \cup {NoLoad},
                refused : SUBSET Loads, guessed : SUBSET Loads, bore : SUBSET Nat]
        /\ Narrow(signal.is).round = search.round
    BY <1>0, <1>2, <2>2 DEF Judge, Narrow, SearchTypeOK
  <2>4. GoOn(Narrow(signal.is), signal.is) \in [at : {"round", "over"}, low : Loads, high : Loads,
                round : 1..Rounds, safe : Loads \cup {NoLoad}, failure : Loads \cup {NoLoad},
                refused : SUBSET Loads, guessed : SUBSET Loads, bore : SUBSET Nat]
    <3> HIDE DEF Narrow
    <3>1. search.round # Rounds => search.round + 1 \in 1..Rounds
      BY DEF SearchTypeOK
    <3> QED BY <2>3, <3>1 DEF GoOn
  <2>5. Capacity(Searched) \in Nat
    BY DEF Capacity, ClusterTypeOK, Sizes, Targets
  <2>6. SearchTypeOK'
    <3> DEFINE s == GoOn(Narrow(signal.is), signal.is)
               no == IF signal.is = "go_lower" THEN {Middle} ELSE {}
               error == IF signal.error THEN {Middle} ELSE {}
    <3>1. no \subseteq Loads /\ error \subseteq Loads
      BY <1>0
    <3> HIDE DEF s, no, error
    <3>2. search' = [s EXCEPT !.refused = @ \cup no, !.guessed = @ \cup error,
                              !.bore = @ \cup {Capacity(Searched)}]
      BY <2>1 DEF s, no, error
    <3> QED BY <2>4, <2>5, <3>1, <3>2 DEF SearchTypeOK, s
  <2> QED BY <2>6, <1>2 DEF Judge, ClusterTypeOK
<1> QED BY <1>1, <1>2 DEF SearchStep

-----------------------------------------------------------------------------
(* Type correctness                                                        *)

Inv == TypeOK /\ JobShape

LEMMA InitInv == Init => Inv
<1> USE ClusterAssumption, AdvisorAssumption, PreScaleAssumption, SearchAssumption
<1> SUFFICES ASSUME Init PROVE Inv
  OBVIOUS
<1>1. ClusterTypeOK
  BY DEF Init, ClusterInit, ClusterTypeOK
<1>2. AdvisorTypeOK
  <2>1. NoRec \in Recs
    BY DEF NoRec, Recs
  <2>2. Blank \in [Entries -> 0..Cooldown] /\ [min |-> 0, max |-> 0] \in Sizes
    BY DEF Blank, Sizes
  <2>3. NoJob \in Jobs
    BY <2>1, <2>2 DEF Jobs, NoJob, Places
  <2>4. [k \in Keys |-> Cooldown + Deadline] \in [Keys -> 0..(Cooldown + Deadline)]
    OBVIOUS
  <2> QED BY <2>2, <2>3, <2>4 DEF Init, AdvisorInit, AdvisorTypeOK
<1>3. JobShape
  BY DEF Init, AdvisorInit, NoJob, JobShape
<1>4. PreTypeOK
  <2>1. PICK at \in {"off", "ready", "over"} : pre = [NoScript EXCEPT !.at = at]
    BY DEF Init
  <2>2. NoPlan \in [Targets -> Sizes] /\ <<>> \in Seq(Kinds \X Targets)
    BY DEF NoPlan, Sizes
  <2> QED BY <2>1, <2>2 DEF NoScript, PreTypeOK, PrePlaces
<1>5. MonTypeOK
  BY DEF Init, NoWatch, MonTypeOK
<1>6. SearchTypeOK
  <2>1. PICK at \in {"off", "round", "over"} : search = [NoSearch EXCEPT !.at = at]
    BY DEF Init
  <2>2. Lowest \in Loads /\ Highest \in Loads /\ 1 \in 1..Rounds
    BY DEF Loads
  <2> QED BY <2>1, <2>2 DEF NoSearch, SearchTypeOK
<1> QED BY <1>1, <1>2, <1>3, <1>4, <1>5, <1>6 DEF Inv, TypeOK

LEMMA NextInv == Inv /\ [Next]_vars => Inv'
<1> SUFFICES ASSUME Inv, [Next]_vars PROVE Inv'
  OBVIOUS
<1> USE DEF Inv, TypeOK
\* Who leaves the job and what it knows alone.
<1>0. ASSUME UNCHANGED advisorVars
      PROVE  AdvisorTypeOK' /\ JobShape'
  BY <1>0 DEF AdvisorTypeOK, JobShape, Object
<1>1. CASE Tools
  <2>1. AdvisorInv'
    BY <1>1, JobKeeps, ClockKeeps DEF Tools
  <2> QED BY <2>1, <1>1 DEF Tools, PreTypeOK, MonTypeOK, SearchTypeOK
<1>2. CASE Cluster
  <2>1. ClusterTypeOK'
    BY <1>2, ClusterKeeps DEF Cluster, Targets
  <2> QED BY <2>1, <1>0, <1>2 DEF Cluster, PreTypeOK, MonTypeOK, SearchTypeOK
<1>3. CASE Starts /\ UNCHANGED <<clusterVars, advisorVars>>
  BY <1>0, <1>3 DEF Starts, ClusterTypeOK, PreTypeOK, PrePlaces, MonTypeOK, SearchTypeOK
<1>4. CASE PreStep /\ UNCHANGED <<advisorVars, mon, search>>
  BY <1>0, <1>4, PreKeeps DEF MonTypeOK, SearchTypeOK
<1>5. CASE MonitorStep /\ UNCHANGED <<advisorVars, pre, search>>
  BY <1>0, <1>5, MonitorKeeps DEF PreTypeOK, SearchTypeOK
<1>6. CASE SearchStep /\ UNCHANGED <<advisorVars, pre, mon>>
  BY <1>0, <1>6, SearchKeeps DEF PreTypeOK, MonTypeOK
<1>7. CASE UNCHANGED vars
  BY <1>0, <1>7 DEF ClusterTypeOK, PreTypeOK, MonTypeOK, SearchTypeOK
<1> QED BY <1>1, <1>2, <1>3, <1>4, <1>5, <1>6, <1>7 DEF Next

\* The scaling tools keep their types: no tool writes a size outside the bound or
\* of an object there is not.
THEOREM ScalingTypes == Spec => []Inv
<1> QED BY InitInv, NextInv, PTL DEF Spec

-----------------------------------------------------------------------------
(* Sizes only grow                                                         *)

\* A size that is not doubtful was read from the cluster as it is and enlarged.
LEMMA WritesRaises ==
    ASSUME Inv, job.at = "put", Writes
    PROVE  \A t \in Targets \ (touched' \cup doubt') :
             \/ t \notin doubt /\ git'[t].max = git[t].max
             \/ git'[t].max >= live[t].max
<1>1. Object \in Targets /\ job.rec.to \in 0..Top /\ job.rec.from \in 0..Top
  BY DEF Inv, TypeOK, AdvisorTypeOK, Jobs, Recs, JobShape
<1>2. CASE job.rec.guessed \/ job.rec.from # live[Object].max
  BY <1>1, <1>2 DEF Writes, Commit, Inv, TypeOK, ClusterTypeOK, Sizes
<1>3. CASE ~job.rec.guessed /\ job.rec.from = live[Object].max
  <2>1. job.rec.to >= live[Object].max
    BY <1>1, <1>3, ClusterAssumption DEF Inv, JobShape
  <2> QED BY <1>1, <1>3, <2>1 DEF Writes, Commit, Inv, TypeOK, ClusterTypeOK, Sizes
<1> QED BY <1>2, <1>3

LEMMA NextRaises == Inv /\ RaisesOnly /\ [Next]_vars => RaisesOnly'
<1> SUFFICES ASSUME Inv, RaisesOnly, [Next]_vars PROVE RaisesOnly'
  OBVIOUS
<1> USE DEF Inv, TypeOK
<1>0. /\ \A t \in Targets : git[t].max \in Int /\ live[t].max \in Int
      /\ Keda \in Targets
  BY ClusterAssumption DEF ClusterTypeOK, Sizes, Targets
<1>1. ASSUME UNCHANGED <<git, live, touched, doubt>>
      PROVE  RaisesOnly'
  BY <1>1 DEF RaisesOnly
<1>2. CASE Tools
  <2>1. CASE job.at = "put" /\ Writes
    BY <1>0, <2>1, WritesRaises DEF Writes, RaisesOnly
  <2>2. CASE UNCHANGED clusterVars
    BY <1>1, <2>2
  <2> QED BY <1>2, <2>1, <2>2
         DEF Tools, JobStep, Mode, Ask, Unavailable, Load, Pick, NoMore, Read, Get, Put,
             Save, Stamp, StampSave, StartJob, JobDies, Minute
<1>3. CASE Cluster
  <2>1. CASE SelfHeal
    BY <1>0, <2>1 DEF SelfHeal, RaisesOnly, ClusterTypeOK
  <2>2. CASE Rollout
    BY <1>0, <2>2 DEF Rollout, RaisesOnly
  <2>3. CASE Customers
    BY <1>1, <2>3 DEF Customers
  <2>4. ASSUME NEW t \in Targets, Push(t)
        PROVE  RaisesOnly'
    BY <1>0, <2>4 DEF Push, Commit, RaisesOnly, ClusterTypeOK
  <2> QED BY <1>3, <2>1, <2>2, <2>3, <2>4 DEF Cluster, Argo, Targets
\* A patched object is touched.
<1>4. ASSUME NEW t \in Targets, NEW size, Patch(t, size) \/ PatchFails(size),
             UNCHANGED <<git, doubt>>
      PROVE  RaisesOnly'
  BY <1>4 DEF Patch, PatchFails, RaisesOnly, ClusterTypeOK
<1>5. CASE PreStep
  <2>1. CASE Call
    <3>1. pre.todo \in Seq(Kinds \X Targets) /\ pre.todo # <<>>
      BY <2>1 DEF Call, PreTypeOK
    <3>2. Head(pre.todo)[2] \in Targets
      BY <3>1
    <3> QED BY <2>1, <3>2, <1>4 DEF Call
  <2>2. CASE UNCHANGED <<git, live, touched, doubt>>
    BY <1>1, <2>2
  <2> QED BY <1>5, <2>1, <2>2 DEF PreStep, Look, Plan, ScaleUp, Applied, ScaleDown, Quit
<1>6. CASE MonitorStep
  <2>1. ASSUME NEW t \in Targets, MonitorPatch(t)
        PROVE  RaisesOnly'
    BY <1>4, <2>1 DEF MonitorPatch
  <2> QED BY <1>6, <2>1, <1>1 DEF MonitorStep, Snapshot, Sleep, MonitorEnds
<1>7. CASE SearchStep
  BY <1>7, <1>1 DEF SearchStep, Inject, Judge
<1>8. CASE Starts /\ UNCHANGED <<clusterVars, advisorVars>>
  BY <1>8, <1>1
<1>9. CASE UNCHANGED vars
  BY <1>9, <1>1
<1> QED BY <1>2, <1>3, <1>5, <1>6, <1>7, <1>8, <1>9 DEF Next

\* Whatever the tools, the operators and ArgoCD do to a cluster of any size, a
\* rollout takes no capacity away that the advisor, the only tool that writes to
\* git, knew of.
THEOREM NothingShrinks == Spec => []RaisesOnly
<1>1. Init => RaisesOnly
  BY ClusterAssumption DEF Init, ClusterInit, RaisesOnly, Sizes
<1> QED BY <1>1, InitInv, NextInv, NextRaises, PTL DEF Spec

-----------------------------------------------------------------------------
(* Cooldowns                                                               *)

Committing == {"pick", "read", "get", "put", "save"}

\* What a job believes of a name, aged by the time it has taken, and what the
\* ConfigMap says of it are no older than the last commit under that name, for
\* the names whose note was not lost. The notes of what the job has committed
\* itself are out of date until it saves them.
CoolInv ==
    /\ job.at \in {"read", "get", "put"} => job.cool[job.rec.key] = Cooldown
    /\ job.at \notin Committing => job.applied = {}
    /\ job.at \in Committing \cup {"stamp save"} =>
         \A k \in (Keys \ forgot) \cup job.applied : job.cool[k] + job.since <= fresh[k]
    /\ \A k \in Keys \ (forgot \cup job.applied) : notes[k] <= fresh[k]

\* The numbers CoolInv speaks of.
LEMMA Times ==
    ASSUME Inv
    PROVE  /\ Keys \subseteq Entries /\ job.since \in 0..Deadline /\ job.applied \subseteq Keys
           /\ \A e \in Entries : job.cool[e] \in 0..Cooldown /\ notes[e] \in 0..Cooldown
           /\ \A k \in Keys : fresh[k] \in 0..(Cooldown + Deadline)
BY DEF Inv, TypeOK, AdvisorTypeOK, Jobs, Entries

LEMMA JobCools ==
    ASSUME Inv, Inv', CoolInv, JobStep
    PROVE  CoolInv'
<1> USE AdvisorAssumption DEF Committing
<1>0. /\ job \in Jobs /\ job' \in Jobs
      /\ NoJob.at = "none" /\ NoJob.applied = {} /\ Keys \subseteq Entries
  BY Times DEF Inv, TypeOK, AdvisorTypeOK, NoJob
\* A step that reads and writes no times.
<1>1. ASSUME UNCHANGED <<notes, fresh, forgot>>, job'.applied = job.applied,
             job'.at \notin {"read", "get", "put", "stamp save"},
             job'.at \in Committing =>
               job.at \in Committing /\ job'.cool = job.cool /\ job'.since = job.since,
             job'.at \notin Committing => job'.applied = {}
      PROVE  CoolInv'
  BY <1>1 DEF CoolInv
<1>2. CASE Mode
  <2>1. job.at = "mode" /\ UNCHANGED <<fresh, forgot, notes>>
    BY <1>2 DEF Mode, SkipRun
  <2>2. job' = NoJob \/ job' = Goes("ask")
    BY <1>2 DEF Mode, SkipRun
  <2>3. job.applied = {} /\ job'.applied = {} /\ job'.at \in {"none", "ask"}
    BY <1>0, <2>1, <2>2 DEF CoolInv, Goes, Jobs
  <2> QED BY <2>1, <2>3, <1>1
<1>3. CASE Ask \/ Unavailable
  <2>1. job.at = "ask" /\ UNCHANGED <<fresh, forgot, notes>>
    BY <1>3 DEF Ask, Unavailable
  <2>2. job'.applied = job.applied /\ job'.at \in {"load", "ask", "stamp"}
    BY <1>0, <1>3 DEF Ask, Unavailable, Goes, Jobs
  <2> QED BY <2>1, <2>2, <1>1 DEF CoolInv
<1>4. CASE Load
  <2>1. job.at = "load" /\ job.applied = {} /\ UNCHANGED <<notes, fresh>>
    BY <1>4 DEF Load, CoolInv
  <2>2. PICK read \in Readings :
          /\ job' = [job EXCEPT !.at = "pick", !.cool = read, !.since = 0, !.left = MaxPatches]
          /\ forgot' = IF read = notes THEN forgot ELSE Keys
    BY <1>4 DEF Load
  <2>3. job'.at = "pick" /\ job'.cool = read /\ job'.since = 0 /\ job'.applied = {}
    BY <1>0, <2>1, <2>2 DEF Jobs
  <2>4. CASE read = notes
    BY <1>0, <2>1, <2>2, <2>3, <2>4, Times DEF CoolInv
  <2>5. CASE forgot' = Keys
    BY <2>3, <2>5 DEF CoolInv
  <2> QED BY <2>2, <2>4, <2>5
<1>5. CASE Stamp
  <2>1. job.at = "stamp" /\ job.applied = {} /\ UNCHANGED <<notes, fresh>>
    BY <1>5 DEF Stamp, CoolInv
  <2>2. PICK read \in Readings :
          /\ job' = [job EXCEPT !.at = "stamp save", !.cool = read, !.since = 0]
          /\ forgot' = IF read = notes THEN forgot ELSE Keys
    BY <1>5 DEF Stamp
  <2>3. job'.at = "stamp save" /\ job'.cool = read /\ job'.since = 0 /\ job'.applied = {}
    BY <1>0, <2>1, <2>2 DEF Jobs
  <2>4. CASE read = notes
    BY <1>0, <2>1, <2>2, <2>3, <2>4, Times DEF CoolInv
  <2>5. CASE forgot' = Keys
    BY <2>3, <2>5 DEF CoolInv
  <2> QED BY <2>2, <2>4, <2>5
<1>6. CASE Pick
  <2>1. PICK k \in names, to \in 1..Top :
          job' = IF job.cool[k] < Cooldown THEN Skips
                 ELSE [job EXCEPT !.at = "read", !.rec.key = k, !.rec.to = to]
    BY <1>6 DEF Pick
  <2>2. /\ job.at = "pick" /\ job.left > 0 /\ UNCHANGED <<notes, fresh, forgot>>
        /\ k \in Keys /\ k \in Entries /\ job.cool[k] \in 0..Cooldown
    BY <1>0, <1>6, Times DEF Pick, Inv, TypeOK, AdvisorTypeOK
  <2>3. CASE job.cool[k] < Cooldown
    BY <1>0, <1>1, <2>1, <2>2, <2>3, SkipsType
  <2>4. CASE ~(job.cool[k] < Cooldown)
    <3>1. /\ job'.at = "read" /\ job'.cool = job.cool /\ job'.since = job.since
          /\ job'.applied = job.applied /\ job'.rec.key = k
      BY <1>0, <2>1, <2>4 DEF Jobs, Recs
    <3>2. job.cool[k] = Cooldown
      BY <2>2, <2>4
    <3> QED BY <2>2, <3>1, <3>2 DEF CoolInv
  <2> QED BY <2>3, <2>4
<1>7. CASE NoMore
  <2>1. /\ job.at = "pick" /\ UNCHANGED <<notes, fresh, forgot>>
        /\ job' = Goes(IF job.applied # {} THEN "save" ELSE "stamp")
    BY <1>7 DEF NoMore
  <2>2. /\ job'.at = IF job.applied # {} THEN "save" ELSE "stamp"
        /\ job'.cool = job.cool /\ job'.since = job.since /\ job'.applied = job.applied
    BY <1>0, <2>1 DEF Goes, Jobs
  <2> QED BY <1>1, <2>1, <2>2
<1>8. CASE Read
  <2>1. job.at = "read" /\ job.left > 0 /\ UNCHANGED <<notes, fresh, forgot>>
    BY <1>8 DEF Read, Inv, JobShape
  <2>2. PICK from \in Froms :
          job' = IF Refused(from.n, job.rec.to) THEN Skips
                 ELSE [job EXCEPT !.at = "get", !.rec.to = Clamp(from.n, @),
                                  !.rec.from = from.n, !.rec.guessed = from.guessed]
    BY <1>8 DEF Read
  <2>3. CASE job' = Skips
    BY <1>0, <1>1, <2>1, <2>3, SkipsType
  <2>4. CASE job' = [job EXCEPT !.at = "get", !.rec.to = Clamp(from.n, @),
                                !.rec.from = from.n, !.rec.guessed = from.guessed]
    <3>1. /\ job'.at = "get" /\ job'.cool = job.cool /\ job'.since = job.since
          /\ job'.applied = job.applied /\ job'.rec.key = job.rec.key
      BY <1>0, <2>4 DEF Jobs, Recs
    <3> QED BY <2>1, <3>1 DEF CoolInv
  <2> QED BY <2>2, <2>3, <2>4
<1>9. CASE Get
  <2>1. job.at = "get" /\ job.left > 0 /\ UNCHANGED <<notes, fresh, forgot>>
    BY <1>9 DEF Get, Inv, JobShape
  <2>2. CASE job' = Skips
    BY <1>0, <1>1, <2>1, <2>2, SkipsType
  <2>3. CASE job' = [job EXCEPT !.at = "put", !.seen = git[Object]]
    <3>1. /\ job'.at = "put" /\ job'.cool = job.cool /\ job'.since = job.since
          /\ job'.applied = job.applied /\ job'.rec.key = job.rec.key
      BY <1>0, <2>3 DEF Jobs
    <3> QED BY <2>1, <3>1 DEF CoolInv
  <2> QED BY <1>9, <2>2, <2>3 DEF Get
<1>10. CASE Put
  <2>1. /\ job.at = "put" /\ job.left > 0 /\ job.rec.key \in Keys
        /\ UNCHANGED <<notes, forgot>>
    BY <1>10 DEF Put, Inv, JobShape
  <2>2. Skips \in Jobs /\ Skips.at = "pick" /\ Skips.cool = job.cool
        /\ Skips.applied = job.applied /\ Skips.since = job.since
    BY <1>0, <2>1, SkipsType
  <2>3. CASE /\ Writes
             /\ job' = [Skips EXCEPT !.cool[job.rec.key] = 0, !.applied = @ \cup {job.rec.key}]
    <3>1. /\ job'.at = "pick" /\ job'.since = job.since
          /\ job'.applied = job.applied \cup {job.rec.key}
          /\ job'.cool = [job.cool EXCEPT ![job.rec.key] = 0]
      BY <2>2, <2>3 DEF Jobs
    <3>2. fresh' = [fresh EXCEPT ![job.rec.key] = job.since]
      BY <2>3 DEF Writes
    <3>3. /\ fresh'[job.rec.key] = job.since /\ job'.cool[job.rec.key] = 0
          /\ \A k \in Keys \ {job.rec.key} :
               fresh'[k] = fresh[k] /\ job'.cool[k] = job.cool[k]
      BY <1>0, <2>1, <3>1, <3>2 DEF Inv, TypeOK, AdvisorTypeOK, Jobs
    <3> QED BY <2>1, <3>1, <3>3, Times DEF CoolInv
  <2>4. CASE job' = Skips /\ UNCHANGED fresh
    BY <1>1, <2>1, <2>2, <2>4
  <2> QED BY <1>10, <2>3, <2>4 DEF Put
<1>11. CASE Save
  <2>1. job.at = "save" /\ UNCHANGED fresh
    BY <1>11 DEF Save
  <2>2. job'.at = "stamp" /\ job'.applied = {}
    BY <1>0, <1>11 DEF Save, Goes, Jobs
  <2>3. CASE notes' = Aged /\ forgot' = forgot \ job.applied
    <3>1. \A k \in Keys : notes'[k] <= job.cool[k] + job.since /\ notes'[k] \in Int
      BY <1>0, <2>3, AgedType DEF Inv, TypeOK
    <3> QED BY <2>1, <2>2, <2>3, <3>1, Times DEF CoolInv
  <2>4. CASE forgot' = forgot \cup job.applied /\ UNCHANGED notes
    BY <2>1, <2>2, <2>4 DEF CoolInv
  <2> QED BY <1>11, <2>3, <2>4 DEF Save
<1>12. CASE StampSave
  <2>1. job.at = "stamp save" /\ UNCHANGED <<fresh, forgot>> /\ job' = NoJob /\ job.applied = {}
    BY <1>12 DEF StampSave, CoolInv
  <2>2. CASE notes' = [Aged EXCEPT ![Full] = 0]
    <3>0. Aged \in [Entries -> 0..Cooldown] /\ \A k \in Keys : k \in Entries /\ k # Full
      BY <1>0, AgedType DEF Inv, TypeOK
    <3>1. \A k \in Keys : notes'[k] = Aged[k]
      BY <2>2, <3>0
    <3>2. \A k \in Keys : notes'[k] <= job.cool[k] + job.since /\ notes'[k] \in Int
      BY <1>0, <3>1, AgedType DEF Inv, TypeOK
    <3>3. ASSUME NEW k \in Keys \ forgot
          PROVE  notes'[k] <= fresh'[k]
      <4>1. job.cool[k] + job.since <= fresh[k]
        BY <2>1 DEF CoolInv
      <4>2. job.cool[k] \in Int /\ job.since \in Int /\ fresh[k] \in Int
        BY <1>0, Times
      <4>3. k \in Keys /\ fresh'[k] = fresh[k]
        BY <2>1
      <4>4. notes'[k] <= job.cool[k] + job.since /\ notes'[k] \in Int
        BY <3>2, <4>3
      <4> QED BY <4>1, <4>2, <4>3, <4>4
    <3> QED BY <1>0, <2>1, <3>3 DEF CoolInv
  <2>3. CASE UNCHANGED notes
    BY <1>0, <2>1, <2>3 DEF CoolInv
  <2> QED BY <1>12, <2>2, <2>3 DEF StampSave
<1> QED BY <1>2, <1>3, <1>4, <1>5, <1>6, <1>7, <1>8, <1>9, <1>10, <1>11, <1>12 DEF JobStep

LEMMA ClockCools ==
    ASSUME Inv, Inv', CoolInv, StartJob \/ JobDies \/ Minute
    PROVE  CoolInv'
<1> USE AdvisorAssumption DEF Committing
<1>0. /\ job \in Jobs /\ job' \in Jobs /\ Keys \subseteq Entries
      /\ NoJob.at = "none" /\ NoJob.applied = {}
  BY Times DEF Inv, TypeOK, AdvisorTypeOK, NoJob
<1>1. CASE StartJob
  <2>1. /\ job.at = "none" /\ job'.at = "mode" /\ job'.applied = {}
        /\ UNCHANGED <<notes, fresh, forgot>>
    BY <1>0, <1>1 DEF StartJob, NoJob
  <2> QED BY <2>1 DEF CoolInv
<1>2. CASE JobDies
  <2>1. job'.at \in {"none", "mode"} /\ job'.applied = {} /\ UNCHANGED notes
    BY <1>0, <1>2 DEF JobDies, Ends, NoJob
  <2>2. CASE UNCHANGED fresh /\ forgot' = forgot \cup job.applied
    BY <2>1, <2>2 DEF CoolInv
  <2>3. CASE /\ fresh' = [fresh EXCEPT ![job.rec.key] = job.since]
             /\ forgot' = forgot \cup job.applied \cup {job.rec.key}
    <3>1. \A k \in Keys \ forgot' : fresh'[k] = fresh[k]
      BY <2>3 DEF Inv, TypeOK, AdvisorTypeOK
    <3> QED BY <2>1, <2>3, <3>1 DEF CoolInv
  <2> QED BY <1>2, <2>2, <2>3 DEF JobDies, Writes
<1>3. CASE Minute
  <2>1. \A k \in Keys : notes'[k] <= notes[k] + 1 /\ notes'[k] \in 0..Cooldown
    <3>1. \A k \in Keys : notes'[k] = Capped(notes[k] + 1) /\ notes[k] + 1 \in Nat
      BY <1>0, <1>3, Times DEF Minute
    <3> QED BY <3>1, CapType
  <2>2. \A k \in Keys : fresh'[k] = fresh[k] + 1 \/ fresh'[k] = Cooldown + Deadline
    <3>1. \A k \in Keys : fresh'[k] = Min({fresh[k] + 1, Cooldown + Deadline})
      BY <1>3 DEF Minute
    <3>2. \A k \in Keys : fresh[k] + 1 \in Int /\ Cooldown + Deadline \in Int
      BY Times
    <3> QED BY <3>1, <3>2, LeastOf
  <2>3. UNCHANGED forgot /\ \A k \in Keys \ (forgot \cup job.applied) : notes'[k] <= fresh'[k]
    <3>1. ASSUME NEW k \in Keys \ (forgot \cup job.applied)
          PROVE  notes'[k] <= fresh'[k]
      <4>1. notes[k] <= fresh[k]
        BY DEF CoolInv
      <4>2. notes[k] \in Int /\ fresh[k] \in Int
        BY <1>0, Times
      <4> QED BY <2>1, <2>2, <4>1, <4>2
    <3> QED BY <3>1, <1>3 DEF Minute
  <2>4. CASE job.at = "none"
    <3>1. UNCHANGED job
      BY <1>3, <2>4 DEF Minute
    <3> QED BY <2>3, <2>4, <3>1 DEF CoolInv
  <2>5. CASE job.at # "none"
    <3>1. /\ job'.at = job.at /\ job'.cool = job.cool /\ job'.rec = job.rec
          /\ job'.applied = job.applied /\ job'.since = job.since + 1
      BY <1>0, <1>3, <2>5 DEF Minute, Jobs
    <3>2. job.since + 1 <= Deadline
      BY <1>3, Times DEF Minute
    <3>3. ASSUME NEW k \in Keys, job.cool[k] + job.since <= fresh[k]
          PROVE  job'.cool[k] + job'.since <= fresh'[k]
      <4>1. job.cool[k] \in 0..Cooldown /\ job.since \in 0..Deadline /\ fresh[k] \in Int
        BY <1>0, Times
      <4> QED BY <2>2, <3>1, <3>2, <3>3, <4>1
    <3>4. job.applied \subseteq Keys
      BY Times
    <3> QED BY <2>3, <3>1, <3>3, <3>4 DEF CoolInv
  <2> QED BY <2>4, <2>5
<1> QED BY <1>1, <1>2, <1>3

LEMMA NextCools == Inv /\ Inv' /\ CoolInv /\ [Next]_vars => CoolInv'
<1> SUFFICES ASSUME Inv, Inv', CoolInv, [Next]_vars PROVE CoolInv'
  OBVIOUS
<1>1. CASE UNCHANGED advisorVars
  BY <1>1 DEF CoolInv
<1>2. CASE Tools
  BY <1>2, JobCools, ClockCools DEF Tools
<1> QED BY <1>1, <1>2 DEF Next, Cluster

\* No two commits under one name within the cooldown, whatever jobs die, calls
\* fail and minutes pass, as long as the note of the first was not lost.
THEOREM CooldownKept == Spec => OncePerCooldown
<1>1. Init => CoolInv
  BY AdvisorAssumption DEF Init, AdvisorInit, CoolInv, Committing, NoJob, Blank, Entries
<1>2. Inv /\ CoolInv /\ job.at = "put" =>
        job.rec.key \in forgot \/ fresh[job.rec.key] - job.since >= Cooldown
  <2> SUFFICES ASSUME Inv, CoolInv, job.at = "put", job.rec.key \notin forgot
               PROVE  fresh[job.rec.key] - job.since >= Cooldown
    OBVIOUS
  <2>1. job.rec.key \in Keys
    BY DEF Inv, JobShape
  <2>2. job.cool[job.rec.key] = Cooldown
        /\ job.cool[job.rec.key] + job.since <= fresh[job.rec.key]
    BY <2>1 DEF CoolInv, Committing
  <2> QED BY <2>1, <2>2, Times, AdvisorAssumption
<1>3. Inv /\ CoolInv /\ [Next]_vars =>
        [git' # git /\ job.at = "put" =>
           \/ job.rec.key \in forgot
           \/ fresh[job.rec.key] - job.since >= Cooldown]_vars
  BY <1>2
<1> QED BY <1>1, <1>3, InitInv, NextInv, NextCools, PTL DEF Spec, OncePerCooldown

-----------------------------------------------------------------------------
(* The search                                                              *)

\* Of what a search has found, at any time: the range ends below every load that
\* was too much, and the last safe load lies in it or below, was a guess, or was
\* borne when it was judged. A search that goes on has room for a middle.
RangeInv ==
    /\ search.at # "over" =>
          /\ search.low < search.high
          /\ search.safe # NoLoad => search.safe <= search.low /\ search.high - search.low > 5
    /\ search.safe # NoLoad => search.safe < search.high
    /\ search.failure # NoLoad => search.failure = search.high
    /\ \A load \in search.refused : search.high <= load /\ 0 < load
    /\ search.safe # NoLoad =>
          search.safe \in search.guessed \/ \E c \in search.bore : search.safe <= c

LEMMA ToleranceIsFive == Tolerance \in Int /\ Tolerance >= 5
<1> DEFINE x == (Highest - Lowest) \div 20
<1>1. x \in Int
  BY SearchAssumption
<1> HIDE DEF x
<1> QED BY <1>1, GreatestOf DEF Tolerance, x

\* What a judgement does to the record of the search.
LEMMA NarrowMoves ==
    ASSUME SearchTypeOK, NEW signal \in {"go_higher", "go_lower", "converged"}
    PROVE  LET s == GoOn(Narrow(signal), signal)
           IN  /\ DOMAIN s = DOMAIN search
               /\ s.refused = search.refused
               /\ s.guessed = search.guessed /\ s.bore = search.bore
               /\ s.low = IF signal = "go_higher" THEN Middle ELSE search.low
               /\ s.high = IF signal = "go_lower" THEN Middle ELSE search.high
               /\ s.safe = IF signal = "go_lower" THEN search.safe ELSE Middle
               /\ s.failure = IF signal = "go_lower" THEN Middle ELSE search.failure
               /\ s.at # "over" => signal # "converged" /\ s.high - s.low > Tolerance
<1> DEFINE n == Narrow(signal)
<1>0. Middle \in Int /\ search.low \in Int /\ search.high \in Int
  BY SearchAssumption DEF SearchTypeOK, Loads, Middle
<1>1. /\ DOMAIN n = DOMAIN search
      /\ n.refused = search.refused /\ n.guessed = search.guessed /\ n.bore = search.bore
      /\ n.low = IF signal = "go_higher" THEN Middle ELSE search.low
      /\ n.high = IF signal = "go_lower" THEN Middle ELSE search.high
      /\ n.safe = IF signal = "go_lower" THEN search.safe ELSE Middle
      /\ n.failure = IF signal = "go_lower" THEN Middle ELSE search.failure
  BY DEF Narrow, SearchTypeOK
<1> HIDE DEF n
<1>2. \/ GoOn(n, signal) = [n EXCEPT !.at = "over"]
      \/ /\ GoOn(n, signal) = [n EXCEPT !.at = "round", !.round = @ + 1]
         /\ signal # "converged" /\ ~(n.high - n.low <= Tolerance)
  BY DEF GoOn
<1>3. DOMAIN search = {"at", "low", "high", "round", "safe", "failure", "refused",
                       "guessed", "bore"}
  BY DEF SearchTypeOK
<1> DEFINE s == GoOn(n, signal)
<1>4. /\ DOMAIN s = DOMAIN n
      /\ s.refused = n.refused /\ s.guessed = n.guessed /\ s.bore = n.bore
      /\ s.low = n.low /\ s.high = n.high /\ s.safe = n.safe /\ s.failure = n.failure
  BY <1>1, <1>2, <1>3
<1>5. s.at # "over" => signal # "converged" /\ ~(n.high - n.low <= Tolerance)
  BY <1>1, <1>2, <1>3
<1>6. n.high - n.low \in Int
  BY <1>0, <1>1
<1>7. s.at # "over" => signal # "converged" /\ s.high - s.low > Tolerance
  BY <1>4, <1>5, <1>6, ToleranceIsFive
<1> QED BY <1>1, <1>4, <1>7 DEF n

LEMMA SearchRange ==
    ASSUME Inv, RangeInv, SearchStep
    PROVE  RangeInv'
<1>0. SearchTypeOK /\ ClusterTypeOK
  BY DEF Inv, TypeOK
<1>1. CASE Inject
  <2>1. /\ UNCHANGED <<search.low, search.high, search.safe, search.failure,
                       search.refused, search.guessed, search.bore>>
        /\ search.at # "over"
    BY <1>0, <1>1 DEF Inject, SearchTypeOK
  <2> QED BY <2>1 DEF RangeInv
<1>2. CASE Judge
  <2> DEFINE c == Capacity(Searched)
  <2>1. PICK signal \in Signals :
          search' = [GoOn(Narrow(signal.is), signal.is) EXCEPT
                       !.refused = @ \cup (IF signal.is = "go_lower" THEN {Middle} ELSE {}),
                       !.guessed = @ \cup (IF signal.error THEN {Middle} ELSE {}),
                       !.bore = @ \cup {c}]
    BY <1>2 DEF Judge
  <2>2. /\ signal.is \in {"go_higher", "go_lower", "converged"}
        /\ IF signal.error THEN signal.is = "go_higher" ELSE Right(signal.is)
    <3>1. CASE \E s \in {x \in {"go_higher", "go_lower", "converged"} : Right(x)} :
                 signal = [is |-> s, error |-> FALSE]
      BY <3>1
    <3>2. CASE signal = [is |-> "go_higher", error |-> TRUE]
      BY <3>2
    <3> QED BY <3>1, <3>2 DEF Signals, OnError
  <2>3. /\ search.low \in Nat /\ search.high \in Nat /\ Middle \in Nat /\ c \in Nat
        /\ Middle = (search.low + search.high) \div 2
        /\ search.refused \subseteq Nat /\ search.bore \subseteq Nat
        /\ search.safe \in Nat \cup {NoLoad}
    BY <1>0, ClusterAssumption, SearchAssumption
       DEF SearchTypeOK, Loads, Middle, Capacity, ClusterTypeOK, Sizes, Targets
  <2>4. /\ signal.is = "go_lower" => c < Middle
        /\ signal.is # "go_lower" => signal.error \/ Middle <= c
    BY <2>2, <2>3 DEF Right
  <2> HIDE DEF c
  <2>5. /\ search'.refused = search.refused \cup (IF signal.is = "go_lower" THEN {Middle} ELSE {})
        /\ search'.guessed = search.guessed \cup (IF signal.error THEN {Middle} ELSE {})
        /\ search'.bore = search.bore \cup {c}
        /\ search'.low = IF signal.is = "go_higher" THEN Middle ELSE search.low
        /\ search'.high = IF signal.is = "go_lower" THEN Middle ELSE search.high
        /\ search'.safe = IF signal.is = "go_lower" THEN search.safe ELSE Middle
        /\ search'.failure = IF signal.is = "go_lower" THEN Middle ELSE search.failure
        /\ search'.at # "over" => search'.high - search'.low > Tolerance
    <3> DEFINE s == GoOn(Narrow(signal.is), signal.is)
    <3>1. /\ DOMAIN s = DOMAIN search
          /\ s.refused = search.refused /\ s.guessed = search.guessed /\ s.bore = search.bore
          /\ s.low = IF signal.is = "go_higher" THEN Middle ELSE search.low
          /\ s.high = IF signal.is = "go_lower" THEN Middle ELSE search.high
          /\ s.safe = IF signal.is = "go_lower" THEN search.safe ELSE Middle
          /\ s.failure = IF signal.is = "go_lower" THEN Middle ELSE search.failure
          /\ s.at # "over" => signal.is # "converged" /\ s.high - s.low > Tolerance
      BY <1>0, <2>2, NarrowMoves
    <3>2. {"at", "low", "high", "safe", "failure", "refused", "guessed", "bore"}
             \subseteq DOMAIN search
      BY <1>0 DEF SearchTypeOK
    <3> HIDE DEF s
    <3>3. /\ search'.at = s.at /\ search'.low = s.low /\ search'.high = s.high
          /\ search'.safe = s.safe /\ search'.failure = s.failure
          /\ search'.refused = s.refused \cup (IF signal.is = "go_lower" THEN {Middle} ELSE {})
          /\ search'.guessed = s.guessed \cup (IF signal.error THEN {Middle} ELSE {})
          /\ search'.bore = s.bore \cup {c}
      BY <2>1, <3>1, <3>2 DEF s
    <3> QED BY <3>1, <3>3
  <2>6. search'.at # "over" => search'.high - search'.low > 5
    <3>1. search'.high - search'.low \in Int
      BY <2>3, <2>5
    <3> QED BY <2>5, <3>1, ToleranceIsFive
  <2>7. /\ search.low < search.high
        /\ search.safe # NoLoad => search.safe <= search.low /\ search.high - search.low > 5
    BY <1>2 DEF Judge, RangeInv
  <2>8. /\ Middle < search.high
        /\ search.safe # NoLoad => search.safe < Middle
    BY <2>3, <2>7
  <2>9. NoLoad \notin Nat
    BY SearchAssumption
  <2>10. CASE signal.is = "go_lower"
    <3>1. /\ search'.low = search.low /\ search'.high = Middle /\ search'.failure = Middle
          /\ search'.safe = search.safe /\ search'.refused = search.refused \cup {Middle}
          /\ search.guessed \subseteq search'.guessed /\ search.bore \subseteq search'.bore
          /\ 0 < Middle
      BY <2>3, <2>4, <2>5, <2>10
    <3>2. \A load \in search'.refused : search'.high <= load /\ 0 < load
      <4>1. \A load \in search.refused : search.high <= load /\ 0 < load /\ load \in Nat
        BY <2>3 DEF RangeInv
      <4> QED BY <2>3, <2>8, <3>1, <4>1
    <3>3. search'.safe # NoLoad =>
            search'.safe \in search'.guessed \/ \E k \in search'.bore : search'.safe <= k
      BY <3>1 DEF RangeInv
    <3>4. search'.at # "over" =>
            /\ search'.low < search'.high
            /\ search'.safe # NoLoad => search'.safe <= search'.low
      BY <2>3, <2>6, <2>7, <3>1
    <3>5. search'.safe # NoLoad => search'.safe < search'.high
      BY <2>8, <3>1
    <3> QED BY <2>6, <3>1, <3>2, <3>3, <3>4, <3>5 DEF RangeInv
  <2>11. CASE signal.is # "go_lower"
    <3>1. /\ search'.low \in {search.low, Middle} /\ search'.high = search.high
          /\ search'.failure = search.failure
          /\ search'.safe = Middle /\ search'.refused = search.refused
          /\ Middle \in search'.guessed \/ (Middle <= c /\ c \in search'.bore)
      BY <2>4, <2>5, <2>11
    <3>2. search'.at # "over" => signal.is = "go_higher"
      <4>1. signal.is = "converged" => search'.at = "over"
        <5>1. GoOn(Narrow(signal.is), signal.is).at # "over" => signal.is # "converged"
          BY <1>0, <2>2, NarrowMoves
        <5>2. search'.at = GoOn(Narrow(signal.is), signal.is).at
          <6>1. "at" \in DOMAIN GoOn(Narrow(signal.is), signal.is)
            BY <1>0, <2>2, NarrowMoves DEF SearchTypeOK
          <6> HIDE DEF GoOn
          <6> QED BY <2>1, <6>1
        <5> QED BY <5>1, <5>2
      <4> QED BY <2>2, <2>11, <4>1
    <3>3. search'.at # "over" => search'.low < search'.high /\ search'.safe <= search'.low
      BY <2>3, <2>5, <2>8, <3>1, <3>2
    <3>4. /\ search'.safe < search'.high
          /\ search'.failure # NoLoad => search'.failure = search'.high
          /\ \A load \in search'.refused : search'.high <= load /\ 0 < load
      BY <2>8, <3>1 DEF RangeInv
    <3> QED BY <2>6, <3>1, <3>3, <3>4 DEF RangeInv
  <2> QED BY <2>10, <2>11
<1> QED BY <1>1, <1>2 DEF SearchStep

LEMMA NextRange == Inv /\ RangeInv /\ [Next]_vars => RangeInv'
<1> SUFFICES ASSUME Inv, RangeInv, [Next]_vars PROVE RangeInv'
  OBVIOUS
<1>1. CASE UNCHANGED search
  BY <1>1 DEF RangeInv
<1>2. CASE Starts /\ ~UNCHANGED search
  <2>1. search.at = "off" /\ search' = [search EXCEPT !.at = "round"]
    BY <1>2 DEF Starts
  <2>2. UNCHANGED <<search.low, search.high, search.safe, search.failure,
                    search.refused, search.guessed, search.bore>>
    BY <2>1 DEF Inv, TypeOK, SearchTypeOK
  <2> QED BY <2>1, <2>2 DEF RangeInv
<1> QED BY <1>1, <1>2, SearchRange DEF Next, Tools, Cluster, vars

\* For any range and rounds, whatever Gemini's errors counted as and whatever else
\* scales the service meanwhile: the threshold reported is below every load that was
\* judged too much, and one the service bore unless it stands on an error or on no
\* safe load (binary_search).
THEOREM EstimateHolds == Spec => []EstimateStands
<1>1. Init => RangeInv
  BY SearchAssumption DEF Init, NoSearch, RangeInv
<1>2. Inv /\ RangeInv => EstimateStands
  <2> SUFFICES ASSUME Inv, RangeInv, search.at = "over", Estimate # NoLoad
               PROVE  /\ \A load \in search.refused : Estimate < 5 * load
                      /\ search.safe \notin search.guessed \cup {NoLoad, 0} =>
                            \E c \in search.bore : Estimate <= 5 * c
    BY DEF EstimateStands
  <2>1. /\ search.safe \in Nat \cup {NoLoad} /\ search.failure \in Nat \cup {NoLoad}
        /\ search.high \in Nat /\ search.refused \subseteq Nat /\ search.bore \subseteq Nat
    BY SearchAssumption DEF Inv, TypeOK, SearchTypeOK, Loads
  <2>2. \A load \in search.refused : search.high <= load /\ 0 < load /\ load \in Nat
    BY <2>1 DEF RangeInv
  <2>3. CASE search.safe \notin {NoLoad, 0}
    <3>1. /\ Estimate = 5 * search.safe /\ search.safe \in Nat
          /\ search.safe < search.high
          /\ search.safe \in search.guessed \/ \E c \in search.bore : search.safe <= c
      BY <2>1, <2>3 DEF Estimate, RangeInv
    <3>2. \A load \in search.refused : Estimate < 5 * load
      BY <2>1, <2>2, <3>1
    <3>3. search.safe \notin search.guessed => \E c \in search.bore : Estimate <= 5 * c
      BY <2>1, <3>1
    <3> QED BY <3>2, <3>3
  <2>4. CASE search.safe \in {NoLoad, 0}
    <3>1. Estimate = 4 * search.failure /\ search.failure = search.high
      BY <2>4 DEF Estimate, RangeInv
    <3> QED BY <2>1, <2>2, <2>4, <3>1
  <2> QED BY <2>3, <2>4
<1> QED BY <1>1, <1>2, InitInv, NextInv, NextRange, PTL DEF Spec

-----------------------------------------------------------------------------
(* Warming up                                                              *)

\* The script still has a call of this kind for object t to make.
Due(kind, t) == \E i \in 1..Len(pre.todo) : pre.todo[i] = <<kind, t>>

\* All maxima come before all minima, and an autoscaler of an API gets nothing else.
MaxFirst(todo) ==
    /\ \A i \in 1..Len(todo) : todo[i][2] \in Hpas => todo[i][1] \in {"max", "min"}
    /\ \A i, j \in 1..Len(todo) : i < j /\ todo[i][1] = "min" => todo[j][1] # "max"

\* How far the script has got with autoscaler t.
Landing(t) ==
    LET plan == pre.plan.up[t]
    IN  \/ Due("max", t) /\ Due("min", t) /\ live[t].min = Kept[t].min
        \/ ~Due("max", t) /\ Due("min", t) /\ live[t].max = plan.max
        \/ ~Due("max", t) /\ ~Due("min", t) /\ live[t] = plan

\* The autoscalers whose sizes nobody but the script has changed, which has seen
\* them, whose calls have not failed and whose plan makes sense.
Own(t) ==
    /\ t \in (Hpas \cap pre.known) \ (pre.missed \cup meddled)
    /\ Valid(pre.plan.up[t]) /\ pre.plan.up[t].max >= Kept[t].min

\* Nobody changes a minimum before the script does.
LandInv ==
    /\ \A t \in Hpas : git[t].min = Kept[t].min
    /\ pre.at \in {"off", "ready", "look", "wait"} =>
         \A t \in Hpas : live[t].min = Kept[t].min
    /\ pre.at = "up" => MaxFirst(pre.todo)
    /\ pre.at = "applied" => pre.todo = <<>>
    /\ pre.at \in {"up", "applied"} => \A t \in Hpas : Own(t) => Landing(t)

\* The calls of one kind are that kind for each object of a set.
LEMMA CallsAre ==
    ASSUME NEW kind \in Kinds, NEW S \in SUBSET Targets, IsFiniteSet(S)
    PROVE  /\ Calls(kind, S) \in Seq(Kinds \X Targets)
           /\ \A i \in 1..Len(Calls(kind, S)) :
                Calls(kind, S)[i][1] = kind /\ Calls(kind, S)[i][2] \in S
           /\ \A t \in S : \E i \in 1..Len(Calls(kind, S)) : Calls(kind, S)[i] = <<kind, t>>
<1>1. /\ Cardinality(S) \in Nat /\ SetToSeq(S) \in [1..Cardinality(S) -> S]
      /\ \A x \in S : \E i \in 1..Cardinality(S) : SetToSeq(S)[i] = x
  BY SeqOfSet
<1>2. Calls(kind, S) \in Seq(Kinds \X Targets)
  BY CallsType
<1>3. Len(Calls(kind, S)) = Cardinality(S)
  BY <1>1, <1>2 DEF Calls
<1> QED BY <1>1, <1>2, <1>3 DEF Calls

\* A call of the first of two lists, or of the second.
LEMMA Joined ==
    ASSUME NEW T, NEW p \in Seq(T), NEW q \in Seq(T)
    PROVE  /\ p \o q \in Seq(T) /\ Len(p \o q) = Len(p) + Len(q)
           /\ Len(p) \in Nat /\ Len(q) \in Nat
           /\ \A i \in 1..Len(p) : i \in 1..Len(p \o q) /\ (p \o q)[i] = p[i]
           /\ \A i \in 1..Len(q) : Len(p) + i \in 1..Len(p \o q) /\ (p \o q)[Len(p) + i] = q[i]
           /\ \A i \in 1..Len(p \o q) :
                \/ i \in 1..Len(p) /\ (p \o q)[i] = p[i]
                \/ i > Len(p) /\ i - Len(p) \in 1..Len(q) /\ (p \o q)[i] = q[i - Len(p)]
OBVIOUS

LEMMA UpCallsOrdered ==
    ASSUME NEW known \in SUBSET Targets
    PROVE  /\ MaxFirst(UpCalls(known))
           /\ \A t \in known \cap Hpas, kind \in {"max", "min"} :
                \E i \in 1..Len(UpCalls(known)) : UpCalls(known)[i] = <<kind, t>>
<1> DEFINE C == Kinds \X Targets
           a == Calls("max", known \cap Hpas)
           b == Calls("min", known \cap Hpas)
           c == Calls("keda", known \cap {Keda})
           d == Calls("replicas", known \cap {Stable})
<1>1. /\ known \cap Hpas \in SUBSET Targets /\ IsFiniteSet(known \cap Hpas)
      /\ known \cap {Keda} \in SUBSET Targets /\ IsFiniteSet(known \cap {Keda})
      /\ known \cap {Stable} \in SUBSET Targets /\ IsFiniteSet(known \cap {Stable})
      /\ {"max", "min", "keda", "replicas"} \subseteq Kinds
  BY ClusterAssumption, FS_Intersection, FS_Singleton DEF Targets, Kinds
<1> DEFINE IsCalls(p, kind, S) ==
             /\ p \in Seq(C)
             /\ \A i \in 1..Len(p) : p[i][1] = kind /\ p[i][2] \in S
             /\ \A t \in S : \E i \in 1..Len(p) : p[i] = <<kind, t>>
<1>2. ASSUME NEW kind \in Kinds, NEW S \in SUBSET Targets, IsFiniteSet(S)
      PROVE  IsCalls(Calls(kind, S), kind, S)
  BY <1>2, CallsAre
<1>3. /\ IsCalls(a, "max", known \cap Hpas) /\ IsCalls(b, "min", known \cap Hpas)
      /\ IsCalls(c, "keda", known \cap {Keda}) /\ IsCalls(d, "replicas", known \cap {Stable})
  <2> HIDE DEF IsCalls
  <2> QED BY <1>1, <1>2
<1>4. Keda \notin Hpas /\ Stable \notin Hpas
  BY ClusterAssumption
<1>5. a \in Seq(C) /\ b \in Seq(C) /\ c \in Seq(C) /\ d \in Seq(C)
  BY <1>3
<1>6. UpCalls(known) = ((a \o b) \o c) \o d
  BY DEF UpCalls
<1> HIDE DEF a, b, c, d, C
<1> DEFINE ab == a \o b
           abc == ab \o c
           s == abc \o d
<1>7. /\ ab \in Seq(C) /\ Len(a) \in Nat /\ Len(ab) = Len(a) + Len(b) /\ Len(b) \in Nat
      /\ \A i \in 1..Len(ab) : (i <= Len(a) /\ ab[i][1] = "max") \/ (i > Len(a) /\ ab[i][1] = "min")
      /\ \A t \in known \cap Hpas, kind \in {"max", "min"} :
           \E i \in 1..Len(ab) : ab[i] = <<kind, t>>
  <2>1. /\ ab \in Seq(C) /\ Len(ab) = Len(a) + Len(b)
        /\ Len(a) \in Nat /\ Len(b) \in Nat
        /\ \A i \in 1..Len(a) : i \in 1..Len(ab) /\ ab[i] = a[i]
        /\ \A i \in 1..Len(b) : Len(a) + i \in 1..Len(ab) /\ ab[Len(a) + i] = b[i]
        /\ \A i \in 1..Len(ab) :
             \/ i \in 1..Len(a) /\ ab[i] = a[i]
             \/ i > Len(a) /\ i - Len(a) \in 1..Len(b) /\ ab[i] = b[i - Len(a)]
    BY <1>5, Joined
  <2> HIDE DEF ab
  <2>2. \A i \in 1..Len(ab) : (i <= Len(a) /\ ab[i][1] = "max") \/ (i > Len(a) /\ ab[i][1] = "min")
    <3> TAKE i \in 1..Len(ab)
    <3>1. CASE i \in 1..Len(a) /\ ab[i] = a[i]
      <4>1. a[i][1] = "max"
        BY <1>3, <3>1
      <4> QED BY <2>1, <3>1, <4>1
    <3>2. CASE i > Len(a) /\ i - Len(a) \in 1..Len(b) /\ ab[i] = b[i - Len(a)]
      <4>1. b[i - Len(a)][1] = "min"
        BY <1>3, <3>2
      <4> QED BY <2>1, <3>2, <4>1
    <3> QED BY <2>1, <3>1, <3>2
  <2>3. ASSUME NEW t \in known \cap Hpas, NEW kind \in {"max", "min"}
        PROVE  \E i \in 1..Len(ab) : ab[i] = <<kind, t>>
    <3>1. CASE kind = "max"
      <4>1. PICK i \in 1..Len(a) : a[i] = <<"max", t>>
        BY <1>3
      <4> QED BY <2>1, <3>1, <4>1
    <3>2. CASE kind = "min"
      <4>1. PICK i \in 1..Len(b) : b[i] = <<"min", t>>
        BY <1>3
      <4> QED BY <2>1, <3>2, <4>1
    <3> QED BY <3>1, <3>2
  <2> QED BY <2>1, <2>2, <2>3
<1> HIDE DEF ab
<1>8. /\ abc \in Seq(C) /\ Len(abc) = Len(ab) + Len(c) /\ Len(ab) \in Nat /\ Len(c) \in Nat
      /\ \A i \in 1..Len(ab) : i \in 1..Len(abc) /\ abc[i] = ab[i]
      /\ \A i \in 1..Len(abc) :
           \/ i \in 1..Len(ab) /\ abc[i] = ab[i]
           \/ i > Len(ab) /\ i - Len(ab) \in 1..Len(c) /\ abc[i] = c[i - Len(ab)]
  <2>1. ab \in Seq(C) /\ c \in Seq(C)
    BY <1>5, <1>7
  <2> QED BY <2>1, Joined
<1> HIDE DEF abc
<1>9. /\ s \in Seq(C) /\ Len(s) = Len(abc) + Len(d) /\ Len(abc) \in Nat /\ Len(d) \in Nat
      /\ \A i \in 1..Len(abc) : i \in 1..Len(s) /\ s[i] = abc[i]
      /\ \A i \in 1..Len(s) :
           \/ i \in 1..Len(abc) /\ s[i] = abc[i]
           \/ i > Len(abc) /\ i - Len(abc) \in 1..Len(d) /\ s[i] = d[i - Len(abc)]
  <2>1. abc \in Seq(C) /\ d \in Seq(C)
    BY <1>5, <1>8
  <2> QED BY <2>1, Joined
<1> HIDE DEF s
<1>10. ASSUME NEW i \in 1..Len(s)
       PROVE  \/ i \in 1..Len(ab) /\ s[i] = ab[i]
              \/ i > Len(ab) /\ s[i][1] \notin {"max", "min"} /\ s[i][2] \notin Hpas
  <2>1. CASE i \in 1..Len(abc) /\ s[i] = abc[i]
    <3>1. CASE i > Len(ab) /\ i - Len(ab) \in 1..Len(c) /\ abc[i] = c[i - Len(ab)]
      <4>1. c[i - Len(ab)][1] = "keda" /\ c[i - Len(ab)][2] = Keda
        BY <1>3, <3>1
      <4> QED BY <1>4, <2>1, <3>1, <4>1
    <3> QED BY <1>8, <2>1, <3>1
  <2>2. CASE i > Len(abc) /\ i - Len(abc) \in 1..Len(d) /\ s[i] = d[i - Len(abc)]
    <3>1. d[i - Len(abc)][1] = "replicas" /\ d[i - Len(abc)][2] = Stable
      BY <1>3, <2>2
    <3> QED BY <1>4, <1>8, <2>2, <3>1
  <2> QED BY <1>9, <2>1, <2>2
<1>11. MaxFirst(s)
  <2>1. \A i \in 1..Len(s) : s[i][2] \in Hpas => s[i][1] \in {"max", "min"}
    BY <1>7, <1>10
  <2>2. ASSUME NEW i \in 1..Len(s), NEW j \in 1..Len(s), i < j, s[i][1] = "min", s[j][1] = "max"
        PROVE  FALSE
    BY <1>7, <1>10, <2>2
  <2> QED BY <2>1, <2>2 DEF MaxFirst
<1>12. \A i \in 1..Len(ab) : i \in 1..Len(s) /\ s[i] = ab[i]
  BY <1>8, <1>9
<1>13. ASSUME NEW t \in known \cap Hpas, NEW kind \in {"max", "min"}
       PROVE  \E i \in 1..Len(s) : s[i] = <<kind, t>>
  BY <1>7, <1>12
<1>14. UpCalls(known) = s
  BY <1>6 DEF s, abc, ab
<1> QED BY <1>11, <1>13, <1>14

LEMMA Popped ==
    ASSUME NEW T, NEW s \in Seq(T), s # <<>>
    PROVE  /\ Len(s) \in Nat /\ Tail(s) \in Seq(T) /\ Len(Tail(s)) = Len(s) - 1
           /\ 1 \in 1..Len(s) /\ s[1] = Head(s)
           /\ \A i \in 1..Len(Tail(s)) : i + 1 \in 1..Len(s) /\ Tail(s)[i] = s[i + 1]
           /\ \A i \in 1..Len(s) : i = 1 \/ (i - 1 \in 1..Len(Tail(s)) /\ s[i] = Tail(s)[i - 1])
OBVIOUS

\* A call that is made, or fails, is no longer due.
LEMMA CallPops ==
    ASSUME Inv, pre.todo # <<>>, pre'.todo = Tail(pre.todo), MaxFirst(pre.todo)
    PROVE  /\ MaxFirst(pre.todo)'
           /\ \A kind, t :
                /\ Due(kind, t)' => Due(kind, t)
                /\ Due(kind, t) => Due(kind, t)' \/ Head(pre.todo) = <<kind, t>>
           /\ Due(Head(pre.todo)[1], Head(pre.todo)[2])
           /\ Head(pre.todo)[1] = "min" => \A t : ~Due("max", t)
           /\ Head(pre.todo)[2] \in Hpas => Head(pre.todo)[1] \in {"max", "min"}
<1> DEFINE s == pre.todo
           r == Tail(pre.todo)
<1>0. s \in Seq(Kinds \X Targets) /\ s # <<>>
  BY DEF Inv, TypeOK, PreTypeOK
<1>1. /\ Len(s) \in Nat /\ r \in Seq(Kinds \X Targets) /\ Len(r) = Len(s) - 1
      /\ 1 \in 1..Len(s) /\ s[1] = Head(s)
      /\ \A i \in 1..Len(r) : i + 1 \in 1..Len(s) /\ r[i] = s[i + 1]
      /\ \A i \in 1..Len(s) : i = 1 \/ (i - 1 \in 1..Len(r) /\ s[i] = r[i - 1])
  BY <1>0, Popped
<1>2. Head(s) = <<Head(s)[1], Head(s)[2]>>
  <2>1. Head(s) \in Kinds \X Targets
    BY <1>0
  <2> QED BY <2>1
<1> HIDE DEF s, r
<1>3. MaxFirst(s) /\ pre.todo = s /\ pre'.todo = r
  BY DEF s, r
<1>4. MaxFirst(r)
  <2>1. ASSUME NEW i \in 1..Len(r), NEW j \in 1..Len(r), i < j, r[i][1] = "min"
        PROVE  r[j][1] # "max"
    <3>1. i + 1 \in 1..Len(s) /\ j + 1 \in 1..Len(s) /\ i + 1 < j + 1
          /\ r[i] = s[i + 1] /\ r[j] = s[j + 1]
      BY <1>1, <2>1
    <3> QED BY <1>3, <2>1, <3>1 DEF MaxFirst
  <2>2. \A i \in 1..Len(r) : r[i][2] \in Hpas => r[i][1] \in {"max", "min"}
    BY <1>1, <1>3 DEF MaxFirst
  <2> QED BY <2>1, <2>2 DEF MaxFirst
<1>5. ASSUME NEW kind, NEW t
      PROVE  /\ (\E i \in 1..Len(r) : r[i] = <<kind, t>>)
                  => \E i \in 1..Len(s) : s[i] = <<kind, t>>
             /\ (\E i \in 1..Len(s) : s[i] = <<kind, t>>)
                  => (\E i \in 1..Len(r) : r[i] = <<kind, t>>) \/ Head(s) = <<kind, t>>
  BY <1>1
<1>6. Head(s)[1] = "min" => \A i \in 1..Len(s) : s[i][1] # "max"
  <2>1. ASSUME Head(s)[1] = "min", NEW i \in 1..Len(s) PROVE s[i][1] # "max"
    <3>1. i = 1 \/ 1 < i
      BY <1>1
    <3> QED BY <1>1, <1>3, <2>1, <3>1 DEF MaxFirst
  <2> QED BY <2>1
<1>7. Head(s)[2] \in Hpas => Head(s)[1] \in {"max", "min"}
  BY <1>1, <1>3 DEF MaxFirst
<1>8. \E i \in 1..Len(s) : s[i] = <<Head(s)[1], Head(s)[2]>>
  BY <1>1, <1>2
<1>9. \A kind, t : /\ Due(kind, t) <=> \E i \in 1..Len(s) : s[i] = <<kind, t>>
                   /\ Due(kind, t)' <=> \E i \in 1..Len(r) : r[i] = <<kind, t>>
  BY <1>3 DEF Due
<1>10. ASSUME Head(s)[1] = "min", NEW t PROVE ~Due("max", t)
  <2>1. \A i \in 1..Len(s) : s[i] # <<"max", t>>
    BY <1>6, <1>10
  <2> QED BY <1>9, <2>1
<1>11. MaxFirst(pre.todo)'
  BY <1>3, <1>4 DEF MaxFirst
<1>12. Head(pre.todo) = Head(s)
  BY <1>3
<1>13. ASSUME NEW kind, NEW t
       PROVE  /\ Due(kind, t)' => Due(kind, t)
              /\ Due(kind, t) => Due(kind, t)' \/ Head(s) = <<kind, t>>
  BY <1>5, <1>9
<1>14. Due(Head(s)[1], Head(s)[2])
  BY <1>8, <1>9
<1> QED BY <1>7, <1>10, <1>11, <1>12, <1>13, <1>14

LEMMA CallLands ==
    ASSUME Inv, LandInv, Call
    PROVE  LandInv'
<1> DEFINE h == Head(pre.todo)
           t == h[2]
           plan == (IF pre.at = "up" THEN pre.plan.up ELSE pre.plan.down)[t]
           size == Sized(h[1], live[t], plan)
<1>0. /\ pre.todo # <<>> /\ pre.at \in {"up", "down"} /\ pre.todo \in Seq(Kinds \X Targets)
      /\ h \in Kinds \X Targets /\ t \in Targets /\ UNCHANGED <<git, meddled>>
  BY DEF Call, Inv, TypeOK, PreTypeOK
<1>1. /\ pre'.at = pre.at /\ pre'.plan = pre.plan /\ pre'.known = pre.known
      /\ pre'.todo = Tail(pre.todo)
      /\ \/ Patch(t, size) /\ pre'.missed = pre.missed
         \/ PatchFails(size) /\ pre'.missed = pre.missed \cup (IF Valid(size) THEN {t} ELSE {})
  <2>1. pre \in [at : PrePlaces, plan : [up : [Targets -> Sizes], down : [Targets -> Sizes]],
                 known : SUBSET Targets, todo : Seq(Kinds \X Targets), missed : SUBSET Targets]
    BY DEF Inv, TypeOK, PreTypeOK
  <2>2. \/ Patch(t, size) /\ pre' = [pre EXCEPT !.todo = Tail(@)]
        \/ /\ PatchFails(size)
           /\ pre' = [pre EXCEPT !.todo = Tail(@),
                                 !.missed = @ \cup (IF Valid(size) THEN {t} ELSE {})]
    BY DEF Call
  <2> DEFINE more == IF Valid(size) THEN {t} ELSE {}
  <2> HIDE DEF size, t, more
  <2>3. \/ Patch(t, size) /\ pre' = [pre EXCEPT !.todo = Tail(@)]
        \/ PatchFails(size) /\ pre' = [pre EXCEPT !.todo = Tail(@), !.missed = @ \cup more]
    BY <2>2 DEF more
  <2>4. /\ pre'.at = pre.at /\ pre'.plan = pre.plan /\ pre'.known = pre.known
        /\ pre'.todo = Tail(pre.todo)
        /\ \/ Patch(t, size) /\ pre'.missed = pre.missed
           \/ PatchFails(size) /\ pre'.missed = pre.missed \cup more
    BY <2>1, <2>3
  <2> QED BY <2>4 DEF more
<1>2. CASE pre.at = "down"
  BY <1>0, <1>1, <1>2 DEF LandInv
<1>3. CASE pre.at = "up"
  <2>1. MaxFirst(pre.todo)
    BY <1>3 DEF LandInv
  <2>2. /\ MaxFirst(pre.todo)'
        /\ \A kind, u : /\ Due(kind, u)' => Due(kind, u)
                        /\ Due(kind, u) => Due(kind, u)' \/ h = <<kind, u>>
        /\ Due(h[1], t) /\ (h[1] = "min" => \A u : ~Due("max", u))
        /\ t \in Hpas => h[1] \in {"max", "min"}
    BY <1>0, <1>1, <2>1, CallPops
  <2>3. live \in [Targets -> Sizes] /\ plan = pre.plan.up[t] /\ plan \in Sizes
    BY <1>0, <1>3 DEF Inv, TypeOK, ClusterTypeOK, PreTypeOK
  <2>4. /\ Hpas \subseteq Targets
        /\ h[1] = "max" => size = [live[t] EXCEPT !.max = plan.max]
        /\ h[1] = "min" => size = [live[t] EXCEPT !.min = plan.min]
    BY DEF Targets, Sized
  <2>5. \A u : /\ h # <<"min", u>> \/ h[1] = "min"
               /\ \A kind : h = <<kind, u>> => t = u
    OBVIOUS
  <2> HIDE DEF h, t, plan, size
  <2>6. ASSUME NEW u \in Hpas, Own(u)' PROVE Landing(u)'
    <3>1. Own(u) /\ Landing(u) /\ u \notin pre'.missed
      BY <1>0, <1>1, <1>3, <2>6 DEF Own, LandInv
    <3>2. CASE u # t
      <4>1. live'[u] = live[u]
        BY <1>1, <2>3, <2>4, <3>2 DEF Patch, PatchFails
      <4>2. \A kind : Due(kind, u)' <=> Due(kind, u)
        BY <2>2, <2>5, <3>2
      <4> QED BY <1>1, <3>1, <4>1, <4>2 DEF Landing
    <3>3. ASSUME u = t, Valid(size) PROVE live'[u] = size
      <4>1. Patch(t, size)
        BY <1>1, <3>1, <3>3
      <4> QED BY <1>0, <2>3, <3>3, <4>1 DEF Patch
    <3>4. CASE u = t /\ h[1] = "max"
      <4>1. Due("max", u) /\ Due("min", u) /\ live[u].min = Kept[u].min
        BY <2>2, <3>1, <3>4 DEF Landing
      <4>2. size.max = plan.max /\ size.min = Kept[u].min
        BY <1>0, <2>3, <2>4, <3>4, <4>1 DEF Sizes
      <4>3. plan = pre.plan.up[u]
        BY <2>3, <3>4
      <4>4. Valid(size)
        <5>1. plan.max >= Kept[u].min
          BY <3>1, <4>3 DEF Own
        <5> QED BY <4>2, <5>1 DEF Valid
      <4>5. live'[u].max = plan.max /\ live'[u].min = Kept[u].min
        BY <3>3, <3>4, <4>2, <4>4
      <4>6. Due("min", u)'
        BY <2>2, <2>5, <3>4, <4>1
      <4>7. plan = pre'.plan.up[u]
        BY <1>1, <4>3
      <4> QED BY <4>5, <4>6, <4>7 DEF Landing
    <3>5. CASE u = t /\ h[1] = "min"
      <4>1. ~Due("max", u) /\ Due("min", u) /\ live[u].max = plan.max
        BY <2>2, <2>3, <3>1, <3>5 DEF Landing
      <4>2. size = plan
        <5>1. live[t] \in Sizes /\ live[t].max = plan.max
          BY <1>0, <2>3, <3>5, <4>1
        <5>2. [live[t] EXCEPT !.min = plan.min] = plan
          BY <2>3, <5>1 DEF Sizes
        <5> QED BY <2>4, <3>5, <5>2
      <4>3. plan = pre.plan.up[u] /\ plan = pre'.plan.up[u]
        BY <1>1, <2>3, <3>5
      <4>4. live'[u] = plan
        BY <3>1, <3>3, <3>5, <4>2, <4>3 DEF Own
      <4>5. ~Due("max", u)'
        BY <2>2, <4>1
      <4> QED BY <4>3, <4>4, <4>5 DEF Landing
    <3> QED BY <2>2, <3>2, <3>4, <3>5
  <2> QED BY <1>0, <1>1, <1>3, <2>2, <2>6 DEF LandInv
<1> QED BY <1>0, <1>2, <1>3

LEMMA PreLands ==
    ASSUME Inv, LandInv, PreStep
    PROVE  LandInv'
<1>0. pre \in [at : PrePlaces, plan : [up : [Targets -> Sizes], down : [Targets -> Sizes]],
               known : SUBSET Targets, todo : Seq(Kinds \X Targets), missed : SUBSET Targets]
  BY DEF Inv, TypeOK, PreTypeOK
<1>1. CASE Look
  <2>1. pre'.at = "look" /\ pre.at = "ready"
    BY <1>0, <1>1 DEF Look
  <2> QED BY <1>1, <2>1 DEF Look, LandInv
<1>2. CASE Plan
  <2>1. pre'.at \in {"wait", "over"} /\ pre.at = "look"
    BY <1>0, <1>2 DEF Plan
  <2> QED BY <1>2, <2>1 DEF Plan, LandInv
<1>3. CASE ScaleUp
  <2>1. /\ pre.at = "wait" /\ pre'.at = "up" /\ pre'.todo = UpCalls(pre.known)
        /\ pre'.known = pre.known /\ pre'.plan = pre.plan /\ UNCHANGED <<git, live>>
    BY <1>0, <1>3 DEF ScaleUp
  <2>2. /\ MaxFirst(UpCalls(pre.known))
        /\ \A t \in pre.known \cap Hpas, kind \in {"max", "min"} :
             \E i \in 1..Len(UpCalls(pre.known)) : UpCalls(pre.known)[i] = <<kind, t>>
    BY <1>0, UpCallsOrdered
  <2>3. \A t \in pre.known \cap Hpas : Due("max", t)' /\ Due("min", t)'
    BY <2>1, <2>2 DEF Due
  <2>4. MaxFirst(pre.todo)'
    BY <2>1, <2>2 DEF MaxFirst
  <2>5. ASSUME NEW t \in Hpas, Own(t)' PROVE Landing(t)'
    BY <2>1, <2>3, <2>5 DEF LandInv, Landing, Own
  <2> QED BY <2>1, <2>4, <2>5 DEF LandInv
<1>4. CASE Applied
  <2>1. /\ pre'.known = pre.known /\ pre'.plan = pre.plan /\ pre'.todo = pre.todo
        /\ pre'.missed = pre.missed /\ pre.todo = <<>>
        /\ (pre.at = "up" /\ pre'.at = "applied") \/ pre'.at = "over"
        /\ UNCHANGED <<git, live, meddled>>
    BY <1>0, <1>4 DEF Applied
  <2> QED BY <2>1 DEF LandInv, Own, Landing, Due
<1>5. CASE ScaleDown
  <2>1. pre'.at = "down"
    BY <1>0, <1>5 DEF ScaleDown
  <2> QED BY <1>5, <2>1 DEF ScaleDown, LandInv
<1>6. CASE Quit
  <2>1. pre'.at = "over"
    BY <1>0, <1>6 DEF Quit
  <2> QED BY <1>6, <2>1 DEF Quit, LandInv
<1> QED BY <1>1, <1>2, <1>3, <1>4, <1>5, <1>6, CallLands DEF PreStep

\* Who changes an autoscaler's size while the script is at work meddles with it, and
\* nobody else changes a minimum.
LEMMA OthersLand ==
    ASSUME Inv, LandInv, UNCHANGED pre,
           \A t \in Hpas : /\ git'[t].min = git[t].min
                           /\ live'[t].min \in {live[t].min, git[t].min}
                           /\ live'[t] = live[t] \/ t \in meddled',
           meddled \subseteq meddled'
    PROVE  LandInv'
<1>1. \A t \in Hpas : Own(t)' => Own(t) /\ live'[t] = live[t]
  BY DEF Own
<1>2. ASSUME NEW t \in Hpas, Own(t)', Landing(t) PROVE Landing(t)'
  BY <1>1, <1>2 DEF Landing, Due
<1> QED BY <1>1, <1>2 DEF LandInv, MaxFirst

LEMMA NextLands == Inv /\ LandInv /\ [Next]_vars => LandInv'
<1> SUFFICES ASSUME Inv, LandInv, [Next]_vars PROVE LandInv'
  OBVIOUS
<1>0. /\ git \in [Targets -> Sizes] /\ live \in [Targets -> Sizes] /\ Hpas \subseteq Targets
      /\ Keda \in Targets /\ Keda \notin Hpas /\ meddled \subseteq Targets
  BY ClusterAssumption DEF Inv, TypeOK, ClusterTypeOK, Targets
<1>1. ASSUME UNCHANGED <<pre, live, meddled>>, NEW t \in Targets, NEW max, NEW doubtful,
             Commit(t, max, doubtful)
      PROVE  LandInv'
  <2>1. \A u \in Hpas : git'[u].min = git[u].min
    BY <1>0, <1>1 DEF Commit, Sizes
  <2> QED BY <1>1, <2>1, OthersLand
<1>2. ASSUME UNCHANGED <<pre, git, live, meddled>>
      PROVE  LandInv'
  BY <1>2, OthersLand
<1>3. CASE Tools
  <2>1. CASE job.at = "put" /\ Writes
    <3>1. Object \in Targets
      BY <2>1 DEF Inv, JobShape
    <3> QED BY <1>1, <1>3, <2>1, <3>1 DEF Tools, Writes
  <2>2. CASE UNCHANGED clusterVars
    BY <1>2, <1>3, <2>2 DEF Tools
  <2> QED BY <1>3, <2>1, <2>2
         DEF Tools, JobStep, Mode, Ask, Unavailable, Load, Pick, NoMore, Read, Get, Put,
             Save, Stamp, StampSave, StartJob, JobDies, Minute
<1>4. CASE Cluster
  <2>1. CASE SelfHeal
    <3>1. \A u \in Hpas : live'[u] = live[u]
      BY <1>0, <2>1 DEF SelfHeal
    <3> QED BY <1>4, <2>1, <3>1, OthersLand DEF Cluster, SelfHeal
  <2>2. CASE Rollout
    BY <1>0, <1>4, <2>2, OthersLand DEF Cluster, Rollout
  <2>3. CASE Customers
    BY <1>2, <1>4, <2>3 DEF Cluster, Customers
  <2>4. ASSUME NEW t \in Targets, Push(t)
        PROVE  LandInv'
    BY <1>1, <1>4, <2>4 DEF Cluster, Push
  <2> QED BY <1>4, <2>1, <2>2, <2>3, <2>4 DEF Cluster, Argo, Targets
<1>5. CASE Starts /\ UNCHANGED <<clusterVars, advisorVars>>
  <2>1. UNCHANGED pre \/ (pre.at = "off" /\ pre' = [pre EXCEPT !.at = "ready"])
    BY <1>5 DEF Starts
  <2>2. CASE pre.at = "off" /\ pre' = [pre EXCEPT !.at = "ready"]
    <3>1. pre'.at = "ready"
      BY <2>2 DEF Inv, TypeOK, PreTypeOK
    <3> QED BY <1>5, <2>2, <3>1 DEF LandInv
  <2> QED BY <1>2, <1>5, <2>1, <2>2
<1>6. CASE PreStep
  BY <1>6, PreLands
<1>7. CASE MonitorStep /\ UNCHANGED pre
  <2>1. ASSUME NEW t \in Targets, MonitorPatch(t)
        PROVE  LandInv'
    <3> DEFINE size == [live[t] EXCEPT !.max = Raised(t, mon.snap[t])]
    <3>1. size.min = live[t].min
      BY <1>0 DEF Sizes
    <3>2. \A u \in Hpas : live'[u].min = live[u].min /\ (live'[u] = live[u] \/ u = t)
      <4>1. Patch(t, size) \/ PatchFails(size)
        BY <2>1 DEF MonitorPatch
      <4> HIDE DEF size
      <4> QED BY <1>0, <3>1, <4>1 DEF Patch, PatchFails
    <3>3. git' = git /\ meddled' = meddled \cup {t}
      BY <2>1 DEF MonitorPatch
    <3> QED BY <1>7, <3>2, <3>3, OthersLand
  <2> QED BY <1>2, <1>7, <2>1 DEF MonitorStep, Snapshot, Sleep, MonitorEnds
<1>8. CASE SearchStep /\ UNCHANGED pre
  BY <1>8, <1>2 DEF SearchStep, Inject, Judge
<1>9. CASE UNCHANGED vars
  BY <1>9, <1>2
<1> QED BY <1>3, <1>4, <1>5, <1>6, <1>7, <1>8, <1>9 DEF Next

\* For any autoscalers, plan and cluster, whatever the advisor, ArgoCD, the monitor
\* and people do at the same time: once pre_scale has raised the maxima and then
\* the minima, each autoscaler nobody else changed has the sizes of the plan, because
\* no minimum is ever above the maximum of the moment (apply_scale).
THEOREM WarmUpsLand == Spec => []WarmUpLands
<1>1. Init => LandInv
  <2> SUFFICES ASSUME Init PROVE LandInv
    OBVIOUS
  <2>1. PICK at \in {"off", "ready", "over"} : pre = [NoScript EXCEPT !.at = at]
    BY DEF Init
  <2>2. pre.at \in {"off", "ready", "over"}
    BY <2>1 DEF NoScript
  <2>3. git = Kept /\ live = Kept
    BY DEF Init, ClusterInit
  <2> QED BY <2>2, <2>3 DEF LandInv
<1>2. LandInv => WarmUpLands
  <2> SUFFICES ASSUME LandInv, pre.at = "applied", NEW t \in Hpas, Own(t)
               PROVE  live[t] = pre.plan.up[t]
    BY DEF WarmUpLands, Own
  <2>1. Landing(t) /\ pre.todo = <<>>
    BY DEF LandInv
  <2> QED BY <2>1 DEF Landing, Due
<1> QED BY <1>1, <1>2, InitInv, NextInv, NextLands, PTL DEF Spec
=============================================================================
