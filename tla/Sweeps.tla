-------------------------------- MODULE Sweeps --------------------------------
(***************************************************************************)
(* When a watched package is swept: src/schedule/sweep-scheduler.ts over   *)
(* claim_due_sweeps (migrations/007_scheduling.sql), the operator's        *)
(* scripts/watch-package.ts, and the effect of each detect-changes job on  *)
(* the row of the change (createChangeRecorder in src/main/wiring.ts).     *)
(*                                                                         *)
(* One package.  Every worker process runs a scheduler; a tick passes its  *)
(* own clock to the claim, and derives the dedupe key from the same value. *)
(* Time goes on forever, so it is kept relative: how long ago the package  *)
(* was swept, and how many buckets ago a claim was made.                   *)
(***************************************************************************)
EXTENDS Integers, FiniteSets

CONSTANTS
  Schedulers,    \* worker processes
  Baselines,     \* versions the operator may set as the baseline
  Intervals,     \* sweep intervals an operator may choose
  Bucket,        \* dedupeBucketMs
  MaxDelay,      \* bound: buckets a claim or a job may fall behind
  MaxDisruptions \* bound: re-watches, pauses, crashes, failed enqueues

\* watched_package_interval_sane: no interval is shorter than the bucket, and
\* one is the longest.
ASSUME IntervalAssumption ==
  /\ Intervals \subseteq Nat /\ Bucket \in Nat \ {0}
  /\ \A i \in Intervals : i >= Bucket
  /\ \E m \in Intervals : \A i \in Intervals : i <= m
  /\ {MaxDelay, MaxDisruptions} \subseteq Nat

VARIABLES
  phase,    \* the time since the current bucket began
  watch,    \* the watched_package row; age is the time since last_swept_at
  tick,     \* tick[s]: what scheduler s has claimed and not enqueued yet
  sweeps,   \* the detect-changes jobs, by dedupe key
  analysis, \* the baseline the change row was last derived from
  disrupted

sweepVars == <<phase, watch, tick, sweeps, analysis, disrupted>>

\* A package is due from its longest interval on, and when it was never swept.
Overdue == CHOOSE m \in Intervals : \A i \in Intervals : i <= m

\* Mutant of Width: an hour's bucket over a minute's interval.
Width_TwoBuckets == 2 * Bucket
Width == Bucket

Idle == [claimed |-> FALSE, bucket |-> 0, baseline |-> CHOOSE b \in Baselines : TRUE]
Job(baseline, bucket, state) == [baseline |-> baseline, bucket |-> bucket, state |-> state]
Active == {"pending", "running"}

Disrupt == disrupted < MaxDisruptions /\ disrupted' = disrupted + 1

Due(w) == w.enabled /\ w.age >= w.interval

-----------------------------------------------------------------------------
\* Nothing falls behind by more than MaxDelay, and keys older than that are
\* not looked up again.
Behind == \/ \E s \in Schedulers : tick[s].claimed /\ tick[s].bucket >= MaxDelay
          \/ \E j \in sweeps : j.state \in Active /\ j.bucket >= MaxDelay

Pass ==
  LET over == phase + 1 = Width
  IN  /\ over => ~Behind
      /\ phase' = IF over THEN 0 ELSE phase + 1
      /\ watch' = [watch EXCEPT !.age = IF @ < Overdue THEN @ + 1 ELSE @]
      /\ IF over
         THEN /\ tick' = [s \in Schedulers |->
                   IF tick[s].claimed THEN [tick[s] EXCEPT !.bucket = @ + 1] ELSE tick[s]]
              /\ sweeps' = {[j EXCEPT !.bucket = @ + 1] : j \in {k \in sweeps : k.bucket < MaxDelay}}
         ELSE UNCHANGED <<tick, sweeps>>
      /\ UNCHANGED <<analysis, disrupted>>

\* Mutant of ClaimDue: the sweep goes on from what was last analysed.
ClaimDue_LastAnalysed(s) ==
  /\ ~tick[s].claimed
  /\ Due(watch)
  /\ watch' = [watch EXCEPT !.age = 0]
  /\ tick' = [tick EXCEPT ![s] = [claimed |-> TRUE, bucket |-> 0, baseline |-> analysis]]
  /\ UNCHANGED <<phase, sweeps, analysis, disrupted>>

\* tick: the claim returns the row and advances its clock in one statement.
ClaimDue(s) ==
  /\ ~tick[s].claimed
  /\ Due(watch)
  /\ watch' = [watch EXCEPT !.age = 0]
  /\ tick' = [tick EXCEPT ![s] = [claimed |-> TRUE, bucket |-> 0, baseline |-> watch.baseline]]
  /\ UNCHANGED <<phase, sweeps, analysis, disrupted>>

Exists(t) == \E j \in sweeps : j.baseline = t.baseline /\ j.bucket = t.bucket

\* ... and the enqueue, which the dedupe key may turn into nothing.
EnqueueSweep(s) ==
  /\ tick[s].claimed
  /\ sweeps' = IF Exists(tick[s]) THEN sweeps
               ELSE sweeps \cup {Job(tick[s].baseline, tick[s].bucket, "pending")}
  /\ tick' = [tick EXCEPT ![s] = Idle]
  /\ UNCHANGED <<phase, watch, analysis, disrupted>>

\* The enqueue throws and is logged, or the process crashes: the claim stands.
LoseSweep(s) ==
  /\ tick[s].claimed
  /\ Disrupt
  /\ tick' = [tick EXCEPT ![s] = Idle]
  /\ UNCHANGED <<phase, watch, sweeps, analysis>>

Move(j, to) == sweeps' = (sweeps \ {j}) \cup {[j EXCEPT !.state = to]}

\* The job as ChangeDetection has it: it starts, and it records its analysis.
StartSweep(j) ==
  /\ j.state = "pending"
  /\ Move(j, "running")
  /\ UNCHANGED <<phase, watch, tick, analysis, disrupted>>

RecordSweep(j) ==
  /\ j.state = "running"
  /\ analysis' = j.baseline
  /\ Move(j, "done")
  /\ UNCHANGED <<phase, watch, tick, disrupted>>

\* It is retried, perhaps after it recorded, or it is given up.
CrashSweep(j) ==
  /\ j.state = "running"
  /\ Disrupt
  /\ \/ Move(j, "pending") /\ analysis' \in {analysis, j.baseline}
     \/ Move(j, "done") /\ UNCHANGED analysis
  /\ UNCHANGED <<phase, watch, tick>>

\* watch-package: an upsert that leaves the clock alone.
WatchPackage(b, i) ==
  /\ <<b, i, TRUE>> # <<watch.baseline, watch.interval, watch.enabled>>
  /\ Disrupt
  /\ watch' = [watch EXCEPT !.baseline = b, !.interval = i, !.enabled = TRUE]
  /\ UNCHANGED <<phase, tick, sweeps, analysis>>

\* An operator's UPDATE: the column is there for it, no script sets it.
Pause ==
  /\ watch.enabled
  /\ Disrupt
  /\ watch' = [watch EXCEPT !.enabled = FALSE]
  /\ UNCHANGED <<phase, tick, sweeps, analysis>>

-----------------------------------------------------------------------------
SweepsInit ==
  /\ phase = 0
  /\ \E b \in Baselines, i \in Intervals :
       /\ watch = [baseline |-> b, interval |-> i, age |-> Overdue, enabled |-> TRUE]
       /\ analysis = b
  /\ tick = [s \in Schedulers |-> Idle]
  /\ sweeps = {}
  /\ disrupted = 0

RunSweep == \E j \in sweeps : StartSweep(j) \/ RecordSweep(j)

SweepsNext ==
  \/ Pass \/ Pause \/ RunSweep
  \/ \E s \in Schedulers : ClaimDue(s) \/ EnqueueSweep(s) \/ LoseSweep(s)
  \/ \E j \in sweeps : CrashSweep(j)
  \/ \E b \in Baselines, i \in Intervals : WatchPackage(b, i)

\* Time passes, every scheduler's loop goes on, and workers run their jobs.
SweepsFairness ==
  /\ WF_sweepVars(Pass) /\ WF_sweepVars(RunSweep)
  /\ \A s \in Schedulers : WF_sweepVars(ClaimDue(s) \/ EnqueueSweep(s))

-----------------------------------------------------------------------------
(* Properties *)

SweepsTypeOK ==
  /\ phase \in 0..(Width - 1)
  /\ watch \in [baseline : Baselines, interval : Intervals, age : 0..Overdue, enabled : BOOLEAN]
  /\ tick \in [Schedulers -> [claimed : BOOLEAN, bucket : 0..MaxDelay, baseline : Baselines]]
  /\ sweeps \subseteq [baseline : Baselines, bucket : 0..MaxDelay,
                       state : Active \cup {"done"}]
  /\ analysis \in Baselines
  /\ disrupted \in 0..MaxDisruptions

\* A claimed sweep that reaches the queue becomes a job: the dedupe key never
\* suppresses a legitimate one, whichever process claimed it and however late
\* it is enqueued (src/schedule/sweep-scheduler.ts:81).
NoSweepSuppressed == \A s \in Schedulers : tick[s].claimed => ~Exists(tick[s])

\* However claims are lost, jobs die or a slow sweep of an older baseline
\* overwrites a newer analysis, a package that stays enabled ends up analysed
\* against its baseline for good: what one sweep lost, the next one makes up
\* (src/schedule/sweep-scheduler.ts:22, src/main/wiring.ts:613).
AnalysisFollowsBaseline ==
  <>[]watch.enabled => <>[](analysis = watch.baseline)
=============================================================================
