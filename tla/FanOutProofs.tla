----------------------------- MODULE FanOutProofs -----------------------------
(***************************************************************************)
(* What holds of Sweeps and of Rollout for every number of processes,      *)
(* operators and repositories, every interval, manifest and canary, and    *)
(* however often things fail.                                              *)
(***************************************************************************)
EXTENDS MCRollout, FiniteSetTheorems, TLAPS

SweepsSpec  == SweepsInit /\ [][SweepsNext]_sweepVars
RolloutSpec == RolloutInit /\ [][RolloutNext]_rolloutVars

-----------------------------------------------------------------------------
(* Sweeps: the inductive invariant.  A claim is told from every other by    *)
(* the bucket it was made in alone, because a claim restarts the clock and  *)
(* the next has to wait for an interval, which is at least a bucket long.   *)

\* What was claimed in the current bucket was claimed since it began.
ClaimsSinceBucketBegan ==
  \/ watch.age <= phase
  \/ /\ \A s \in Schedulers : tick[s].claimed => tick[s].bucket # 0
     /\ \A j \in sweeps : j.bucket # 0

ClaimsApart ==
  /\ \A s, t \in Schedulers :
       s # t /\ tick[s].claimed /\ tick[t].claimed => tick[s].bucket # tick[t].bucket
  /\ \A s \in Schedulers : tick[s].claimed => \A j \in sweeps : j.bucket # tick[s].bucket

SweepsIInv == SweepsTypeOK /\ ClaimsSinceBucketBegan /\ ClaimsApart

-----------------------------------------------------------------------------
(* Rollout: the inductive invariant.  What a rollout has recorded is true   *)
(* of the commits it names, and what it has recorded as queued is queued,   *)
(* by it or before it, or was cleared by an operator.                       *)

Queued(t) == HasJob(t) \/ [repo |-> t.repo, sha |-> t.sha] \in cleared
OfTheBase(t) == t.impact = ImpactAt[t.repo][t.sha]
WaveOf(memo) == UNION {Wave(c.verdict, ts) : c \in memo.loaded, ts \in memo.assessed}

MemoSound(memo) ==
  /\ \A ts \in memo.assessed : \A t \in ts : OfTheBase(t)
  /\ memo.enqueued => memo.loaded # {} /\ memo.assessed # {} /\ \A t \in WaveOf(memo) : Queued(t)

AttemptSound(a) ==
  /\ MemoSound(a.memo)
  /\ \A t \in a.targets : OfTheBase(t)
  /\ a.todo # {} => a.memo.assessed = {}
  /\ a.pinned # {} => a.todo # {}

\* A job waits for its next attempt because it has one left, or because an
\* attempt crashed.
AttemptsLeft == rollout.status = "pending" => rollout.attempts < MaxAttempts + trouble

RolloutIInv ==
  /\ RolloutTypeOK /\ AttemptsLeft
  /\ MemoSound(records) /\ AttemptSound(attempt)
  /\ ImpactIsOfTheBase /\ PlannedWaveIsQueued

-----------------------------------------------------------------------------
(* Sweeps *)

LEMMA BucketsAndDelays ==
  /\ Bucket \in Nat /\ Bucket > 0 /\ MaxDelay \in Nat /\ MaxDisruptions \in Nat
  /\ Width = Bucket
  /\ \A i \in Intervals : i \in Nat /\ i >= Bucket
BY IntervalAssumption DEF Width

\* There is a longest interval.
LEMMA OverdueIsNatural == Overdue \in Nat
<1>1. PICK m \in Intervals : \A i \in Intervals : i <= m
  BY IntervalAssumption
<1>2. Overdue \in Intervals
  BY <1>1 DEF Overdue
<1> QED
  BY <1>2, BucketsAndDelays

TickRecords == [claimed : BOOLEAN, bucket : 0..MaxDelay, baseline : Baselines]
SweepRecords == [baseline : Baselines, bucket : 0..MaxDelay, state : Active \cup {"done"}]
WatchRecords == [baseline : Baselines, interval : Intervals, age : 0..Overdue, enabled : BOOLEAN]

LEMMA IdleIsATick ==
  ASSUME NEW b \in Baselines
  PROVE  Idle \in TickRecords /\ ~Idle.claimed
BY BucketsAndDelays DEF Idle, TickRecords

LEMMA SweepsInitially == SweepsInit => SweepsIInv
<1> SUFFICES ASSUME SweepsInit PROVE SweepsIInv
  OBVIOUS
<1> USE BucketsAndDelays, OverdueIsNatural
<1>1. PICK b \in Baselines, i \in Intervals :
        /\ watch = [baseline |-> b, interval |-> i, age |-> Overdue, enabled |-> TRUE]
        /\ analysis = b
  BY DEF SweepsInit
<1>2. Idle \in TickRecords /\ ~Idle.claimed
  BY IdleIsATick
<1>3. \A s \in Schedulers : ~tick[s].claimed
  BY <1>2 DEF SweepsInit
<1>4. tick \in [Schedulers -> TickRecords]
  BY <1>2 DEF SweepsInit
<1>5. SweepsTypeOK
  BY <1>1, <1>4 DEF SweepsInit, SweepsTypeOK, TickRecords
<1> QED
  BY <1>3, <1>5 DEF SweepsInit, SweepsIInv, ClaimsSinceBucketBegan, ClaimsApart

\* A sweep that changes its state keeps its key.
LEMMA MoveKeepsKeys ==
  ASSUME SweepsIInv, NEW j \in sweeps, NEW to \in Active \cup {"done"}, Move(j, to),
         UNCHANGED <<phase, tick>>, watch'.age = watch.age
  PROVE  /\ sweeps' \subseteq SweepRecords
         /\ ClaimsSinceBucketBegan' /\ ClaimsApart'
<1> DEFINE moved == [j EXCEPT !.state = to]
<1>1. j \in SweepRecords
  BY DEF SweepsIInv, SweepsTypeOK, SweepRecords
<1>2. moved \in SweepRecords /\ moved.bucket = j.bucket
  BY <1>1 DEF SweepRecords
<1>3. sweeps' = (sweeps \ {j}) \cup {moved}
  BY DEF Move
<1> HIDE DEF moved
<1>4. \A k \in sweeps' : \E l \in sweeps : k.bucket = l.bucket
  BY <1>2, <1>3
<1>5. sweeps' \subseteq SweepRecords
  BY <1>2, <1>3 DEF SweepsIInv, SweepsTypeOK, SweepRecords
<1>6. ClaimsSinceBucketBegan'
  BY <1>4 DEF SweepsIInv, ClaimsSinceBucketBegan
<1>7. ClaimsApart'
  BY <1>4 DEF SweepsIInv, ClaimsApart
<1> QED
  BY <1>5, <1>6, <1>7

LEMMA PassKeepsApart ==
  ASSUME SweepsIInv, Pass
  PROVE  SweepsIInv'
<1> USE BucketsAndDelays, OverdueIsNatural
<1>1. watch \in WatchRecords /\ tick \in [Schedulers -> TickRecords] /\ sweeps \subseteq SweepRecords
  BY DEF SweepsIInv, SweepsTypeOK, WatchRecords, TickRecords, SweepRecords
<1>2. watch' \in WatchRecords /\ watch'.age <= watch.age + 1
  <2>1. watch' = [watch EXCEPT !.age = IF watch.age < Overdue THEN watch.age + 1 ELSE watch.age]
    BY DEF Pass
  <2>2. watch.age \in 0..Overdue
    BY <1>1 DEF WatchRecords
  <2>3. CASE watch.age < Overdue
    BY <1>1, <2>1, <2>2, <2>3 DEF WatchRecords
  <2>4. CASE ~(watch.age < Overdue)
    BY <1>1, <2>1, <2>2, <2>4 DEF WatchRecords
  <2> QED
    BY <2>3, <2>4
<1>3. phase \in 0..(Bucket - 1) /\ UNCHANGED <<analysis, disrupted>>
  BY DEF SweepsIInv, SweepsTypeOK, Pass
<1>4. CASE phase + 1 # Bucket
  <2>1. phase' = phase + 1 /\ phase' \in 0..(Bucket - 1) /\ UNCHANGED <<tick, sweeps>>
    BY <1>3, <1>4 DEF Pass
  <2>2. SweepsTypeOK'
    BY <1>1, <1>2, <1>3, <2>1 DEF SweepsIInv, SweepsTypeOK, WatchRecords, TickRecords, SweepRecords
  <2>3. watch.age <= phase => watch'.age <= phase'
    BY <1>1, <1>2, <1>3, <2>1 DEF WatchRecords
  <2>4. ClaimsSinceBucketBegan' /\ ClaimsApart'
    BY <2>1, <2>3 DEF SweepsIInv, ClaimsSinceBucketBegan, ClaimsApart
  <2> QED
    BY <2>2, <2>4 DEF SweepsIInv
<1>5. CASE phase + 1 = Bucket
  <2>1. /\ ~Behind /\ phase' = 0
        /\ tick' = [s \in Schedulers |->
             IF tick[s].claimed THEN [tick[s] EXCEPT !.bucket = @ + 1] ELSE tick[s]]
        /\ sweeps' = {[j EXCEPT !.bucket = @ + 1] : j \in {k \in sweeps : k.bucket < MaxDelay}}
    BY <1>5 DEF Pass
  <2>2. \A s \in Schedulers :
          /\ tick[s] \in TickRecords /\ tick'[s] \in TickRecords /\ tick'[s].claimed = tick[s].claimed
          /\ tick[s].claimed => tick'[s].bucket = tick[s].bucket + 1 /\ tick[s].bucket \in Nat
    <3> TAKE s \in Schedulers
    <3>1. tick[s] \in TickRecords
      BY <1>1
    <3>2. CASE tick[s].claimed
      <4>1. tick[s].bucket < MaxDelay
        BY <2>1, <3>1, <3>2 DEF Behind, TickRecords
      <4>2. tick'[s] = [tick[s] EXCEPT !.bucket = tick[s].bucket + 1]
        BY <2>1, <3>2
      <4>3. tick[s].bucket \in 0..MaxDelay
        BY <3>1 DEF TickRecords
      <4>4. tick'[s].claimed = tick[s].claimed /\ tick'[s].bucket = tick[s].bucket + 1
        BY <3>1, <4>2 DEF TickRecords
      <4>5. tick'[s] \in TickRecords
        BY <3>1, <4>1, <4>2, <4>3 DEF TickRecords
      <4> QED
        BY <3>1, <4>3, <4>4, <4>5
    <3>3. CASE ~tick[s].claimed
      <4>1. tick'[s] = tick[s]
        BY <2>1, <3>3
      <4> QED
        BY <3>1, <3>3, <4>1
    <3> QED
      BY <3>2, <3>3
  <2>3. \A k \in sweeps' : k \in SweepRecords /\ \E l \in sweeps : l.bucket \in Nat /\ k.bucket = l.bucket + 1
    <3> TAKE k \in sweeps'
    <3>1. PICK l \in sweeps : l.bucket < MaxDelay /\ k = [l EXCEPT !.bucket = l.bucket + 1]
      BY <2>1
    <3>2. l \in SweepRecords
      BY <1>1
    <3>3. k \in SweepRecords /\ l.bucket \in Nat /\ k.bucket = l.bucket + 1
      BY <3>1, <3>2 DEF SweepRecords
    <3> QED
      BY <3>3
  <2>4. tick' \in [Schedulers -> TickRecords]
    BY <2>1, <2>2
  <2>5. SweepsTypeOK'
    BY <1>2, <1>3, <2>1, <2>3, <2>4 DEF SweepsIInv, SweepsTypeOK, WatchRecords, TickRecords, SweepRecords
  <2>6. ClaimsSinceBucketBegan'
    BY <2>2, <2>3 DEF ClaimsSinceBucketBegan
  <2>7. ClaimsApart'
    <3>1. \A s, t \in Schedulers :
            s # t /\ tick[s].claimed /\ tick[t].claimed => tick[s].bucket # tick[t].bucket
      BY DEF SweepsIInv, ClaimsApart
    <3>2. \A s \in Schedulers : tick[s].claimed => \A j \in sweeps : j.bucket # tick[s].bucket
      BY DEF SweepsIInv, ClaimsApart
    <3>3. \A s, t \in Schedulers :
            s # t /\ tick'[s].claimed /\ tick'[t].claimed => tick'[s].bucket # tick'[t].bucket
      BY <2>2, <3>1
    <3>4. ASSUME NEW s \in Schedulers, tick'[s].claimed, NEW k \in sweeps', k.bucket = tick'[s].bucket
          PROVE  FALSE
      <4>1. PICK l \in sweeps : l.bucket \in Nat /\ k.bucket = l.bucket + 1
        BY <2>3
      <4>2. tick[s].claimed /\ tick'[s].bucket = tick[s].bucket + 1 /\ tick[s].bucket \in Nat
        BY <2>2, <3>4
      <4>3. l.bucket # tick[s].bucket
        BY <3>2, <4>1, <4>2
      <4>4. l.bucket + 1 = tick[s].bucket + 1
        BY <3>4, <4>1, <4>2
      <4> QED
        BY <4>1, <4>2, <4>3, <4>4
    <3> QED
      BY <3>3, <3>4 DEF ClaimsApart
  <2> QED
    BY <2>5, <2>6, <2>7 DEF SweepsIInv
<1> QED
  BY <1>4, <1>5

LEMMA ClaimIsApart ==
  ASSUME SweepsIInv, NEW s \in Schedulers, ClaimDue(s)
  PROVE  SweepsIInv'
<1> USE BucketsAndDelays, OverdueIsNatural
<1> DEFINE claim == [claimed |-> TRUE, bucket |-> 0, baseline |-> watch.baseline]
<1>1. watch \in WatchRecords /\ tick \in [Schedulers -> TickRecords] /\ phase \in 0..(Bucket - 1)
  BY DEF SweepsIInv, SweepsTypeOK, WatchRecords, TickRecords
<1>2. claim \in TickRecords /\ claim.claimed /\ claim.bucket = 0
  BY <1>1 DEF WatchRecords, TickRecords
<1>3. tick' = [tick EXCEPT ![s] = claim] /\ UNCHANGED <<phase, sweeps, analysis, disrupted>>
  BY DEF ClaimDue
<1> HIDE DEF claim
<1>4. watch' = [watch EXCEPT !.age = 0] /\ watch.age >= watch.interval
  BY DEF ClaimDue, Due
<1>5. watch' \in WatchRecords /\ watch'.age = 0 /\ watch.age > phase
  BY <1>1, <1>4 DEF WatchRecords
<1>6. tick' \in [Schedulers -> TickRecords]
  BY <1>1, <1>2, <1>3
<1>7. SweepsTypeOK'
  BY <1>3, <1>5, <1>6 DEF SweepsIInv, SweepsTypeOK, WatchRecords, TickRecords
<1>8. /\ \A t \in Schedulers : tick[t].claimed => tick[t].bucket # 0
      /\ \A j \in sweeps : j.bucket # 0
  BY <1>1, <1>5 DEF SweepsIInv, ClaimsSinceBucketBegan, WatchRecords
<1>9. tick'[s] = claim /\ \A t \in Schedulers \ {s} : tick'[t] = tick[t]
  BY <1>1, <1>3
<1>10. ClaimsApart'
  BY <1>2, <1>3, <1>8, <1>9 DEF SweepsIInv, ClaimsApart
<1>11. ClaimsSinceBucketBegan'
  BY <1>1, <1>3, <1>5 DEF ClaimsSinceBucketBegan
<1> QED
  BY <1>7, <1>10, <1>11 DEF SweepsIInv

\* What a scheduler claimed is its own until it is enqueued or lost.
LEMMA TickEnds ==
  ASSUME SweepsIInv, NEW s \in Schedulers, tick' = [tick EXCEPT ![s] = Idle],
         UNCHANGED <<phase, watch, analysis>>, disrupted' \in 0..MaxDisruptions,
         sweeps' \subseteq SweepRecords,
         \/ sweeps' = sweeps
         \/ tick[s].claimed /\ \A k \in sweeps' : k \in sweeps \/ k.bucket = tick[s].bucket
  PROVE  SweepsIInv'
<1>1. tick \in [Schedulers -> TickRecords] /\ analysis \in Baselines
  BY DEF SweepsIInv, SweepsTypeOK, TickRecords
<1>2. Idle \in TickRecords /\ ~Idle.claimed
  BY <1>1, IdleIsATick
<1>3. /\ tick' \in [Schedulers -> TickRecords]
      /\ tick'[s] = Idle /\ \A t \in Schedulers \ {s} : tick'[t] = tick[t]
  BY <1>1, <1>2
<1>4. SweepsTypeOK'
  BY <1>3 DEF SweepsIInv, SweepsTypeOK, TickRecords, SweepRecords
<1>5. ClaimsSinceBucketBegan'
  BY <1>2, <1>3 DEF SweepsIInv, ClaimsSinceBucketBegan
<1>6. ClaimsApart'
  BY <1>2, <1>3 DEF SweepsIInv, ClaimsApart
<1> QED
  BY <1>4, <1>5, <1>6 DEF SweepsIInv

LEMMA EnqueueStaysApart ==
  ASSUME SweepsIInv, NEW s \in Schedulers, EnqueueSweep(s)
  PROVE  SweepsIInv'
<1> DEFINE queued == Job(tick[s].baseline, tick[s].bucket, "pending")
<1>1. tick[s] \in TickRecords /\ sweeps \subseteq SweepRecords /\ disrupted \in 0..MaxDisruptions
  BY DEF SweepsIInv, SweepsTypeOK, TickRecords, SweepRecords
<1>2. queued \in SweepRecords /\ queued.bucket = tick[s].bucket
  BY <1>1 DEF Job, TickRecords, SweepRecords, Active
<1>3. sweeps' = sweeps \/ sweeps' = sweeps \cup {queued}
  BY DEF EnqueueSweep
<1> HIDE DEF queued
<1>4. /\ tick[s].claimed /\ tick' = [tick EXCEPT ![s] = Idle]
      /\ UNCHANGED <<phase, watch, analysis, disrupted>>
  BY DEF EnqueueSweep
<1>5. sweeps' \subseteq SweepRecords /\ \A k \in sweeps' : k \in sweeps \/ k.bucket = tick[s].bucket
  BY <1>1, <1>2, <1>3
<1> QED
  BY <1>1, <1>4, <1>5, TickEnds

LEMMA SweepMoves ==
  ASSUME SweepsIInv, NEW j \in sweeps, NEW to \in Active \cup {"done"}, Move(j, to),
         UNCHANGED <<phase, watch, tick>>, analysis' \in {analysis, j.baseline},
         disrupted' \in 0..MaxDisruptions
  PROVE  SweepsIInv'
<1>1. sweeps' \subseteq SweepRecords /\ ClaimsSinceBucketBegan' /\ ClaimsApart'
  BY MoveKeepsKeys
<1>2. j.baseline \in Baselines /\ analysis \in Baselines
  BY DEF SweepsIInv, SweepsTypeOK
<1>3. SweepsTypeOK'
  BY <1>1, <1>2 DEF SweepsIInv, SweepsTypeOK, SweepRecords
<1> QED
  BY <1>1, <1>3 DEF SweepsIInv

LEMMA OperatorStaysApart ==
  ASSUME SweepsIInv, watch' \in WatchRecords, watch'.age = watch.age,
         UNCHANGED <<phase, tick, sweeps, analysis>>, disrupted' \in 0..MaxDisruptions
  PROVE  SweepsIInv'
BY DEF SweepsIInv, SweepsTypeOK, WatchRecords, ClaimsSinceBucketBegan, ClaimsApart

LEMMA DisruptsInBounds ==
  ASSUME SweepsIInv
  PROVE  disrupted \in 0..MaxDisruptions /\ (Disrupt => disrupted' \in 0..MaxDisruptions)
BY BucketsAndDelays DEF SweepsIInv, SweepsTypeOK, Disrupt

LEMMA SweepsPreserved ==
  ASSUME SweepsIInv, [SweepsNext]_sweepVars
  PROVE  SweepsIInv'
<1> USE DisruptsInBounds
<1>0. watch \in WatchRecords
  BY DEF SweepsIInv, SweepsTypeOK, WatchRecords
<1>1. CASE Pass
  BY <1>1, PassKeepsApart
<1>2. CASE Pause
  <2>1. watch' = [watch EXCEPT !.enabled = FALSE] /\ UNCHANGED <<phase, tick, sweeps, analysis>> /\ Disrupt
    BY <1>2 DEF Pause
  <2>2. watch' \in WatchRecords /\ watch'.age = watch.age
    BY <1>0, <2>1 DEF WatchRecords
  <2> QED
    BY <2>1, <2>2, OperatorStaysApart
<1>3. ASSUME NEW j \in sweeps, StartSweep(j) PROVE SweepsIInv'
  <2>1. Move(j, "running") /\ UNCHANGED <<phase, watch, tick, analysis, disrupted>> /\ "running" \in Active \cup {"done"}
    BY <1>3 DEF StartSweep, Active
  <2> QED
    BY <2>1, SweepMoves
<1>4. ASSUME NEW j \in sweeps, RecordSweep(j) PROVE SweepsIInv'
  <2>1. Move(j, "done") /\ UNCHANGED <<phase, watch, tick, disrupted>> /\ analysis' = j.baseline
    BY <1>4 DEF RecordSweep
  <2> QED
    BY <2>1, SweepMoves
<1>5. ASSUME NEW j \in sweeps, CrashSweep(j) PROVE SweepsIInv'
  <2>1. UNCHANGED <<phase, watch, tick>> /\ Disrupt /\ analysis' \in {analysis, j.baseline}
    BY <1>5 DEF CrashSweep
  <2>2. Move(j, "pending") \/ Move(j, "done")
    BY <1>5 DEF CrashSweep
  <2>3. "pending" \in Active \cup {"done"} /\ "done" \in Active \cup {"done"}
    BY DEF Active
  <2> QED
    BY <2>1, <2>2, <2>3, SweepMoves
<1>6. ASSUME NEW s \in Schedulers, ClaimDue(s) PROVE SweepsIInv'
  BY <1>6, ClaimIsApart
<1>7. ASSUME NEW s \in Schedulers, EnqueueSweep(s) PROVE SweepsIInv'
  BY <1>7, EnqueueStaysApart
<1>8. ASSUME NEW s \in Schedulers, LoseSweep(s) PROVE SweepsIInv'
  <2>1. tick' = [tick EXCEPT ![s] = Idle] /\ UNCHANGED <<phase, watch, sweeps, analysis>> /\ Disrupt
    BY <1>8 DEF LoseSweep
  <2>2. sweeps' \subseteq SweepRecords
    BY <2>1 DEF SweepsIInv, SweepsTypeOK, SweepRecords
  <2> QED
    BY <2>1, <2>2, TickEnds
<1>9. ASSUME NEW b \in Baselines, NEW i \in Intervals, WatchPackage(b, i) PROVE SweepsIInv'
  <2>1. watch' = [watch EXCEPT !.baseline = b, !.interval = i, !.enabled = TRUE]
        /\ UNCHANGED <<phase, tick, sweeps, analysis>> /\ Disrupt
    BY <1>9 DEF WatchPackage
  <2>2. watch' \in WatchRecords /\ watch'.age = watch.age
    BY <1>0, <2>1 DEF WatchRecords
  <2> QED
    BY <2>1, <2>2, OperatorStaysApart
<1>10. CASE UNCHANGED sweepVars
  BY <1>10 DEF sweepVars, SweepsIInv, SweepsTypeOK, ClaimsSinceBucketBegan, ClaimsApart
<1> QED
  BY <1>1, <1>2, <1>3, <1>4, <1>5, <1>6, <1>7, <1>8, <1>9, <1>10 DEF SweepsNext, RunSweep

LEMMA SweepsInvariant == SweepsSpec => []SweepsIInv
<1>1. SweepsInit => SweepsIInv
  BY SweepsInitially
<1>2. SweepsIInv /\ [SweepsNext]_sweepVars => SweepsIInv'
  BY SweepsPreserved
<1> QED
  BY <1>1, <1>2, PTL DEF SweepsSpec

\* Every variable of Sweeps keeps to its type; in particular nothing falls
\* behind by more buckets than are looked up.
THEOREM SweepsTypeCorrect == SweepsSpec => []SweepsTypeOK
<1>1. SweepsIInv => SweepsTypeOK
  BY DEF SweepsIInv
<1> QED
  BY <1>1, SweepsInvariant, PTL

\* The dedupe key never suppresses a sweep that was claimed, whoever claimed it
\* and however late it is enqueued: for every bucket that is no longer than the
\* shortest interval (claim_due_sweeps, src/schedule/sweep-scheduler.ts).
THEOREM NoSweepLost == SweepsSpec => []NoSweepSuppressed
<1>1. SweepsIInv => NoSweepSuppressed
  BY DEF SweepsIInv, ClaimsApart, NoSweepSuppressed, Exists
<1> QED
  BY <1>1, SweepsInvariant, PTL

-----------------------------------------------------------------------------
(* Rollout: what the operators of the model do *)

LEMMA RolloutConstants ==
  /\ MaxHead \in Nat /\ MaxTrouble \in Nat /\ MaxAttempts \in Nat /\ MaxAttempts > 0
  /\ Age \in [Repos -> Nat] /\ Stars \in [Repos -> Nat]
  /\ \A r \in Repos, h \in Heads : ImpactAt[r][h] \in Impacts
  /\ 0 \in Heads
BY RolloutAssumption DEF Heads, Impacts

\* A nonempty set of naturals has a least element: of the intervals below its
\* elements one contains no other.
LEMMA LeastElement ==
  ASSUME NEW T \in SUBSET Nat, T # {}
  PROVE  \E x \in T : \A y \in T : x <= y
<1> DEFINE Below == {0 .. n : n \in T}
<1>1. Below \subseteq FiniteSubsetsOf(Nat)
  <2>1. \A n \in T : IsFiniteSet(0 .. n) /\ 0 .. n \subseteq Nat
    <3> TAKE n \in T
    <3> QED
      BY 0 \in Int, n \in Int, FS_Interval
  <2> QED
    BY <2>1 DEF FiniteSubsetsOf
<1>2. Below # {}
  OBVIOUS
<1> HIDE DEF Below
<1>3. \E U \in Below : \A V \in Below : <<V, U>> \notin StrictSubsetOrdering(Nat)
  BY <1>1, <1>2, FS_StrictSubsetOrderingWellFounded, WFMin
<1>4. PICK x \in T : \A V \in Below : <<V, 0 .. x>> \notin StrictSubsetOrdering(Nat)
  BY <1>3 DEF Below
<1>5. ASSUME NEW y \in T, y < x PROVE FALSE
  <2>1. 0 .. y \in Below /\ 0 .. y \subseteq 0 .. x /\ x \in 0 .. x /\ x \notin 0 .. y
    BY <1>5 DEF Below
  <2>2. 0 .. y # 0 .. x /\ 0 .. x \in SUBSET Nat /\ 0 .. y \in SUBSET Nat
    BY <2>1
  <2>3. <<0 .. y, 0 .. x>> \in StrictSubsetOrdering(Nat)
    <3> DEFINE pair == <<0 .. y, 0 .. x>>
    <3>1. pair \in (SUBSET Nat) \X (SUBSET Nat) /\ pair[1] = 0 .. y /\ pair[2] = 0 .. x
      BY <2>2
    <3>2. pair[1] \subseteq pair[2] /\ pair[1] # pair[2]
      BY <2>1, <2>2, <3>1
    <3> HIDE DEF pair
    <3>3. pair \in StrictSubsetOrdering(Nat)
      BY <3>1, <3>2 DEF StrictSubsetOrdering
    <3> QED
      BY <3>3 DEF pair
  <2> QED
    BY <1>4, <2>1, <2>3
<1> QED
  BY <1>5


LEMMA OldestIsListed ==
  ASSUME NEW rs \in SUBSET Repos, rs # {}
  PROVE  Oldest(rs) \in rs
<1> DEFINE ages == {Age[r] : r \in rs}
<1>1. ages \in SUBSET Nat /\ ages # {}
  BY RolloutConstants
<1>2. PICK x \in ages : \A y \in ages : x <= y
  BY <1>1, LeastElement
<1>3. PICK r \in rs : Age[r] = x
  BY <1>2
<1>4. \A s \in rs : Age[r] <= Age[s]
  BY <1>2, <1>3
<1> QED
  BY <1>4 DEF Oldest

\* The fields of an attempt, by the type they have.
LEMMA AttemptFields ==
  ASSUME NEW a \in Attempts
  PROVE  /\ a.active \in BOOLEAN /\ a.memo \in Steps /\ a.todo \in SUBSET Repos
         /\ a.pinned \in SUBSET Heads /\ a.targets \in SUBSET Targets
BY DEF Attempts

LEMMA MemoFields ==
  ASSUME NEW m \in Steps
  PROVE  /\ m.loaded \in SUBSET Changes /\ m.listed \in SUBSET SUBSET Repos
         /\ m.assessed \in SUBSET SUBSET Targets /\ m.enqueued \in BOOLEAN
BY DEF Steps

LEMMA MemoOfAttempt ==
  ASSUME NEW a \in Attempts, NEW m \in Steps
  PROVE  /\ [a EXCEPT !.memo = m] \in Attempts
         /\ [a EXCEPT !.memo = m].active = a.active /\ [a EXCEPT !.memo = m].memo = m
         /\ [a EXCEPT !.memo = m].todo = a.todo /\ [a EXCEPT !.memo = m].pinned = a.pinned
         /\ [a EXCEPT !.memo = m].targets = a.targets
BY DEF Attempts

LEMMA NothingDone ==
  /\ NoSteps \in Steps /\ MemoSound(NoSteps)
  /\ NoAttempt \in Attempts /\ ~NoAttempt.active /\ AttemptSound(NoAttempt)
<1>1. /\ NoSteps \in Steps /\ NoSteps.loaded = {} /\ NoSteps.assessed = {} /\ NoSteps.enqueued = FALSE
  BY DEF NoSteps, Steps
<1>2. /\ NoAttempt \in Attempts /\ NoAttempt.active = FALSE /\ NoAttempt.memo = NoSteps
      /\ NoAttempt.todo = {} /\ NoAttempt.pinned = {} /\ NoAttempt.targets = {}
  BY <1>1 DEF NoAttempt, Attempts
<1>3. MemoSound(NoSteps)
  BY <1>1 DEF MemoSound
<1> QED
  BY <1>1, <1>2, <1>3 DEF AttemptSound

LEMMA NoRolloutYet ==
  /\ NoRollout \in Rollouts
  /\ NoRollout.status = "none" /\ NoRollout.attempts = 0 /\ NoRollout.outcome = "none"
BY DEF NoRollout, Rollouts

\* The wave of an attempt is the wave of what it has recorded.
LEMMA PlannedIsWave == Planned = WaveOf(attempt.memo)
BY DEF Planned, WaveOf, Memo

LEMMA WaveIsAssessed ==
  ASSUME NEW m \in Steps, NEW t \in WaveOf(m)
  PROVE  t \in Targets /\ \E ts \in m.assessed : t \in ts
<1>1. PICK c \in m.loaded, ts \in m.assessed : t \in Wave(c.verdict, ts)
  BY DEF WaveOf
<1>2. t \in ts /\ ts \in SUBSET Targets
  BY <1>1, MemoFields DEF Wave
<1> QED
  BY <1>1, <1>2

-----------------------------------------------------------------------------
(* Rollout: what a step does to the invariant, by what it touches *)

RowsOK ==
  /\ change \in Changes
  /\ asking \in [Operators -> BOOLEAN] /\ found \in [Triggers -> BOOLEAN]
  /\ repo \in [Repos -> [head : Heads, archived : BOOLEAN, archivedAt : BOOLEAN, suspended : BOOLEAN]]
  /\ replan \in BOOLEAN
  /\ trouble \in 0..MaxTrouble

\* A row that was queued or cleared stays so.
NothingForgotten == \A t : Queued(t) => Queued(t)'

TroubleGrows == trouble' >= trouble

RolloutOK ==
  /\ rollout \in Rollouts /\ rollout.attempts <= MaxAttempts + trouble
  /\ attempt.active <=> rollout.status = "running"
  /\ rollout.status = "none" => records = NoSteps
  /\ AttemptsLeft

LEMMA TypeInParts ==
  RolloutTypeOK /\ AttemptsLeft <=>
    /\ RowsOK /\ RolloutOK /\ records \in Steps /\ attempt \in Attempts
    /\ jobs \subseteq Migrations /\ cleared \subseteq Commits
BY DEF RolloutTypeOK, RowsOK, RolloutOK

\* The same of the state after a step.
LEMMA TypeInPartsNext ==
  (RolloutTypeOK /\ AttemptsLeft)' <=>
    /\ RowsOK' /\ RolloutOK' /\ records' \in Steps /\ attempt' \in Attempts
    /\ jobs' \subseteq Migrations /\ cleared' \subseteq Commits
BY DEF RolloutTypeOK, AttemptsLeft, RowsOK, RolloutOK

LEMMA MemoStaysSound ==
  ASSUME NEW m, MemoSound(m), NothingForgotten
  PROVE  MemoSound(m)'
BY DEF MemoSound, NothingForgotten, WaveOf, Wave, OfTheBase, Before, Rank

LEMMA AttemptStaysSound ==
  ASSUME NEW a, AttemptSound(a), NothingForgotten
  PROVE  AttemptSound(a)'
<1>1. MemoSound(a.memo)'
  BY MemoStaysSound DEF AttemptSound
<1> QED
  BY <1>1 DEF AttemptSound, OfTheBase

LEMMA QueueUntouched ==
  ASSUME UNCHANGED <<jobs, cleared>>
  PROVE  NothingForgotten /\ (ImpactIsOfTheBase => ImpactIsOfTheBase')
BY DEF NothingForgotten, Queued, HasJob, ImpactIsOfTheBase

\* Operators, maintainers and sweeps: the rows aside from the queue.
LEMMA RowsMove ==
  ASSUME RolloutIInv, RowsOK', TroubleGrows, UNCHANGED <<rollout, records, attempt, jobs, cleared>>
  PROVE  RolloutIInv'
<1>1. RowsOK /\ RolloutOK /\ records \in Steps /\ attempt \in Attempts
      /\ jobs \subseteq Migrations /\ cleared \subseteq Commits
  BY TypeInParts DEF RolloutIInv
<1>2. RolloutOK'
  <2>1. rollout.attempts \in Nat /\ trouble \in Nat /\ trouble' \in Nat
    BY <1>1, RolloutConstants DEF RolloutOK, Rollouts, RowsOK
  <2> QED
    BY <1>1, <2>1, RolloutConstants DEF RolloutOK, AttemptsLeft, TroubleGrows
<1>3. (RolloutTypeOK /\ AttemptsLeft)'
  BY <1>1, <1>2, TypeInPartsNext
<1>4. MemoSound(records)' /\ AttemptSound(attempt)' /\ ImpactIsOfTheBase' /\ PlannedWaveIsQueued'
  <2>1. NothingForgotten /\ ImpactIsOfTheBase'
    BY QueueUntouched DEF RolloutIInv
  <2>2. PICK m : m = records
    OBVIOUS
  <2>3. PICK a : a = attempt
    OBVIOUS
  <2>4. MemoSound(m)' /\ AttemptSound(a)'
    BY <2>1, <2>2, <2>3, MemoStaysSound, AttemptStaysSound DEF RolloutIInv
  <2>5. PlannedWaveIsQueued'
    BY <2>1 DEF RolloutIInv, PlannedWaveIsQueued, NothingForgotten, Queued
  <2> QED
    BY <2>1, <2>2, <2>3, <2>4, <2>5
<1> QED
  BY <1>3, <1>4 DEF RolloutIInv

\* The queue: nothing is forgotten, and what is added is true.
LEMMA QueueMoves ==
  ASSUME RolloutIInv, RowsOK', trouble' = trouble, UNCHANGED <<rollout, records, attempt>>,
         jobs' \subseteq Migrations, cleared' \subseteq Commits, NothingForgotten, ImpactIsOfTheBase'
  PROVE  RolloutIInv'
<1>1. RowsOK /\ RolloutOK /\ records \in Steps /\ attempt \in Attempts
  BY TypeInParts DEF RolloutIInv
<1>2. RolloutOK'
  BY <1>1 DEF RolloutOK, AttemptsLeft
<1>3. (RolloutTypeOK /\ AttemptsLeft)'
  BY <1>1, <1>2, TypeInPartsNext
<1>4. MemoSound(records)' /\ AttemptSound(attempt)' /\ PlannedWaveIsQueued'
  <2>2. PICK m : m = records
    OBVIOUS
  <2>3. PICK a : a = attempt
    OBVIOUS
  <2>4. MemoSound(m)' /\ AttemptSound(a)'
    BY <2>2, <2>3, MemoStaysSound, AttemptStaysSound DEF RolloutIInv
  <2>5. PlannedWaveIsQueued'
    BY DEF RolloutIInv, PlannedWaveIsQueued, NothingForgotten, Queued
  <2> QED
    BY <2>2, <2>3, <2>4, <2>5
<1> QED
  BY <1>3, <1>4 DEF RolloutIInv

\* The job, its records and its attempt, at rest or going on.
LEMMA JobMoves ==
  ASSUME RolloutIInv, RowsOK', TroubleGrows, UNCHANGED <<jobs, cleared>>,
         RolloutOK', PlannedWaveIsQueued',
         NEW m \in Steps, records' = m, MemoSound(m),
         NEW a \in Attempts, attempt' = a, AttemptSound(a)
  PROVE  RolloutIInv'
<1>1. jobs \subseteq Migrations /\ cleared \subseteq Commits
  BY TypeInParts DEF RolloutIInv
<1>2. (RolloutTypeOK /\ AttemptsLeft)'
  BY <1>1, TypeInPartsNext
<1>3. NothingForgotten /\ ImpactIsOfTheBase'
  BY QueueUntouched DEF RolloutIInv
<1>4. MemoSound(m)' /\ AttemptSound(a)'
  BY <1>3, MemoStaysSound, AttemptStaysSound
<1> QED
  BY <1>2, <1>3, <1>4 DEF RolloutIInv

\* An attempt goes on.
LEMMA AttemptGoesOn ==
  ASSUME RolloutIInv, RowsOK', TroubleGrows, UNCHANGED <<rollout, records, jobs, cleared>>,
         NEW a \in Attempts, attempt' = a, a.active = attempt.active, AttemptSound(a)
  PROVE  RolloutIInv'
<1>1. RowsOK /\ RolloutOK /\ records \in Steps
  BY TypeInParts DEF RolloutIInv
<1>2. RolloutOK'
  <2>1. rollout.attempts \in Nat /\ trouble \in Nat /\ trouble' \in Nat
    BY <1>1, RolloutConstants DEF RolloutOK, Rollouts, RowsOK
  <2> QED
    BY <1>1, <2>1, RolloutConstants DEF RolloutOK, AttemptsLeft, TroubleGrows
<1>3. PlannedWaveIsQueued'
  BY QueueUntouched DEF RolloutIInv, PlannedWaveIsQueued, NothingForgotten, Queued
<1>4. PICK m : m = records
  OBVIOUS
<1>5. MemoSound(m)
  BY <1>4 DEF RolloutIInv
<1> QED
  BY <1>1, <1>2, <1>3, <1>4, <1>5, JobMoves

\* An attempt is over and its records are committed.
LEMMA AttemptEnds ==
  ASSUME RolloutIInv, RowsOK', TroubleGrows, UNCHANGED <<jobs, cleared>>, attempt.active,
         NEW status \in {"pending", "succeeded", "dead"},
         NEW outcome \in {"none", "not-approved", "not-eligible", "planned"},
         NEW wave \in SUBSET Targets,
         Ends(status, outcome, wave),
         status = "pending" => rollout.attempts < MaxAttempts + trouble',
         outcome = "planned" => \A t \in wave : Queued(t)
  PROVE  RolloutIInv'
<1>1. RowsOK /\ RolloutOK /\ attempt \in Attempts
  BY TypeInParts DEF RolloutIInv
<1>2. rollout' = [rollout EXCEPT !.status = status, !.outcome = outcome, !.wave = wave]
      /\ records' = attempt.memo /\ attempt' = NoAttempt
  BY DEF Ends
<1>3. /\ rollout' \in Rollouts /\ rollout'.status = status /\ rollout'.outcome = outcome
      /\ rollout'.wave = wave /\ rollout'.attempts = rollout.attempts /\ rollout.attempts \in Nat
  <2>1. rollout \in Rollouts
    BY <1>1 DEF RolloutOK
  <2> QED
    BY <1>2, <2>1 DEF Rollouts
<1>4. RolloutOK'
  <2>1. trouble \in Nat /\ trouble' \in Nat
    BY <1>1, RolloutConstants DEF RowsOK
  <2>2. ~attempt'.active /\ rollout'.status # "running" /\ rollout'.status # "none"
    BY <1>2, <1>3, NothingDone
  <2> QED
    BY <1>1, <1>3, <2>1, <2>2, RolloutConstants DEF RolloutOK, AttemptsLeft, TroubleGrows
<1>5. PlannedWaveIsQueued'
  BY <1>3, QueueUntouched DEF PlannedWaveIsQueued, NothingForgotten, Queued
<1>6. PICK m \in Steps : m = attempt.memo
  BY <1>1, AttemptFields
<1>7. MemoSound(m)
  BY <1>6 DEF RolloutIInv, AttemptSound
<1>8. PICK a \in Attempts : a = NoAttempt
  BY NothingDone
<1>9. AttemptSound(a)
  BY <1>8, NothingDone
<1> QED
  BY <1>2, <1>4, <1>5, <1>6, <1>7, <1>8, <1>9, JobMoves

-----------------------------------------------------------------------------
(* Rollout: one lemma for each kind of action *)

LEMMA RowsAre == RolloutIInv => RowsOK /\ RolloutOK /\ records \in Steps /\ attempt \in Attempts
BY TypeInParts DEF RolloutIInv

LEMMA TroubleInBounds ==
  ASSUME RowsOK
  PROVE  /\ Trouble => trouble' \in 0..MaxTrouble /\ TroubleGrows /\ trouble' = trouble + 1 /\ trouble \in Nat
         /\ trouble' = trouble => trouble' \in 0..MaxTrouble /\ TroubleGrows
BY RolloutConstants DEF RowsOK, Trouble, TroubleGrows

LEMMA OperatorsKeep ==
  ASSUME RolloutIInv, NEW o \in Operators, Resolve(o) \/ Approve(o)
  PROVE  RolloutIInv'
<1>1. RowsOK
  BY RowsAre
<1>2. UNCHANGED <<rollout, records, attempt, jobs, cleared, found, repo, replan, trouble>>
  BY DEF Resolve, Approve
<1>3. asking' \in [Operators -> BOOLEAN]
  BY <1>1 DEF Resolve, Approve, RowsOK
<1>4. change' \in Changes
  <2>1. CASE Resolve(o)
    BY <1>1, <2>1 DEF Resolve, RowsOK
  <2>2. CASE Approve(o)
    <3>1. change' = [change EXCEPT !.approvedBy = IF change.approvedBy = Nobody THEN o ELSE change.approvedBy]
      BY <2>2 DEF Approve
    <3> QED
      BY <1>1, <3>1 DEF RowsOK, Changes
  <2> QED
    BY <2>1, <2>2
<1>5. RowsOK' /\ TroubleGrows
  BY <1>1, <1>2, <1>3, <1>4, TroubleInBounds DEF RowsOK
<1> QED
  BY <1>2, <1>5, RowsMove

LEMMA TriggersKeep ==
  ASSUME RolloutIInv, NEW s \in Triggers, Find(s) \/ EnqueueFails(s)
  PROVE  RolloutIInv'
<1>1. RowsOK
  BY RowsAre
<1>2. UNCHANGED <<rollout, records, attempt, jobs, cleared, change, asking, repo, replan>>
  BY DEF Find, EnqueueFails
<1>3. found' \in [Triggers -> BOOLEAN] /\ (Trouble \/ trouble' = trouble)
  BY <1>1 DEF Find, EnqueueFails, RowsOK
<1>4. RowsOK' /\ TroubleGrows
  BY <1>1, <1>2, <1>3, TroubleInBounds DEF RowsOK
<1> QED
  BY <1>2, <1>4, RowsMove

LEMMA ResweepKeeps ==
  ASSUME RolloutIInv, NEW verdict \in Verdicts, Resweep(verdict)
  PROVE  RolloutIInv'
<1>1. RowsOK
  BY RowsAre
<1>2. /\ UNCHANGED <<rollout, records, attempt, jobs, cleared, asking, found, repo, replan>> /\ Trouble
      /\ change' = [change EXCEPT !.verdict = verdict]
  BY DEF Resweep
<1>3. change' \in Changes
  BY <1>1, <1>2 DEF RowsOK, Changes
<1>4. RowsOK' /\ TroubleGrows
  BY <1>1, <1>2, <1>3, TroubleInBounds DEF RowsOK
<1> QED
  BY <1>2, <1>4, RowsMove

RepoRows == [head : Heads, archived : BOOLEAN, archivedAt : BOOLEAN, suspended : BOOLEAN]

LEMMA RepositoryKeeps ==
  ASSUME RolloutIInv, NEW r \in Repos, RepositoryMoves(r)
  PROVE  RolloutIInv'
<1>1. RowsOK
  BY RowsAre
<1>2. UNCHANGED <<rollout, records, attempt, jobs, cleared, change, asking, found, replan>> /\ Trouble
  BY DEF RepositoryMoves
<1>3. repo' \in [Repos -> RepoRows]
  <2>1. repo[r] \in RepoRows /\ repo \in [Repos -> RepoRows]
    BY <1>1 DEF RowsOK, RepoRows
  <2>2. PICK row : row = repo[r]
    OBVIOUS
  <2>3. \/ row.head + 1 \in Heads /\ repo' = [repo EXCEPT ![r] = [row EXCEPT !.head = row.head + 1]]
        \/ repo' = [repo EXCEPT ![r] = [row EXCEPT !.archived = ~row.archived]]
        \/ repo' = [repo EXCEPT ![r] = [row EXCEPT !.suspended = ~row.suspended]]
    BY <2>1, <2>2 DEF RepositoryMoves
  <2>4. /\ row.head + 1 \in Heads => [row EXCEPT !.head = row.head + 1] \in RepoRows
        /\ [row EXCEPT !.archived = ~row.archived] \in RepoRows
        /\ [row EXCEPT !.suspended = ~row.suspended] \in RepoRows
    BY <2>1, <2>2 DEF RepoRows
  <2> QED
    BY <2>1, <2>3, <2>4
<1>4. RowsOK' /\ TroubleGrows
  BY <1>1, <1>2, <1>3, TroubleInBounds DEF RowsOK, RepoRows
<1> QED
  BY <1>2, <1>4, RowsMove

\* The trigger's enqueue: a job that exists, in any status, is left alone.
LEMMA EnqueueKeeps ==
  ASSUME RolloutIInv, NEW s \in Triggers, EnqueueRollout(s)
  PROVE  RolloutIInv'
<1>1. RowsOK /\ RolloutOK /\ records \in Steps /\ attempt \in Attempts
  BY RowsAre
<1>2. UNCHANGED <<records, attempt, jobs, cleared, change, asking, repo, replan, trouble>>
  BY DEF EnqueueRollout
<1>3. found' \in [Triggers -> BOOLEAN]
  BY <1>1 DEF EnqueueRollout, RowsOK
<1>4. RowsOK' /\ TroubleGrows
  BY <1>1, <1>2, <1>3, TroubleInBounds DEF RowsOK
<1>5. CASE rollout.status # "none"
  <2>1. rollout' = rollout
    BY <1>5 DEF EnqueueRollout
  <2> QED
    BY <1>2, <1>4, <2>1, RowsMove
<1>6. CASE rollout.status = "none"
  <2>1. rollout' = [NoRollout EXCEPT !.status = "pending"]
    BY <1>6 DEF EnqueueRollout
  <2>2. /\ rollout' \in Rollouts /\ rollout'.status = "pending" /\ rollout'.attempts = 0
        /\ rollout'.outcome = "none"
    BY <2>1, NoRolloutYet DEF Rollouts
  <2>3. ~attempt.active /\ trouble' \in Nat
    BY <1>1, <1>4, <1>6, RolloutConstants DEF RolloutOK, RowsOK
  <2>4. RolloutOK'
    BY <1>2, <2>2, <2>3, RolloutConstants DEF RolloutOK, AttemptsLeft
  <2>5. PlannedWaveIsQueued'
    BY <2>2 DEF PlannedWaveIsQueued
  <2>6. MemoSound(records) /\ AttemptSound(attempt)
    BY DEF RolloutIInv
  <2>7. PICK m \in Steps, a \in Attempts : m = records /\ a = attempt
    BY <1>1
  <2> QED
    BY <1>2, <1>4, <2>4, <2>5, <2>6, <2>7, JobMoves
<1> QED
  BY <1>5, <1>6

\* replan: the job goes with its records and its attempt.
LEMMA DeleteKeeps ==
  ASSUME RolloutIInv, NEW migrations \in BOOLEAN, DeleteRollout(migrations)
  PROVE  RolloutIInv'
<1>1. RowsOK
  BY RowsAre
<1>2. /\ UNCHANGED <<change, asking, found, repo, jobs, cleared>> /\ Trouble
      /\ rollout' = NoRollout /\ records' = NoSteps /\ attempt' = NoAttempt /\ replan' = migrations
  BY DEF DeleteRollout
<1>3. RowsOK' /\ TroubleGrows
  BY <1>1, <1>2, TroubleInBounds DEF RowsOK
<1>4. RolloutOK'
  <2>1. trouble' \in Nat
    BY <1>3, RolloutConstants DEF RowsOK
  <2> QED
    BY <1>2, <2>1, NoRolloutYet, NothingDone, RolloutConstants DEF RolloutOK, AttemptsLeft
<1>5. PlannedWaveIsQueued'
  BY <1>2, NoRolloutYet DEF PlannedWaveIsQueued
<1>6. PICK m \in Steps, a \in Attempts : m = NoSteps /\ a = NoAttempt
  BY NothingDone
<1> QED
  BY <1>2, <1>3, <1>4, <1>5, <1>6, NothingDone, JobMoves

\* --retry-migrations: what it takes from the queue it leaves on record.
LEMMA ClearKeeps ==
  ASSUME RolloutIInv, ClearMigrations
  PROVE  RolloutIInv'
<1> DEFINE ended == {j \in jobs : j.failed}
           gone == {[repo |-> j.repo, sha |-> j.sha] : j \in ended}
<1>1. RowsOK /\ jobs \subseteq Migrations /\ cleared \subseteq Commits
  BY TypeInParts DEF RolloutIInv
<1>2. /\ UNCHANGED <<change, asking, found, rollout, records, attempt, repo, trouble>> /\ replan' = FALSE
      /\ jobs' = jobs \ ended /\ cleared' = cleared \cup gone
  BY DEF ClearMigrations
<1>3. RowsOK'
  BY <1>1, <1>2 DEF RowsOK
<1>4. gone \subseteq Commits
  BY <1>1 DEF Commits, Migrations
<1>5. ASSUME NEW t, Queued(t) PROVE Queued(t)'
  <2>1. CASE [repo |-> t.repo, sha |-> t.sha] \in cleared
    BY <1>2, <2>1 DEF Queued
  <2>2. ASSUME NEW j \in jobs, j.repo = t.repo, j.sha = t.sha PROVE Queued(t)'
    <3>1. CASE j \in ended
      <4>1. [repo |-> t.repo, sha |-> t.sha] \in gone
        BY <2>2, <3>1
      <4> QED
        BY <1>2, <4>1 DEF Queued
    <3>2. CASE j \notin ended
      BY <1>2, <2>2, <3>2 DEF Queued, HasJob
    <3> QED
      BY <3>1, <3>2
  <2> QED
    BY <1>5, <2>1, <2>2 DEF Queued, HasJob
<1>6. NothingForgotten
  BY <1>5 DEF NothingForgotten
<1>7. ImpactIsOfTheBase'
  BY <1>2 DEF RolloutIInv, ImpactIsOfTheBase
<1>8. jobs' \subseteq Migrations /\ cleared' \subseteq Commits
  BY <1>1, <1>2, <1>4
<1> QED
  BY <1>2, <1>3, <1>6, <1>7, <1>8, QueueMoves

LEMMA MigrationFailsKeeps ==
  ASSUME RolloutIInv, NEW j \in jobs, MigrationFails(j)
  PROVE  RolloutIInv'
<1> DEFINE failed == [j EXCEPT !.failed = TRUE]
<1>1. RowsOK /\ jobs \subseteq Migrations /\ cleared \subseteq Commits
  BY TypeInParts DEF RolloutIInv
<1>2. /\ UNCHANGED <<change, asking, found, rollout, records, attempt, repo, replan, cleared, trouble>>
      /\ jobs' = (jobs \ {j}) \cup {failed}
  BY DEF MigrationFails
<1>3. failed \in Migrations /\ failed.repo = j.repo /\ failed.sha = j.sha /\ failed.impact = j.impact
  BY <1>1 DEF Migrations
<1> HIDE DEF failed
<1>4. RowsOK' /\ jobs' \subseteq Migrations /\ cleared' \subseteq Commits
  BY <1>1, <1>2, <1>3 DEF RowsOK
<1>5. NothingForgotten
  BY <1>2, <1>3 DEF NothingForgotten, Queued, HasJob
<1>6. ImpactIsOfTheBase'
  BY <1>2, <1>3 DEF RolloutIInv, ImpactIsOfTheBase
<1> QED
  BY <1>2, <1>4, <1>5, <1>6, QueueMoves

\* A migration is queued with what its target says.
LEMMA EnqueueMigrationKeeps ==
  ASSUME RolloutIInv, EnqueueMigration
  PROVE  RolloutIInv'
<1>1. RowsOK /\ jobs \subseteq Migrations /\ cleared \subseteq Commits /\ attempt \in Attempts
  BY TypeInParts DEF RolloutIInv
<1>2. UNCHANGED <<change, asking, found, rollout, records, attempt, repo, replan, cleared, trouble>>
  BY DEF EnqueueMigration
<1>3. PICK t \in Planned :
        jobs' = jobs \cup {[repo |-> t.repo, sha |-> t.sha, impact |-> t.impact, failed |-> FALSE]}
  BY DEF EnqueueMigration
<1>4. PICK job : job = [repo |-> t.repo, sha |-> t.sha, impact |-> t.impact, failed |-> FALSE]
  OBVIOUS
<1>5. t \in Targets /\ OfTheBase(t)
  <2>1. t \in WaveOf(attempt.memo) /\ attempt.memo \in Steps
    BY <1>1, PlannedIsWave, AttemptFields
  <2>2. \A ts \in attempt.memo.assessed : \A u \in ts : OfTheBase(u)
    BY DEF RolloutIInv, AttemptSound, MemoSound
  <2> QED
    BY <2>1, <2>2, WaveIsAssessed
<1>6. job \in Migrations /\ job.impact = ImpactAt[job.repo][job.sha]
  BY <1>4, <1>5 DEF Targets, Migrations, OfTheBase
<1>7. RowsOK' /\ jobs' \subseteq Migrations /\ cleared' \subseteq Commits
  BY <1>1, <1>2, <1>3, <1>4, <1>6 DEF RowsOK
<1>8. NothingForgotten
  BY <1>2, <1>3 DEF NothingForgotten, Queued, HasJob
<1>9. ImpactIsOfTheBase'
  BY <1>3, <1>4, <1>6 DEF RolloutIInv, ImpactIsOfTheBase
<1> QED
  BY <1>2, <1>7, <1>8, <1>9, QueueMoves

-----------------------------------------------------------------------------
(* Rollout: the steps of the workflow *)

\* A step that has not been recorded, or that no wave depends on, may be.
LEMMA RecordStaysSound ==
  ASSUME NEW a \in Attempts, AttemptSound(a), NEW m \in Steps, MemoSound(m),
         a.todo # {} => m.assessed = {}
  PROVE  LET b == [a EXCEPT !.memo = m] IN b \in Attempts /\ b.active = a.active /\ AttemptSound(b)
BY MemoOfAttempt DEF AttemptSound

LEMMA StartKeeps ==
  ASSUME RolloutIInv, Start
  PROVE  RolloutIInv'
<1>1. RowsOK /\ RolloutOK /\ records \in Steps
  BY RowsAre
<1>2. /\ UNCHANGED <<change, asking, found, records, repo, jobs, replan, cleared, trouble>>
      /\ rollout.status = "pending"
      /\ rollout' = [rollout EXCEPT !.status = "running", !.attempts = rollout.attempts + 1]
      /\ attempt' = [NoAttempt EXCEPT !.active = TRUE, !.memo = records]
  BY DEF Start
<1>3. RowsOK' /\ TroubleGrows
  BY <1>1, <1>2, TroubleInBounds DEF RowsOK
<1>4. /\ attempt' \in Attempts /\ attempt'.active = TRUE /\ attempt'.memo = records
      /\ attempt'.todo = {} /\ attempt'.pinned = {} /\ attempt'.targets = {}
  BY <1>1, <1>2, NothingDone DEF NoAttempt, Attempts
<1>5. /\ rollout' \in Rollouts /\ rollout'.status = "running" /\ rollout'.attempts = rollout.attempts + 1
      /\ rollout'.outcome = rollout.outcome /\ rollout'.wave = rollout.wave /\ rollout.attempts \in Nat
  <2>1. rollout \in Rollouts /\ rollout.attempts \in Nat
    BY <1>1 DEF RolloutOK, Rollouts
  <2>2. PICK n \in Nat : n = rollout.attempts + 1
    BY <2>1
  <2>3. rollout' = [rollout EXCEPT !.status = "running", !.attempts = n]
    BY <1>2, <2>2
  <2>4. rollout' \in Rollouts /\ rollout'.status = "running" /\ rollout'.attempts = n
        /\ rollout'.outcome = rollout.outcome /\ rollout'.wave = rollout.wave
    BY <2>1, <2>3 DEF Rollouts
  <2> QED
    BY <2>1, <2>2, <2>4
<1>6. RolloutOK'
  <2>1. trouble \in Nat
    BY <1>1, RolloutConstants DEF RowsOK
  <2> QED
    BY <1>1, <1>2, <1>4, <1>5, <2>1, RolloutConstants DEF RolloutOK, AttemptsLeft
<1>7. PlannedWaveIsQueued'
  BY <1>2, <1>5, QueueUntouched DEF RolloutIInv, PlannedWaveIsQueued, NothingForgotten, Queued
<1>8. PICK m \in Steps, a \in Attempts : m = records /\ a = attempt'
  BY <1>1, <1>4
<1>9. MemoSound(m) /\ AttemptSound(a)
  BY <1>4, <1>8 DEF RolloutIInv, AttemptSound
<1> QED
  BY <1>2, <1>3, <1>6, <1>7, <1>8, <1>9, JobMoves

LEMMA LoadKeeps ==
  ASSUME RolloutIInv, LoadChange
  PROVE  RolloutIInv'
<1>1. RowsOK /\ attempt \in Attempts /\ AttemptSound(attempt)
  BY RowsAre DEF RolloutIInv
<1>2. /\ UNCHANGED <<change, asking, found, rollout, records, repo, jobs, replan, cleared, trouble>>
      /\ attempt.memo.loaded = {}
      /\ attempt' = [attempt EXCEPT !.memo = [attempt.memo EXCEPT !.loaded = {change}]]
  BY DEF LoadChange, Memo, Recorded
<1>3. RowsOK' /\ TroubleGrows
  BY <1>1, <1>2, TroubleInBounds DEF RowsOK
<1>4. PICK a \in Attempts : a = attempt
  BY <1>1
<1>5. PICK old \in Steps : old = a.memo
  BY AttemptFields
<1>6. PICK m : m = [old EXCEPT !.loaded = {change}]
  OBVIOUS
<1>7. m \in Steps /\ m.assessed = old.assessed /\ m.enqueued = old.enqueued
  BY <1>1, <1>6 DEF Steps, RowsOK
<1>8. MemoSound(old) /\ old.loaded = {}
  BY <1>1, <1>2, <1>4, <1>5 DEF AttemptSound
<1>9. MemoSound(m)
  BY <1>7, <1>8, MemoFields DEF MemoSound
<1>10. PICK b \in Attempts : b = [a EXCEPT !.memo = m] /\ b.active = a.active /\ AttemptSound(b)
  <2>1. a.todo # {} => m.assessed = {}
    BY <1>1, <1>4, <1>5, <1>7 DEF AttemptSound
  <2>2. AttemptSound(a)
    BY <1>1, <1>4
  <2> QED
    BY <1>7, <1>9, <2>1, <2>2, RecordStaysSound
<1>11. attempt' = b
  BY <1>2, <1>4, <1>5, <1>6, <1>10
<1> QED
  BY <1>2, <1>3, <1>4, <1>10, <1>11, AttemptGoesOn

LEMMA ListKeeps ==
  ASSUME RolloutIInv, ListCandidates
  PROVE  RolloutIInv'
<1> DEFINE live == {r \in Repos : ~repo[r].archivedAt /\ ~repo[r].suspended}
<1>1. RowsOK /\ attempt \in Attempts /\ AttemptSound(attempt)
  BY RowsAre DEF RolloutIInv
<1>2. /\ UNCHANGED <<change, asking, found, rollout, records, repo, jobs, replan, cleared, trouble>>
      /\ attempt' = [attempt EXCEPT !.memo = [attempt.memo EXCEPT !.listed = {live}]]
  BY DEF ListCandidates, Memo, Recorded
<1>3. RowsOK' /\ TroubleGrows
  BY <1>1, <1>2, TroubleInBounds DEF RowsOK
<1>4. PICK a \in Attempts : a = attempt
  BY <1>1
<1>5. PICK old \in Steps : old = a.memo
  BY AttemptFields
<1>6. PICK m : m = [old EXCEPT !.listed = {live}]
  OBVIOUS
<1>7. live \in SUBSET Repos
  OBVIOUS
<1> HIDE DEF live
<1>8. m \in Steps /\ m.loaded = old.loaded /\ m.assessed = old.assessed /\ m.enqueued = old.enqueued
  BY <1>6, <1>7 DEF Steps
<1>9. MemoSound(old)
  BY <1>1, <1>4, <1>5 DEF AttemptSound
<1>10. MemoSound(m)
  BY <1>8, <1>9 DEF MemoSound, WaveOf
<1>11. PICK b \in Attempts : b = [a EXCEPT !.memo = m] /\ b.active = a.active /\ AttemptSound(b)
  <2>1. a.todo # {} => m.assessed = {}
    BY <1>1, <1>4, <1>5, <1>8 DEF AttemptSound
  <2>2. AttemptSound(a)
    BY <1>1, <1>4
  <2> QED
    BY <1>8, <1>10, <2>1, <2>2, RecordStaysSound
<1>12. attempt' = b
  BY <1>2, <1>4, <1>5, <1>6, <1>11
<1> QED
  BY <1>2, <1>3, <1>4, <1>11, <1>12, AttemptGoesOn

\* The wave is recorded as queued when it is.
LEMMA EndEnqueueKeeps ==
  ASSUME RolloutIInv, EndEnqueue
  PROVE  RolloutIInv'
<1>1. RowsOK /\ attempt \in Attempts /\ AttemptSound(attempt)
  BY RowsAre DEF RolloutIInv
<1>2. /\ UNCHANGED <<change, asking, found, rollout, records, repo, jobs, replan, cleared, trouble>>
      /\ attempt.memo.loaded # {} /\ attempt.memo.assessed # {}
      /\ \A t \in Planned : HasJob(t)
      /\ attempt' = [attempt EXCEPT !.memo = [attempt.memo EXCEPT !.enqueued = TRUE]]
  BY DEF EndEnqueue, Memo, Recorded, WaveEnqueued, Proceeds
<1>3. RowsOK' /\ TroubleGrows
  BY <1>1, <1>2, TroubleInBounds DEF RowsOK
<1>4. PICK a \in Attempts : a = attempt
  BY <1>1
<1>5. PICK old \in Steps : old = a.memo
  BY AttemptFields
<1>6. PICK m : m = [old EXCEPT !.enqueued = TRUE]
  OBVIOUS
<1>7. m \in Steps /\ m.loaded = old.loaded /\ m.assessed = old.assessed
  BY <1>6 DEF Steps
<1>8. MemoSound(old) /\ old.loaded # {} /\ old.assessed # {}
  BY <1>1, <1>2, <1>4, <1>5 DEF AttemptSound
<1>9. \A t \in WaveOf(m) : Queued(t)
  <2>1. WaveOf(m) = WaveOf(old)
    BY <1>7 DEF WaveOf
  <2>2. WaveOf(old) = Planned
    BY <1>4, <1>5, PlannedIsWave
  <2> QED
    BY <1>2, <2>1, <2>2 DEF Queued
<1>10. MemoSound(m)
  BY <1>7, <1>8, <1>9 DEF MemoSound
<1>11. PICK b \in Attempts : b = [a EXCEPT !.memo = m] /\ b.active = a.active /\ AttemptSound(b)
  <2>1. a.todo # {} => m.assessed = {}
    BY <1>1, <1>4, <1>5, <1>7 DEF AttemptSound
  <2>2. AttemptSound(a)
    BY <1>1, <1>4
  <2> QED
    BY <1>7, <1>10, <2>1, <2>2, RecordStaysSound
<1>12. attempt' = b
  BY <1>2, <1>4, <1>5, <1>6, <1>11
<1> QED
  BY <1>2, <1>3, <1>4, <1>11, <1>12, AttemptGoesOn

\* An attempt that has left still to assess, and targets so far.
After(a, left, targets) ==
  [a EXCEPT !.todo = left, !.pinned = {},
            !.targets = IF left = {} THEN {} ELSE targets,
            !.memo = IF left = {} THEN [a.memo EXCEPT !.assessed = {targets}] ELSE a.memo]

\* Every target of a finished assessment is true of the commit it names.
LEMMA AssessmentSound ==
  ASSUME NEW a \in Attempts, AttemptSound(a), a.todo # {},
         NEW targets \in SUBSET Targets, \A t \in targets : OfTheBase(t),
         NEW left \in SUBSET Repos,
         NEW b, b = After(a, left, targets)
  PROVE  b \in Attempts /\ b.active = a.active /\ AttemptSound(b)
<1>1. PICK old \in Steps : old = a.memo
  BY AttemptFields
<1>2. MemoSound(old) /\ old.assessed = {}
  BY <1>1 DEF AttemptSound
<1>3. PICK m : m = IF left = {} THEN [old EXCEPT !.assessed = {targets}] ELSE old
  OBVIOUS
<1>4. m \in Steps /\ MemoSound(m) /\ (left # {} => m.assessed = {})
  <2>1. CASE left # {}
    BY <1>2, <1>3, <2>1
  <2>2. CASE left = {}
    <3>1. m = [old EXCEPT !.assessed = {targets}]
      BY <1>3, <2>2
    <3>2. m \in Steps /\ m.assessed = {targets} /\ m.enqueued = old.enqueued
      BY <3>1 DEF Steps
    <3>3. ~old.enqueued
      BY <1>2 DEF MemoSound
    <3> QED
      BY <2>2, <3>2, <3>3 DEF MemoSound
  <2> QED
    BY <2>1, <2>2
<1>5. PICK ts \in SUBSET Targets : ts = IF left = {} THEN {} ELSE targets
  OBVIOUS
<1>6. b = [a EXCEPT !.todo = left, !.pinned = {}, !.targets = ts, !.memo = m]
  BY <1>1, <1>3, <1>5 DEF After
<1>7. /\ b \in Attempts /\ b.active = a.active /\ b.todo = left /\ b.pinned = {} /\ b.targets = ts /\ b.memo = m
  BY <1>4, <1>6 DEF Attempts
<1> QED
  BY <1>4, <1>5, <1>7 DEF AttemptSound

\* The assessment of one repository: what it adds is true of the commit it names.
LEMMA AssessedKeeps ==
  ASSUME RolloutIInv, RowsOK', TroubleGrows, UNCHANGED <<rollout, records, jobs, cleared>>,
         attempt.todo # {},
         NEW targets \in SUBSET Targets, \A t \in targets : OfTheBase(t),
         Assessed(targets)
  PROVE  RolloutIInv'
<1>1. attempt \in Attempts /\ AttemptSound(attempt)
  BY RowsAre DEF RolloutIInv
<1>2. PICK a \in Attempts : a = attempt
  BY <1>1
<1>3. PICK left : left = a.todo \ {Oldest(a.todo)}
  OBVIOUS
<1>4. left \in SUBSET Repos
  BY <1>3, AttemptFields
<1>5. attempt' = After(a, left, targets)
  BY <1>2, <1>3 DEF Assessed, Memo, After
<1>6. PICK b : b = After(a, left, targets)
  OBVIOUS
<1>7. AttemptSound(a) /\ a.todo # {}
  BY <1>1, <1>2
<1>8. b \in Attempts /\ b.active = a.active /\ AttemptSound(b)
  BY <1>4, <1>6, <1>7, AssessmentSound
<1> QED
  BY <1>2, <1>5, <1>6, <1>8, AttemptGoesOn

LEMMA TargetsSoFar ==
  ASSUME RolloutIInv
  PROVE  attempt.targets \in SUBSET Targets /\ \A t \in attempt.targets : OfTheBase(t)
BY RowsAre, AttemptFields DEF RolloutIInv, AttemptSound

LEMMA DescribeKeeps ==
  ASSUME RolloutIInv, Describe
  PROVE  RolloutIInv'
<1>1. RowsOK /\ attempt \in Attempts /\ AttemptSound(attempt)
  BY RowsAre DEF RolloutIInv
<1>2. /\ UNCHANGED <<change, asking, found, rollout, records, jobs, replan, cleared, trouble>>
      /\ attempt.todo # {} /\ attempt.pinned = {}
  BY DEF Describe
<1>3. PICK r \in Repos : r = Oldest(attempt.todo)
  BY <1>1, <1>2, AttemptFields, OldestIsListed
<1>4. repo[r] \in RepoRows /\ repo \in [Repos -> RepoRows]
  BY <1>1 DEF RowsOK, RepoRows
<1>5. ASSUME repo' \in [Repos -> RepoRows], Assessed(attempt.targets)
      PROVE  RolloutIInv'
  <2>1. RowsOK' /\ TroubleGrows
    BY <1>1, <1>2, <1>5, TroubleInBounds DEF RowsOK, RepoRows
  <2> QED
    BY <1>2, <1>5, <2>1, TargetsSoFar, AssessedKeeps
<1>6. CASE repo[r].suspended
  BY <1>3, <1>4, <1>5, <1>6 DEF Describe
<1>7. CASE ~repo[r].suspended /\ repo[r].archived
  <2>1. PICK written \in BOOLEAN : repo' = [repo EXCEPT ![r].archivedAt = @ \/ written]
    BY <1>3, <1>7 DEF Describe
  <2>2. PICK row : row = repo[r]
    OBVIOUS
  <2>3. PICK at \in BOOLEAN : at = (row.archivedAt \/ written)
    BY <1>4, <2>2 DEF RepoRows
  <2>4. repo' = [repo EXCEPT ![r] = [row EXCEPT !.archivedAt = at]]
    BY <1>4, <2>1, <2>2, <2>3
  <2>5. [row EXCEPT !.archivedAt = at] \in RepoRows
    BY <1>4, <2>2, <2>3 DEF RepoRows
  <2>6. repo' \in [Repos -> RepoRows]
    BY <1>4, <2>4, <2>5
  <2> QED
    BY <1>3, <1>5, <1>7, <2>6 DEF Describe
<1>8. CASE ~repo[r].suspended /\ ~repo[r].archived
  <2>1. attempt' = [attempt EXCEPT !.pinned = {repo[r].head}] /\ UNCHANGED repo
    BY <1>3, <1>8 DEF Describe
  <2>2. PICK h \in Heads : h = repo[r].head
    BY <1>4 DEF RepoRows
  <2>3. PICK a \in Attempts : a = attempt
    BY <1>1
  <2>4. PICK b : b = [a EXCEPT !.pinned = {h}]
    OBVIOUS
  <2>5. /\ b \in Attempts /\ b.active = a.active /\ b.memo = a.memo /\ b.todo = a.todo
        /\ b.targets = a.targets
    BY <2>4 DEF Attempts
  <2>6. AttemptSound(b)
    BY <1>1, <1>2, <2>3, <2>5 DEF AttemptSound
  <2>7. RowsOK' /\ TroubleGrows
    BY <1>1, <1>2, <2>1, TroubleInBounds DEF RowsOK
  <2> QED
    BY <1>2, <2>1, <2>2, <2>3, <2>4, <2>5, <2>6, <2>7, AttemptGoesOn
<1> QED
  BY <1>6, <1>7, <1>8

LEMMA ReadKeeps ==
  ASSUME RolloutIInv, ReadManifest
  PROVE  RolloutIInv'
<1>1. RowsOK /\ attempt \in Attempts
  BY RowsAre
<1>2. /\ UNCHANGED <<change, asking, found, rollout, records, repo, jobs, replan, cleared, trouble>>
      /\ attempt.todo # {}
  BY DEF ReadManifest
<1>3. RowsOK' /\ TroubleGrows
  BY <1>1, <1>2, TroubleInBounds DEF RowsOK
<1>4. PICK r \in Repos : r = Oldest(attempt.todo)
  BY <1>1, <1>2, AttemptFields, OldestIsListed
<1>5. PICK sha \in attempt.pinned :
        LET impact == ImpactAt[r][sha]
            target == [repo |-> r, sha |-> sha, impact |-> impact]
        IN  Assessed(IF impact = "unrelated" THEN attempt.targets ELSE attempt.targets \cup {target})
  BY <1>4 DEF ReadManifest
<1>6. sha \in Heads
  BY <1>1, AttemptFields
<1>7. PICK target : target = [repo |-> r, sha |-> sha, impact |-> ImpactAt[r][sha]]
  OBVIOUS
<1>8. target \in Targets /\ OfTheBase(target)
  BY <1>6, <1>7, RolloutConstants DEF Targets, OfTheBase
<1>9. PICK targets : targets = IF ImpactAt[r][sha] = "unrelated" THEN attempt.targets ELSE attempt.targets \cup {target}
  OBVIOUS
<1>10. targets \in SUBSET Targets /\ \A t \in targets : OfTheBase(t)
  BY <1>8, <1>9, TargetsSoFar
<1>11. Assessed(targets)
  BY <1>5, <1>7, <1>9
<1> QED
  BY <1>2, <1>3, <1>10, <1>11, AssessedKeeps

LEMMA ReadFailsKeeps ==
  ASSUME RolloutIInv, ReadFails
  PROVE  RolloutIInv'
<1>1. RowsOK /\ attempt \in Attempts /\ AttemptSound(attempt)
  BY RowsAre DEF RolloutIInv
<1>2. /\ UNCHANGED <<change, asking, found, rollout, records, repo, jobs, replan, cleared>> /\ Trouble
      /\ attempt.pinned # {} /\ Assessed(attempt.targets)
  BY DEF ReadFails
<1>3. RowsOK' /\ TroubleGrows
  BY <1>1, <1>2, TroubleInBounds DEF RowsOK
<1>4. attempt.todo # {}
  BY <1>1, <1>2 DEF AttemptSound
<1> QED
  BY <1>2, <1>3, <1>4, TargetsSoFar, AssessedKeeps

LEMMA AssessKeeps ==
  ASSUME RolloutIInv, Assess
  PROVE  RolloutIInv'
<1>1. RowsOK /\ attempt \in Attempts /\ AttemptSound(attempt)
  BY RowsAre DEF RolloutIInv
<1>2. /\ UNCHANGED <<change, asking, found, repo, jobs, replan, cleared, trouble>>
      /\ attempt.active /\ attempt.memo.assessed = {} /\ attempt.pinned = {} /\ attempt.todo = {}
  BY DEF Assess, Memo
<1>3. RowsOK' /\ TroubleGrows
  BY <1>1, <1>2, TroubleInBounds DEF RowsOK
<1>4. PICK listed \in attempt.memo.listed :
        \/ Ends("dead", "none", {})
        \/ /\ attempt' = [attempt EXCEPT !.todo = listed, !.targets = {},
                            !.memo.assessed = IF listed = {} THEN {{}} ELSE {}]
           /\ UNCHANGED <<rollout, records>>
  BY DEF Assess, Memo
<1>5. CASE Ends("dead", "none", {})
  BY <1>2, <1>3, <1>5, AttemptEnds
<1>6. CASE /\ attempt' = [attempt EXCEPT !.todo = listed, !.targets = {},
                            !.memo.assessed = IF listed = {} THEN {{}} ELSE {}]
           /\ UNCHANGED <<rollout, records>>
  <2>1. PICK a \in Attempts : a = attempt
    BY <1>1
  <2>2. PICK old \in Steps : old = a.memo
    BY AttemptFields
  <2>3. listed \in SUBSET Repos
    BY <2>1, <2>2, MemoFields
  <2>4. PICK done : done = IF listed = {} THEN {{}} ELSE {}
    OBVIOUS
  <2>5. PICK m : m = [old EXCEPT !.assessed = done]
    OBVIOUS
  <2>6. MemoSound(old) /\ old.assessed = {}
    BY <1>1, <1>2, <2>1, <2>2 DEF AttemptSound
  <2>7. m \in Steps /\ m.assessed = done /\ m.enqueued = old.enqueued
    BY <2>4, <2>5 DEF Steps
  <2>8. MemoSound(m)
    BY <2>4, <2>6, <2>7 DEF MemoSound
  <2>9. PICK b : b = [a EXCEPT !.todo = listed, !.targets = {}, !.memo = m]
    OBVIOUS
  <2>10. /\ b \in Attempts /\ b.active = a.active /\ b.todo = listed /\ b.targets = {}
         /\ b.memo = m /\ b.pinned = a.pinned
    BY <2>3, <2>7, <2>9 DEF Attempts
  <2>11. AttemptSound(b)
    BY <1>2, <2>1, <2>4, <2>7, <2>8, <2>10 DEF AttemptSound
  <2>12. attempt' = b
    BY <1>6, <2>1, <2>2, <2>4, <2>5, <2>9 DEF Attempts
  <2> QED
    BY <1>2, <1>3, <1>6, <2>1, <2>10, <2>11, <2>12, AttemptGoesOn
<1> QED
  BY <1>4, <1>5, <1>6

LEMMA RefuseKeeps ==
  ASSUME RolloutIInv, Refuse
  PROVE  RolloutIInv'
<1>1. UNCHANGED <<change, asking, found, repo, jobs, replan, cleared, trouble>> /\ attempt.active
  BY DEF Refuse
<1>2. RowsOK' /\ TroubleGrows
  BY <1>1, RowsAre, TroubleInBounds DEF RowsOK
<1>3. Ends("succeeded", "not-approved", {}) \/ Ends("succeeded", "not-eligible", {})
  BY DEF Refuse
<1> QED
  BY <1>1, <1>2, <1>3, AttemptEnds

LEMMA SucceedKeeps ==
  ASSUME RolloutIInv, Succeed
  PROVE  RolloutIInv'
<1>1. /\ UNCHANGED <<change, asking, found, repo, jobs, replan, cleared, trouble>> /\ attempt.active
      /\ attempt.memo.enqueued /\ Ends("succeeded", "planned", Planned)
  BY DEF Succeed, Memo
<1>2. RowsOK' /\ TroubleGrows
  BY <1>1, RowsAre, TroubleInBounds DEF RowsOK
<1>3. attempt.memo \in Steps
  BY RowsAre, AttemptFields
<1>4. PICK wave : wave = Planned
  OBVIOUS
<1>5. wave \in SUBSET Targets
  BY <1>3, <1>4, PlannedIsWave, WaveIsAssessed
<1>6. \A t \in wave : Queued(t)
  BY <1>1, <1>4, PlannedIsWave DEF RolloutIInv, AttemptSound, MemoSound
<1> QED
  BY <1>1, <1>2, <1>4, <1>5, <1>6, AttemptEnds

LEMMA ThrowsKeeps ==
  ASSUME RolloutIInv, Throws
  PROVE  RolloutIInv'
<1>1. /\ UNCHANGED <<change, asking, found, repo, jobs, replan, cleared>> /\ attempt.active /\ Trouble
      /\ Ends(IF rollout.attempts < MaxAttempts THEN "pending" ELSE "dead", "none", {})
  BY DEF Throws
<1>2. RowsOK' /\ TroubleGrows /\ trouble' \in Nat
  <2>1. RowsOK' /\ TroubleGrows
    BY <1>1, RowsAre, TroubleInBounds DEF RowsOK
  <2> QED
    BY <2>1, RolloutConstants DEF RowsOK
<1>3. rollout.attempts \in Nat
  BY RowsAre DEF RolloutOK, Rollouts
<1>4. CASE rollout.attempts < MaxAttempts
  <2>1. Ends("pending", "none", {}) /\ rollout.attempts < MaxAttempts + trouble'
    BY <1>1, <1>2, <1>3, <1>4, RolloutConstants
  <2> QED
    BY <1>1, <1>2, <2>1, AttemptEnds
<1>5. CASE ~(rollout.attempts < MaxAttempts)
  <2>1. Ends("dead", "none", {})
    BY <1>1, <1>5
  <2> QED
    BY <1>1, <1>2, <2>1, AttemptEnds
<1> QED
  BY <1>4, <1>5

\* A crash may come after the commit of the last record or before it.
LEMMA CrashKeeps ==
  ASSUME RolloutIInv, Crash
  PROVE  RolloutIInv'
<1>1. RowsOK /\ RolloutOK /\ records \in Steps /\ attempt \in Attempts
  BY RowsAre
<1>2. /\ UNCHANGED <<change, asking, found, repo, jobs, replan, cleared>> /\ Trouble /\ attempt.active
      /\ rollout' = [rollout EXCEPT !.status = "pending"] /\ attempt' = NoAttempt
      /\ records' = records \/ records' = attempt.memo
  BY DEF Crash, Memo
<1>3. RowsOK' /\ TroubleGrows /\ trouble' = trouble + 1 /\ trouble \in Nat
  BY <1>1, <1>2, TroubleInBounds DEF RowsOK
<1>4. /\ rollout' \in Rollouts /\ rollout'.status = "pending" /\ rollout'.attempts = rollout.attempts
      /\ rollout'.outcome = rollout.outcome /\ rollout'.wave = rollout.wave /\ rollout.attempts \in Nat
  <2>1. rollout \in Rollouts
    BY <1>1 DEF RolloutOK
  <2> QED
    BY <1>2, <2>1 DEF Rollouts
<1>5. RolloutOK'
  <2>1. rollout.attempts <= MaxAttempts + trouble
    BY <1>1 DEF RolloutOK
  <2>2. rollout'.attempts < MaxAttempts + trouble' /\ rollout'.attempts <= MaxAttempts + trouble'
    BY <1>3, <1>4, <2>1, RolloutConstants
  <2> QED
    BY <1>2, <1>4, <2>2, NothingDone DEF RolloutOK, AttemptsLeft
<1>6. PlannedWaveIsQueued'
  BY <1>2, <1>4, QueueUntouched DEF RolloutIInv, PlannedWaveIsQueued, NothingForgotten, Queued
<1>7. PICK m \in Steps : m = records' /\ MemoSound(m)
  <2>1. attempt.memo \in Steps
    BY <1>1, AttemptFields
  <2> QED
    BY <1>1, <1>2, <2>1 DEF RolloutIInv, AttemptSound
<1>8. PICK a \in Attempts : a = NoAttempt
  BY NothingDone
<1>9. AttemptSound(a)
  BY <1>8, NothingDone
<1> QED
  BY <1>2, <1>3, <1>5, <1>6, <1>7, <1>8, <1>9, JobMoves

-----------------------------------------------------------------------------
(* Rollout: the theorems *)

LEMMA RolloutInitially == RolloutInit => RolloutIInv
<1> SUFFICES ASSUME RolloutInit PROVE RolloutIInv
  OBVIOUS
<1>1. RowsOK
  <2>1. change \in Changes
    BY DEF RolloutInit, Changes, Eligible
  <2>2. repo \in [Repos -> [head : Heads, archived : BOOLEAN, archivedAt : BOOLEAN, suspended : BOOLEAN]]
    BY RolloutConstants DEF RolloutInit
  <2>3. asking \in [Operators -> BOOLEAN] /\ found \in [Triggers -> BOOLEAN]
    BY DEF RolloutInit
  <2>4. replan = FALSE /\ trouble = 0
    BY DEF RolloutInit
  <2>5. replan \in BOOLEAN
    BY <2>4
  <2>6. trouble \in 0..MaxTrouble
    BY <2>4, RolloutConstants
  <2> QED
    BY <2>1, <2>2, <2>3, <2>5, <2>6 DEF RowsOK
<1>2. RolloutOK
  BY NothingDone, NoRolloutYet, RolloutConstants DEF RolloutInit, RolloutOK, AttemptsLeft
<1>3. /\ records \in Steps /\ attempt \in Attempts /\ MemoSound(records) /\ AttemptSound(attempt)
      /\ jobs \subseteq Migrations /\ cleared \subseteq Commits
  BY NothingDone DEF RolloutInit
<1>4. ImpactIsOfTheBase /\ PlannedWaveIsQueued
  BY NoRolloutYet DEF RolloutInit, ImpactIsOfTheBase, PlannedWaveIsQueued
<1> QED
  BY <1>1, <1>2, <1>3, <1>4, TypeInParts DEF RolloutIInv

LEMMA RolloutPreserved ==
  ASSUME RolloutIInv, [RolloutNext]_rolloutVars
  PROVE  RolloutIInv'
<1>1. ASSUME NEW o \in Operators, Resolve(o) \/ Approve(o) PROVE RolloutIInv'
  BY <1>1, OperatorsKeep
<1>2. ASSUME NEW s \in Triggers, Find(s) \/ EnqueueRollout(s) \/ EnqueueFails(s) PROVE RolloutIInv'
  BY <1>2, TriggersKeep, EnqueueKeeps
<1>3. ASSUME NEW migrations \in BOOLEAN, DeleteRollout(migrations) PROVE RolloutIInv'
  BY <1>3, DeleteKeeps
<1>4. CASE ClearMigrations
  BY <1>4, ClearKeeps
<1>5. CASE WorkflowSteps
  BY <1>5, StartKeeps, LoadKeeps, RefuseKeeps, ListKeeps, AssessKeeps, DescribeKeeps, ReadKeeps,
     EnqueueMigrationKeeps, EndEnqueueKeeps, SucceedKeeps DEF WorkflowSteps
<1>6. CASE ReadFails \/ Throws \/ Crash
  BY <1>6, ReadFailsKeeps, ThrowsKeeps, CrashKeeps
<1>7. ASSUME NEW verdict \in Verdicts, Resweep(verdict) PROVE RolloutIInv'
  BY <1>7, ResweepKeeps
<1>8. ASSUME NEW r \in Repos, RepositoryMoves(r) PROVE RolloutIInv'
  BY <1>8, RepositoryKeeps
<1>9. ASSUME NEW j \in jobs, MigrationFails(j) PROVE RolloutIInv'
  BY <1>9, MigrationFailsKeeps
<1>10. CASE UNCHANGED rolloutVars
  <2>1. UNCHANGED <<change, asking, found, rollout, records, attempt, repo, jobs, replan, cleared, trouble>>
    BY <1>10 DEF rolloutVars
  <2>2. RowsOK' /\ TroubleGrows
    BY <2>1, RowsAre, TroubleInBounds DEF RowsOK
  <2> QED
    BY <2>1, <2>2, RowsMove
<1> QED
  BY <1>1, <1>2, <1>3, <1>4, <1>5, <1>6, <1>7, <1>8, <1>9, <1>10 DEF RolloutNext

LEMMA RolloutInvariant == RolloutSpec => []RolloutIInv
<1>1. RolloutInit => RolloutIInv
  BY RolloutInitially
<1>2. RolloutIInv /\ [RolloutNext]_rolloutVars => RolloutIInv'
  BY RolloutPreserved
<1> QED
  BY <1>1, <1>2, PTL DEF RolloutSpec

\* Every variable of Rollout keeps to its type; a rollout makes no more attempts
\* than its job allows and crashes add (fail_job, migrations/004_jobs.sql).
THEOREM RolloutTypeCorrect == RolloutSpec => []RolloutTypeOK
<1>1. RolloutIInv => RolloutTypeOK
  BY DEF RolloutIInv
<1> QED
  BY <1>1, RolloutInvariant, PTL

\* A migration is told of its repository what the manifest says at the commit
\* it is pinned to, however many repositories move while they are assessed
\* (assessCandidates, src/workflows/plan-rollout.ts).
THEOREM ImpactsAreTrue == RolloutSpec => []ImpactIsOfTheBase
<1>1. RolloutIInv => ImpactIsOfTheBase
  BY DEF RolloutIInv
<1> QED
  BY <1>1, RolloutInvariant, PTL

\* A rollout that reports a plan has queued the wave it reports, whatever its
\* canary, and wherever its attempts failed or crashed
\* (enqueueWave, src/workflows/plan-rollout.ts).
THEOREM WaveIsQueued == RolloutSpec => []PlannedWaveIsQueued
<1>1. RolloutIInv => PlannedWaveIsQueued
  BY DEF RolloutIInv
<1> QED
  BY <1>1, RolloutInvariant, PTL

\* The first approver stays on record: of any number of operators who resolved
\* the change before, none writes over another (scripts/approve-change.ts).
THEOREM FirstApproverStays == RolloutSpec => ApproverIsFinal
<1>1. ASSUME RolloutIInv, [RolloutNext]_rolloutVars
      PROVE  [change.approvedBy # Nobody => change'.approvedBy = change.approvedBy]_rolloutVars
  <2>1. change \in Changes
    BY RowsAre, <1>1 DEF RowsOK
  <2>2. CASE UNCHANGED change
    BY <2>2
  <2>3. ASSUME NEW o \in Operators, Approve(o)
        PROVE  change.approvedBy # Nobody => change'.approvedBy = change.approvedBy
    BY <2>1, <2>3 DEF Approve, Changes
  <2>4. ASSUME NEW verdict \in Verdicts, Resweep(verdict)
        PROVE  change'.approvedBy = change.approvedBy
    BY <2>1, <2>4 DEF Resweep, Changes
  <2>5. \/ UNCHANGED change
        \/ \E o \in Operators : Approve(o)
        \/ \E verdict \in Verdicts : Resweep(verdict)
    BY <1>1 DEF RolloutNext, rolloutVars, WorkflowSteps, Resolve, Find, EnqueueRollout, EnqueueFails,
         DeleteRollout, ClearMigrations, Start, LoadChange, Refuse, ListCandidates, Assess, Describe,
         ReadManifest, EnqueueMigration, EndEnqueue, Succeed, ReadFails, Throws, Crash,
         RepositoryMoves, MigrationFails
  <2> QED
    BY <2>2, <2>3, <2>4, <2>5
<1> QED
  BY <1>1, RolloutInvariant, PTL DEF RolloutSpec, ApproverIsFinal

-----------------------------------------------------------------------------
(* Both *)

\* Sweeps and rollouts keep to their types side by side, whichever of them moves:
\* neither's invariant needs the other's (src/schedule/sweep-scheduler.ts and
\* src/workflows/plan-rollout.ts share no row but that of the change).
THEOREM FanOutTypeCorrect == MCSpec => []FanOutTypeOK
<1> DEFINE Both == SweepsIInv /\ RolloutIInv
<1>1. MCInit => Both
  BY SweepsInitially, RolloutInitially DEF MCInit
<1>2. Both /\ [MCNext]_<<sweepVars, rolloutVars, focus>> => Both'
  <2> SUFFICES ASSUME Both, [MCNext]_<<sweepVars, rolloutVars, focus>> PROVE Both'
    OBVIOUS
  <2>1. [SweepsNext]_sweepVars /\ [RolloutNext]_rolloutVars
    BY DEF MCNext
  <2> QED
    BY <2>1, SweepsPreserved, RolloutPreserved
<1>3. Both => FanOutTypeOK
  BY DEF SweepsIInv, RolloutIInv, FanOutTypeOK
<1> QED
  BY <1>1, <1>2, <1>3, PTL DEF MCSpec
=============================================================================
