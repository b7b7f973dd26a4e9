CONSTANTS
  Schedulers = {s1, s2}
  Baselines = {b1, b2}
  Intervals = {2, 3}
  Bucket = 2
  MaxDelay = 2
  MaxDisruptions = 2
  Operators = {o1, o2}
  Nobody = nobody
  Triggers = {t1}
  r1 = r1
  r2 = r2
  Repos = {r1, r2}
  Age <- MCAge
  Stars <- MCStars
  MaxHead = 1
  ImpactAt <- MCImpactAt
  Canary <- MCEveryone
  MaxCandidates = 2
  MaxAttempts = 2
  MaxTrouble = 2
  Verdicts = {"moderate", "sources-disagree"}
  Focuses = {"rollout", "sweeps"}
SPECIFICATION MCSpec
CHECK_DEADLOCK FALSE
INVARIANTS
  FanOutTypeOK
  NoSweepSuppressed
  PlannedWaveIsQueued
  ImpactIsOfTheBase
PROPERTIES
  ApproverIsFinal
  ApprovalIsActedOn
  AnalysisFollowsBaseline
