CONSTANTS
  j1 = j1
  j2 = j2
  w1 = w1
  w2 = w2
  migrate = migrate
  rollout = rollout
  NoKey = NoKey
  NoWorker = NoWorker
  Jobs <- TwoRows
  Keys <- BothKeys
  RolloutKeys <- Rollout
  Workers <- TwoWorkers
  MaxAttempts = 2
  BatchSize = 2
  Concurrency = 1
  MaxDisruptions = 2
SPECIFICATION Spec
SYMMETRY Interchangeable
INVARIANTS
  TypeOK
  BoundedRetry
  LeaseNamesLatestAttempt
  MigrationExecutesAlone
PROPERTIES
  OutcomeIsFinal
  OnlyLeaseHolderReports
  ImplementsLifecycle
