SPECIFICATION MCSpec
CONSTANTS
  s1 = s1
  Subscriptions = {s1}
  CustomerOf <- MCCustomerOf
  Plans <- MCPlans
  MaxVersions = 2
  MaxMishaps = 0
  Runners = {r1, r2, r3}
  Ticks = {t1, t2, t3}
  Connections = {x1, x2, x3}
  Free = Free
  Concurrency = 1
  BatchSize = 2
  Jobs = {j1}
  Keys = {k1}
  Workers = {w1, w2}
  NoKey = NoKey
  NoWorker = NoWorker
  MaxAttempts = 2
  MaxDisruptions = 2
  Tokens <- Words
  Newline = Newline
  Plusses = Plusses
  Dashes = Dashes
  Context = 1
  MaxCells = 30
  Selected <- MCSelected
  ByName <- MCByName
  SafePaths = {"index", "api", "hook"}
  NeverIncluded = {}
  CiPaths = {"hook"}
  Watched <- MCWatched
  Impacted = {"use"}
  Refused = {"host"}
  Undecodable = Undecodable
  Replacement = Replacement
  Binary = Binary
  MaxTotalBytes = 14
  MaxPromptBytes = 12
  MaxFiles = 2
  MaxEdits = 2
  MaxChangedFiles = 1
  MaxAddedLines = 2
  Trees <- MCTrees
  Proposals <- MCProposals
  Focuses = {"billing"}
PROPERTY InferenceIsTemporary
CHECK_DEADLOCK FALSE
