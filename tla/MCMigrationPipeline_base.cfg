SPECIFICATION MCSpec
CONSTANTS
  j1 = j1
  j2 = j2
  c1 = c1
  c2 = c2
  Jobs = {j1, j2}
  Claims = {c1, c2}
  good = good
  bad = bad
  odd = odd
  Diffs = {good, bad, odd}
  Verdict <- MCVerdict
  MaxAttempts = 2
  MaxStarts = 2
  MaxFaults = 0
  None = None
INVARIANT MovedBaseIsWritten
CHECK_DEADLOCK FALSE
