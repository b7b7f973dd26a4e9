SPECIFICATION MCSpec
CONSTANTS
  Releases <- MCReleases
  Baseline <- Old
  OwnSurface <- MCOwnSurface
  TypesVersions <- MCTypesVersions
  TypesSurface <- MCTypesSurface
  MaxChanges = 3
  MaxLosses = 2
  Market <- MCMarket
  From <- Old
  Ranges <- MCRanges
  MaxEdits = 4
  s1 = s1
  s2 = s2
  Subscriptions = {s1, s2}
  CustomerOf <- MCCustomerOf
  Plans <- MCPlans
  MaxVersions = 2
  MaxMishaps = 0
  i1 = i1
  r1 = r1
  r2 = r2
  Installations = {i1}
  Repositories = {r1, r2}
  InstallationOf <- MCInstallationOf
  Browsers = {b1}
  MaxHooks = 2
  j1 = j1
  j2 = j2
  j3 = j3
  Jobs = {j1, j2, j3}
  Targets = {r1, r2}
  TargetOf <- MCTargetOf
  Slots = 2
  MaxPerHour = 1
  MaxOpen = 1
  MaxSwitches = 3
  Addresses = {a1, a2, a3}
  PerClient = 2
  Global = 3
  WindowLength = 2
  MaxTracked = 2
  MaxTime = 4
  Mints = {m1, m2}
  MaxHeld = 2
  MaxLost = 1
  Focuses = {"enrolment"}
INVARIANT RevocationIsHonoured
CHECK_DEADLOCK FALSE
