SPECIFICATION FairSpec
CONSTANTS
  r1 = r1
  r2 = r2
  r3 = r3
  t1 = t1
  t2 = t2
  k1 = k1
  p1 = p1
  bSmall = bSmall
  bLarge = bLarge
  NoKey = NoKey
  Keys = {k1}
  Bodies = {bSmall, bLarge}
  Estimate <- MCEstimate
  Actuals = {1, 3}
  Budget <- MCBudget
  DayLength = 2
  Requests = {r1, r2}
  Probes = {p1}
  Tenants = {t1}
  Calls <- MCLiveCalls
  SlotLimit <- MCSlotLimit2
  MaxTenants = 1
  Concurrency = 2
  Retention = 1
  MaxTime = 1
  MaxCrashes = 1
  MaxFaults = 1
CHECK_DEADLOCK FALSE
PROPERTIES RequestsEnd PermitsReturn
