SPECIFICATION Spec
CONSTANTS
  r1 = r1
  r2 = r2
  r3 = r3
  t1 = t1
  t2 = t2
  k1 = k1
  p1 = p1
  bSmall = bSmall
  bLarge = bLarge
  NoKey = NoKey
  Keys = {k1}
  Bodies = {bSmall, bLarge}
  Estimate <- MCEstimate
  Actuals = {1, 3}
  Budget <- MCBudget
  DayLength = 2
  Requests = {r1, r2, r3}
  Probes = {}
  Tenants = {t1}
  Calls <- MCKeyedCalls
  SlotLimit <- MCSlotLimit2
  MaxTenants = 1
  Concurrency = 2
  Retention = 1
  MaxTime = 4
  MaxCrashes = 1
  MaxFaults = 1
SYMMETRY Symmetry
CHECK_DEADLOCK FALSE
INVARIANTS SingleFlight PendingHasOwner ReplayWasPaid OncePerKey
