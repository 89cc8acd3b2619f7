SPECIFICATION Spec
CONSTANTS
  s = s
  k = k
  t1 = t1
  t2 = t2
  t3 = t3
  Sources = {s}
  Credentials = {k, t1, t2, t3}
  Tenants = {t1, t2, t3}
  Owner <- MCOwner
  One = 2
  Rate = 3
  Burst = 3
  Minute = 1
  MaxEntries = 2
  MaxTenants = 2
  Rates = {1, 3}
  MaxTime = 4
SYMMETRY Symmetry
CHECK_DEADLOCK FALSE
INVARIANTS LimitsTypeOK
PROPERTIES ImplementsTokenBuckets TenantBucketKept
