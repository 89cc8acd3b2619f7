SPECIFICATION Spec
CONSTANTS
  PlanIds = {"pass", "pack"}
  Definitions <- MCStacked
  Events = {1, 2}
  Credits = {"c"}
  Payments = {}
  TopUps = {}
  CustomPacks = {}
  RateTokens = 1
  Million = 3
  Period = 3
  Batch = 1
  Retention = 1
  MaxSubs = 2
  MaxTime = 3
  CreditTokens = 1
  Units = {0, 1, 3}
CHECK_DEADLOCK FALSE
INVARIANTS LateIsNotFree
