SPECIFICATION Spec
CONSTANTS
  PlanIds = {"pass", "pack", "legacy", "money"}
  Definitions <- MCAll
  Events = {1, 2}
  Credits = {"c"}
  Payments = {"x"}
  TopUps = {1}
  CustomPacks <- MCPacks
  RateTokens = 1
  Million = 3
  Period = 1
  Batch = 1
  Retention = 1
  MaxSubs = 2
  MaxTime = 2
  CreditTokens = 1
  Units = {3}
CHECK_DEADLOCK FALSE
INVARIANTS BillingTypeOK LedgerExplainsBalances BilledAtMostOnce RefusedHasNothing EnvelopeIsHeld
PROPERTIES WalletIsLast CursorPassesOnlyBilled
