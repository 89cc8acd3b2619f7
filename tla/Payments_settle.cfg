SPECIFICATION FairSpec
CONSTANTS
  Cryptomus = {"c"}
  Leuwongrr = {"l"}
  Packs = {"l"}
  Signatures = {1}
  MaxSent = 4
CHECK_DEADLOCK FALSE
INVARIANTS PaymentTypeOK GrantsRecorded
PROPERTIES ImplementsPurchases PaidIsGranted
