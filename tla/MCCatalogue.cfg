SPECIFICATION Spec
CONSTANTS
  t = t
  m1 = m1
  m2 = m2
  gold = gold
  pass = pass
  pack = pack
  LegacyDefault = LegacyDefault
  NoGroup = NoGroup
  Tenants = {t}
  Accounts = {t}
  ConsoleEnabled = TRUE
  Models = {m1, m2}
  Groups = {LegacyDefault, gold}
  Plans = {pass}
  Method <- MCRolling
  MaxSubs = 1
SYMMETRY Symmetry
CHECK_DEADLOCK FALSE
INVARIANTS CatalogueTypeOK
PROPERTIES SyncNeverWidens PlanEditKeepsPaid
