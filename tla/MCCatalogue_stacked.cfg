SPECIFICATION Spec
CONSTANTS
  t = t
  m1 = m1
  m2 = m2
  gold = gold
  pass = pass
  pack = pack
  LegacyDefault = LegacyDefault
  NoGroup = NoGroup
  Tenants = {t}
  Accounts = {t}
  ConsoleEnabled = TRUE
  Models = {m1, m2}
  Groups = {LegacyDefault, gold}
  Plans = {pass, pack}
  Method <- MCBoth
  MaxSubs = 2
SYMMETRY Symmetry
CHECK_DEADLOCK FALSE
PROPERTIES EitherGroupEntitles
