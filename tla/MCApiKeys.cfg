SPECIFICATION Spec
CONSTANTS
  t1 = t1
  chat = chat
  Tenants = {t1}
  Scopes = {chat}
  Lifetimes = {0, 1}
  Graces = {0, 1}
  Day = 1
  DailyLimit = 2
  TouchInterval = 2
  MaxKeys = 3
  MaxTime = 3
CHECK_DEADLOCK FALSE
INVARIANTS KeysTypeOK KeysAccountedFor
PROPERTIES DeadKeyStaysDead
