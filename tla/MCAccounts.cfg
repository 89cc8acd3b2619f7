SPECIFICATION Spec
CONSTANTS
  a = a
  b = b
  u = u
  t = t
  p = p
  q = q
  google = google
  discord = discord
  Providers = {google, discord}
  NoPassword = NoPassword
  Emails = {a, b}
  Passwords = {p, q}
  Subjects = {u}
  Reports <- MCReports
  Telegrams = {t}
  Unconfigured = {}
  CodeTTL = 2
  Resend = 1
  MaxAttempts = 1
  StateTTL = 1
  SessionTTL = 1
  MaxCodes = 2
  MaxStates = 2
  MaxSessions = 2
  MaxProofs = 3
  MaxTime = 2
SYMMETRY Symmetry
CHECK_DEADLOCK FALSE
INVARIANTS AccountsTypeOK CodeSpentOnce SessionsEarned
PROPERTIES VerifiedPasswordKept SweepIsInvisible
