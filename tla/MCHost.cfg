SPECIFICATION Spec
CONSTANTS
  r1 = r1
  r2 = r2
  NoRelease = NoRelease
  Releases = {r1, r2}
  Schema <- MCSchema
  Unit <- MCUnit
  NoUnit = "none"
  Keep = 2
  MaxArchives = 4
INVARIANTS HostTypeOK SuccessIsReal
PROPERTIES GoodCopyKept
CHECK_DEADLOCK FALSE
