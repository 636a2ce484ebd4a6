CONSTANTS
  Tenant = {t0, t1}
  Default = t0
  Header = {t1}
  Email = {"e"}
  Request = {q, r}
  Secret = {k}
  NoSecret = NoSecret
  None = None
  Loopback = TRUE
  MaxKeys = 1
  MaxTurns = 1
SPECIFICATION Spec
CHECK_DEADLOCK FALSE
INVARIANTS IdentityHolds
PROPERTIES DeadSessionIsDropped
