CONSTANTS
  Standard = {o, p}
  Interactive = {f, g}
  MaxConsecutive = 1
  StoreMayFail = TRUE
  NoSession = NoSession
  Client = {c1, c2, c3}
  Ops = {"run", "create", "cancel", "message", "reply", "steer", "ask"}
  Foreign = {p}
  MaxMember = 1
SPECIFICATION LifecycleSpec
SYMMETRY Symmetric
CHECK_DEADLOCK FALSE
INVARIANTS StoreAgrees OneFollowupPerPark AbortReachesTheRun
PROPERTIES TerminalIsFinal
