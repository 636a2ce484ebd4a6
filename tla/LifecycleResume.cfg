CONSTANTS
  Standard = {o}
  Interactive = {f}
  MaxConsecutive = 1
  StoreMayFail = FALSE
  NoSession = NoSession
  Client = {c1, c2}
  Ops = {"create", "reply"}
  Foreign = {}
  MaxMember = 0
SPECIFICATION LifecycleSpec
CHECK_DEADLOCK FALSE
INVARIANTS ReplyReachesItsRun
