CONSTANTS
  Standard = {o, p}
  Interactive = {f}
  MaxConsecutive = 1
  StoreMayFail = TRUE
  NoSession = NoSession
  Client = {c1, c2, c3}
  Ops = {"create", "cancel", "reply"}
  Foreign = {}
  MaxMember = 0
SPECIFICATION LifecycleSpec
CHECK_DEADLOCK FALSE
PROPERTIES EventuallySettled QueueIsImplemented
