CONSTANTS
  Session = {s1, s2}
  Tab = {t1, t2}
  c1 = c1
  c2 = c2
  MaxBuffered = 2
  MaxReceipts = 2
  Faults = {}
  MaxNow = 5
  MaxReads = 2
  MaxDrops = 1
  StorageFaults = {"full", "gone", "down"}
  MaxDrafts = 1
  MaxVersion = 1
  MaxPolls = 2
  Mode = {"fanout", "full"}
  Window = 2
  MaxHeard = 3
  MaxFailures = 3
SPECIFICATION Spec
SYMMETRY Symmetric
CHECK_DEADLOCK FALSE
INVARIANTS DeliveryIsItsOwn  PollGoesOn
PROPERTIES RowsMoveForward TabsKeepTheirOwn
