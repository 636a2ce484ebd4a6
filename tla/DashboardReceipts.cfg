CONSTANTS
  Session = {s1}
  Tab = {t1}
  c1 = c1
  c2 = c2
  MaxBuffered = 2
  MaxReceipts = 3
  Faults = {}
  MaxNow = 6
  MaxReads = 1
  MaxDrops = 0
  StorageFaults = {}
  MaxDrafts = 1
  MaxVersion = 1
  MaxPolls = 2
  Mode = {"fanout", "full"}
  Window = 2
  MaxHeard = 1
  MaxFailures = 3
SPECIFICATION Spec
SYMMETRY Symmetric
CHECK_DEADLOCK FALSE
INVARIANTS NoInheritedDelivery
