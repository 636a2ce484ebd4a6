CONSTANTS
  Socket = {s1, s2, s3}
  Stranger = {s3}
  Speaker = {s1}
  Returning = {s2}
  Backlog = 1
  PerMinute = 1
  Minute = 1
  MaxEvents = 3
  MaxFrames = 2
  MaxTime = 2
  Process = {p1, p2}
  Message = {a, b}
  Meta = {m}
  SnapshotEvery = 2
  Faults = {"save", "drop", "crash"}
  MaxLength = 2
  MaxChanges = 3
  MaxRows = 3
SPECIFICATION MCSpec
SYMMETRY Symmetric
CHECK_DEADLOCK FALSE
INVARIANTS StreamIsWhole RoomIsOrderly ChainIsWhole ServesTheLastRow
