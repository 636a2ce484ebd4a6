CONSTANTS
  Session = {s1}
  Request = {q1, q2}
  Repo = {r}
  Path = {a, b, i}
  Ignored = {i}
  Text = {x}
  Gone = Gone
  ToolText = {x}
  Untouched = Untouched
  Faults = {"refuse", "fail", "crash"}
  NoTask = NoTask
SPECIFICATION Spec
CHECK_DEADLOCK FALSE
INVARIANTS MutualExclusion HistoryIsClean RunIsPinned
PROPERTIES EveryTaskEnds
