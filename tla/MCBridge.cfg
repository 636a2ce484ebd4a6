CONSTANTS
  Client = {k1}
  ByQuery = {}
  FileCap = 1
  MaxEvents = 4
  MaxIds = 4
  Faults = {"fail", "torn", "rename", "crash"}
  Session = {s1, s2, s3}
  Project = {p, q}
  Reader = {r1, r2}
  ListLimit = 1
  MaxFrames = 3
  MaxAsked = 2
  Instance = {i, j}
  Caller = {1, 2, 3, 4}
  Ops = {"create", "read", "update", "mirror", "delete"}
  Dialects = {"postgres", "sqlite"}
  Durabilities = {"sync", "async", "exit"}
  MaxAsync = 3
  Shown = 2
  MaxLines = 4
SPECIFICATION MCSpec
CHECK_DEADLOCK FALSE
INVARIANTS IdsAreUnique RetainsASuffix HonestResume StreamsCarryTheirSessions
INVARIANTS CommitsOnWhatItSaw CacheKeepsUp ReportAddsUp
