CONSTANTS
  Tenant = {a, b}
  Session = {s1, s2}
  Project = {"p"}
  Types = {"awaiting_input", "message"}
  Filters <- MCFilters
  InteractionCap = 1
  MemberCap = 1
  MaxEvents = 4
  MaxLogged = 3
  MaxMishaps = 1
  Daemon = {d1, d2}
  Channel = {"c"}
  Envs <- MCEnvs
  MaxBoots = 3
  MaxWrites = 1
  Row <- MCRow
  Day = {1, 2}
  Agent <- MCAgent
  Model <- MCModel
  Tokens = {1, 2}
  MaxCalls = 3
SPECIFICATION Spec
SYMMETRY Symmetric
VIEW MCView
CHECK_DEADLOCK FALSE
INVARIANTS StoresKeepTheSameBooks
PROPERTIES MigratesSafely
PROPERTIES MemoryHonoursContract LogHonoursContract SqlHonoursContract
