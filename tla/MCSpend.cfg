CONSTANTS
  old = old
  older = older
  new = new
  Call = {older, old, new}
  Legacy <- MCLegacy
  Tail300 = 2
  DayOf <- MCDayOf
  AgentOf <- MCAgentOf
  CostOf <- MCCostOf
  MonthOf <- MCMonthOf
  LegendSize = 1
  WindowDays = 2
  Today = 4
  MaxTries = 2
  MaxMidnights = 1
  MaxFailures = 1
SPECIFICATION Spec
INVARIANTS HistoryIsTrue SpendIsConserved
PROPERTIES PageCatchesUp
