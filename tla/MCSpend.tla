-------------------------------- MODULE MCSpend --------------------------------
(* Three calls on two days, Sunday and Monday of one month, by two agents:    *)
(* two from before the counter, so that a backfill may stop between them.     *)
EXTENDS Spend

CONSTANTS old, older, new

MCLegacy == <<older, old>>
MCDayOf == [c \in Call |-> IF c = older THEN 3 ELSE 4]
MCAgentOf == [c \in Call |-> IF c = new THEN "builder" ELSE "planner"]
MCCostOf == [c \in Call |-> IF c = new THEN 3 ELSE 1]
MCMonthOf == [d \in 3..4 |-> 0]
=============================================================================
