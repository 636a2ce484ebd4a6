CONSTANTS
  Standard = {s1, s2}
  Interactive = {i1, i2}
  MaxConsecutive = 1
  StoreMayFail = TRUE
  NoSession = NoSession
SPECIFICATION Spec
SYMMETRY Symmetric
CHECK_DEADLOCK FALSE
INVARIANTS NoLostWakeup WireIsFaithful BypassBound
PROPERTIES PumpTakesItsTurns
