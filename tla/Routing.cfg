SPECIFICATION EagerSpec
CONSTANTS
  Routers = {"A", "B"}
  Networks = {"N0", "N1", "N2"}
  Config <- TwoWays
  Cost <- TwoWaysCost
  Limit = 4
  Infinity = 9
  MaxSilent = 2
  Leftovers <- SomeLeftovers
  MaxChanges = 2
INVARIANTS
  TypeOK
  NeverTooShort
  SilentRoutesDropped
  NoFalseAlarm
PROPERTY
  Converges
CHECK_DEADLOCK FALSE
