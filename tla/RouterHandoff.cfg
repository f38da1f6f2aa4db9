CONSTANTS
  Sessions = {s1}
  Worlds = {w1}
  MaxSequence = 3
  MaxResets = 1
  MaxBuilding = 2
SPECIFICATION HandoffSpec
INVARIANT RouterNeverBehind
PROPERTIES AppliedIsRouted IdleReturns
