CONSTANTS
  NoTarget = NoTarget
  NoSnapshot = NoSnapshot
  Npcs <- MCNpcs
  Snapshots <- MCSnapshots
  Scores = {0, 2, 3}
  Times = {0, 1, 2, 3}
  FocusedCapacity = 1
  ReactiveCapacity = 1
  MinimumScore = 2
  FocusedHold = 2
  ReactiveHold = 3
  FocusedBonus = 2
  ReactiveBonus = 1
SPECIFICATION Spec
INVARIANTS CapacityHeld OutscoredOnlyInHold
PROPERTY DemotedOnlyByStronger
