CONSTANTS
  n1 = n1
  w1 = w1
  w2 = w2
  tick = tick
  NoNpc = NoNpc
  Npcs = {n1}
  Workers = {w1, w2}
  ServerThread = tick
  MaxBuilt = 3
  MaxTurns = 1
  MaxForgets = 1
SYMMETRY WorkerSymmetry
SPECIFICATION Spec
INVARIANTS OneAtATime NothingStranded PlacedByTheWorld
PROPERTY WorldGoesForward
CHECK_DEADLOCK FALSE
