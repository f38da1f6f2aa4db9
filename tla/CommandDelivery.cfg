CONSTANTS
  n1 = n1
  n2 = n2
  k1 = k1
  k2 = k2
  NoNpc = NoNpc
  NoSocket = NoSocket
  Npcs = {n1, n2}
  Sockets = {k1, k2}
  MaxTracked = 1
  MaxTriggers = 2
  MaxRestarts = 1
SYMMETRY DeliverySymmetry
SPECIFICATION Spec
INVARIANTS AppliedInOrder TurnsInOrder
CHECK_DEADLOCK FALSE
