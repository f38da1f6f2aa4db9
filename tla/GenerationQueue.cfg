CONSTANTS
  a = a
  b = b
  c = c
  s1 = s1
  NoWork = NoWork
  Sessions = {s1}
  Npcs = {a, b, c}
  Keys <- MCKeys
  Works <- MCWorks
  FocusedLimit = 1
  ReactiveLimit = 2
  TotalLimit = 2
  MaxArrivals = 5
SPECIFICATION Spec
INVARIANTS CapacityExact ClaimsExact
PROPERTY RestatableWaitsItsTurn
