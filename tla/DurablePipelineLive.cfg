CONSTANTS
  a = a
  b = b
  NoKey = NoKey
  Npcs = {a, b}
  Keys <- MCTwoKeys
  NpcOf <- MCTwoNpcOf
  MaxCrashes = 2
  MaxHandovers = 2
SPECIFICATION Spec
PROPERTIES CommandsSettle AttemptsResolve
