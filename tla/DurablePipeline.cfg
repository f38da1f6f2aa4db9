CONSTANTS
  a = a
  b = b
  NoKey = NoKey
  Npcs = {a, b}
  Keys <- MCKeys
  NpcOf <- MCNpcOf
  MaxCrashes = 2
  MaxHandovers = 2
SPECIFICATION Spec
INVARIANT OutstandingIsOwned
PROPERTIES AnswersOnce SentInOrder SettledStaysUnsent
