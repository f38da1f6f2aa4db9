CONSTANTS
  v1 = v1
  v2 = v2
  t1 = t1
  t2 = t2
  t3 = t3
  c1 = c1
  c2 = c2
  c3 = c3
  NoConversation = NoConversation
  NoTurn = NoTurn
  Conversations = {v1, v2}
  Turns = {t1, t2, t3}
  ConversationOf <- MCConversationOf
  Calls = {c1, c2, c3}
  MaxCrashes = 1
SYMMETRY CallSymmetry
SPECIFICATION Spec
INVARIANTS NoTurnLost TurnSettlesOnce StoreMatchesMemory
