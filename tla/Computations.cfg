CONSTANTS
  theft = theft
  brawl = brawl
  S1 = S1
  S2 = S2
  N1 = N1
  N2 = N2
  N3 = N3
  Npcs <- ThreeNpcs
  NoNpc = 0
  Unseen = 99
  NoSight <- NothingSeen
  Events <- SomeEvents
  Sights <- SomeSights
  Casts <- SomeCasts
  WitnessRadius = 12
  NearbyRadius = 24
  MaxDistance = 28
  Partners = {1}
  Pauses = {8}
  Sessions = {S1, S2}
  CandidateNpcs = {N1, N2, N3}
  EventTriggers = {"event"}
  TurnTriggers = {"turn"}
  Tiers = {"ambient", "focused"}
  Rate <- Prices
  StrongModel = "focused"
  Outcomes <- SomeEnds
  MaxSequence = 2
  MaxRoutings = 2
  MaxCalls = 2
  Limits <- SomeLimits
  CharactersPerToken = 2
  Lengths = {2, 5}
  Contract = 4
  Scenes <- SomeScenes
  MaxTurns = 4
SYMMETRY Symmetry
SPECIFICATION MCSpec
INVARIANTS OneHop PromptTellsTheReason
INVARIANTS FitsBudget NothingShedInVain SavingsNotNegative FlushOrderFree PanelsAgree
PROPERTY FadesFromLastSight
CHECK_DEADLOCK FALSE
