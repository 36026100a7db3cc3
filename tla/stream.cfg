SPECIFICATION StreamSpec
CONSTANTS
  Garbage = {0}
  LPModulus = 8
  DirtyBit = 4
  Kinds = {"Move", "SelfMove", "SelfSwap", "InPlace", "DeckTop", "Add", "Remove", "Draw", "Swap", "Shuffle", "ShuffleSet", "CounterAdd", "Disable", "Lp", "Turn", "Phase", "Hint"}
  Codes = {0, 1}
  Positions = {2}
  CounterTypes = {1}
  CounterCounts = {1, 2}
  LPAmounts = {1}
  LPBound = 8
  Phases = {1, 2}
  ActivePiles <- DeckHand
  ActiveZones <- WithMaterial
  BlockableZones <- OurZones
  FillSizes <- Deck2
  InitialLP <- OneLP
  MaxMsgs = 2
  MaxRecords = 4
INVARIANTS LiveMirror HeadIsLast NothingIsGarbled ThrowIsTheEnd RegistersReplay RegisterInv
PROPERTIES DeliversTheDuel
CHECK_DEADLOCK FALSE
