SPECIFICATION Spec
CONSTANTS
  Garbage = {0}
  LPModulus = 8
  Kinds = {"Move", "InPlace", "DeckTop", "Add", "Remove", "Draw", "Swap", "Shuffle", "ShuffleSet"}
  Codes = {1, 2}
  Positions = {5}
  CounterTypes = {}
  CounterCounts = {}
  LPAmounts = {}
  LPBound = 8
  Phases = {}
  ActivePiles <- JustDeck
  ActiveZones <- Field
  BlockableZones <- NoPlaces
  FillSizes <- Deck2
  InitialLP <- NoLP
  MaxMsgs = 3
  MaxRecords = 2
INVARIANTS TypeOK MirrorsCore CardCursorsInRange HeadIsLast TempHoldsAbsentCards
PROPERTIES ReplayIsTimeline
