SPECIFICATION Spec
CONSTANTS
  Garbage = {0}
  LPModulus = 8
  Kinds = {"Move", "CounterAdd"}
  Codes = {1}
  Positions = {5}
  CounterTypes = {1}
  CounterCounts = {1}
  LPAmounts = {}
  LPBound = 8
  Phases = {}
  ActivePiles <- JustDeck
  ActiveZones <- OneMonster
  BlockableZones <- NoPlaces
  FillSizes <- Deck1
  InitialLP <- NoLP
  MaxMsgs = 4
  MaxRecords = 2
INVARIANTS CounterCursorsInRange
