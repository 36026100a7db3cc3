SPECIFICATION Spec
CONSTANTS
  Garbage = {0}
  LPModulus = 8
  Kinds = {"SamePile"}
  Codes = {1}
  Positions = {5}
  CounterTypes = {}
  CounterCounts = {}
  LPAmounts = {}
  LPBound = 8
  Phases = {}
  ActivePiles <- JustDeck
  ActiveZones <- Field
  BlockableZones <- NoPlaces
  FillSizes <- Deck2
  InitialLP <- NoLP
  MaxMsgs = 2
  MaxRecords = 2
INVARIANTS LiveMirror
