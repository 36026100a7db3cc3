SPECIFICATION Spec
CONSTANTS
  Garbage = {0}
  LPModulus = 8
  Kinds = {"Lp", "Overkill"}
  Codes = {1}
  Positions = {5}
  CounterTypes = {}
  CounterCounts = {}
  LPAmounts = {1, 3}
  LPBound = 8
  Phases = {}
  ActivePiles <- DeckHand
  ActiveZones <- Field
  BlockableZones <- NoPlaces
  FillSizes <- NoSizes
  InitialLP <- OneLP
  MaxMsgs = 2
  MaxRecords = 2
INVARIANTS DamageNeverRaisesLP
