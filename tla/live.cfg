SPECIFICATION Spec
CONSTANTS
  Garbage = {0}
  LPModulus = 8
  Kinds = {"Move", "InPlace", "CounterAdd", "Disable"}
  Codes = {1}
  Positions = {2}
  CounterTypes = {1, 2}
  CounterCounts = {1, 2}
  LPAmounts = {}
  LPBound = 8
  Phases = {}
  ActivePiles <- JustDeck
  ActiveZones <- TwoMaterials
  BlockableZones <- OursBlocked
  FillSizes <- Deck3
  InitialLP <- NoLP
  MaxMsgs = 4
  MaxRecords = 6
INVARIANTS LiveMirror HeadIsLast
CHECK_DEADLOCK FALSE
