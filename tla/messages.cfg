SPECIFICATION Spec
CONSTANTS
  Names <- AllNames
  Sizes <- AllSizes
  Zones <- AllZones
  Types = {1, 2, 3, 4, 5, 6, 7}
INVARIANTS  ConsumesTheBuffer
