SPECIFICATION FairSpec
CONSTANTS
  Objects = {a, b}
  core = core
  old = old
  Files = {core, old}
  NoFile = NoFile
  Exports <- SomeExports
  MaxMappings = 3
INVARIANTS TypeOK OpenOnceForEach CallsReachTheLibrary
PROPERTIES ConstructionEnds
CHECK_DEADLOCK FALSE
