CONSTANTS
  h1 = h1
  h2 = h2
  release = release
  update = update
  dataOnly = dataOnly
  textOnly = textOnly
  empty = empty
  garbage = garbage
  Handles = {h1}
  Files <- AllFiles
  Rows <- AllRows
  Attachable <- Databases
  Ids = {1, 3}
  CrashPoints <- OnceCreated
  MaxMerges = 4
SPECIFICATION Spec
INVARIANTS TypeOK OpensOrCreates
PROPERTY AcceptedIsOnDisk
PROPERTY IsLibrary
