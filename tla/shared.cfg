CONSTANTS
  h1 = h1
  h2 = h2
  release = release
  update = update
  dataOnly = dataOnly
  textOnly = textOnly
  empty = empty
  garbage = garbage
  Handles = {h1, h2}
  Files <- WholeFiles
  Rows <- WholeRows
  Attachable <- WholeFiles
  Ids = {1, 3}
  CrashPoints <- AnyPoint
  MaxMerges = 3
SPECIFICATION FairSpec
INVARIANT SearchHasItsTable
PROPERTY NoCardIsLost
PROPERTY CallsReturn
