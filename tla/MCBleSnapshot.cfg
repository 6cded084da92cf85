CONSTANTS
  NodeIds = {1, 2, 3, 4}
  Self = 2
  MaxNodes = 3
  PageSize = 1
  IdModulus = 4
  MaxSnapshots = 2
  NoNode = NoNode
  NoAnswer = NoAnswer
SPECIFICATION SnapshotSpec
INVARIANTS
  SnapshotTypeOK
PROPERTIES
  CleanFetchIsComplete
  OnlyEvictedShowTwice
  FetchEnds
