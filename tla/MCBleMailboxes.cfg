CONSTANTS
  Names = {n1, n2}
  Types = {0, 1}
  Ids = {0, 3}
  Empty = Empty
  MaxRequests = 4
SPECIFICATION BoxSpec
INVARIANTS
  OwnAnswerOrNone
PROPERTIES
  WrittenNameIsShown
